----------------------------- MODULE DeliveryProofs ----------------------------
(***************************************************************************)
(* Safety of remote capture end to end, for any number of processes,       *)
(* segments, records and connections: what the shipper counts and removes  *)
(* was judged and stored by the collector, capture is a durable handoff,   *)
(* and storage sees the records of a process in the order of capture.      *)
(***************************************************************************)
EXTENDS CaptureDelivery, SpoolProofs, CollectorProofs, WellFoundedInduction

---------------------------------------------------------------------------
\* The inductive invariant.

\* What is counted of segment s was judged; it is marked exactly if some was refused.
ProgressIsSound(progress, s) ==
  /\ Sound(progress, segs[s].recs)
  /\ progress.rej => \E i \in 1..progress.off : Refusable(segs[s].recs[i])

\* The batch follows what is counted.
IsChunk(chunk, progress, s) ==
  /\ progress.off + Len(chunk) <= Len(segs[s].recs)
  /\ \A i \in 1..Len(chunk) : chunk[i] = segs[s].recs[progress.off + i]

\* The request on the connection the shipper waits for is the batch, or gone.
Awaits(c, chunk) ==
  /\ c \in Conns
  /\ conn[c] = Quiet \/ (conn[c].pc # "idle" /\ conn[c].req.body = chunk)

ShipIsSound(h) ==
  /\ h \in ShipStates
  /\ \A s \in Segs : ProgressIsSound(h.mem[s], s)
  /\ h.pc \in {"read", "send", "wait", "acked", "finish", "gone"} => h.path[1] \in Segs
  /\ h.pc \in {"send", "wait"} =>
       h.batches < MaxBatches /\ IsChunk(h.chunk, h.mem[h.path[1]], h.path[1])
  /\ h.pc = "wait" => Awaits(h.conn, h.chunk)

CheckpointIsSound ==
  checkpoint \in [Segs -> Progress] /\ \A s \in Segs : ProgressIsSound(checkpoint[s], s)

\* Whatever a handler works on, also for a client that went away, is on the host or stored.
BatchesAreHome ==
  \A c \in Conns : conn[c].pc # "idle" =>
     \A i \in 1..Len(conn[c].req.body) :
        conn[c].req.body[i] \in OnHost \/ Stored(conn[c].req.body[i])

\* A file that never existed holds nothing.
AbsentIsEmpty == \A s \in Segs : segs[s].life = "absent" => segs[s].recs = <<>>

DeliveryInv ==
  /\ SpoolInv /\ CollectorInv /\ AbsentIsEmpty
  /\ ShipIsSound(ship) /\ CheckpointIsSound
  /\ DeletedIsStored /\ QuarantineJustified /\ BatchesAreHome

---------------------------------------------------------------------------
\* What stays true while evidence is added and files grow.

LEMMA EvidenceStable ==
  ASSUME EvidenceKept, NEW r \in Records
  PROVE  /\ Stored(r) => Stored(r)'
         /\ Refusable(r) => Refusable(r)'
         /\ Judged(r) => Judged(r)'
<1>1. Identity[r] \in Identities /\ r # NoRec
  BY RecordAssumption
<1>2. Stored(r) => Stored(r)'
  BY <1>1 DEF EvidenceKept, Stored
<1>3. Refusable(r) => Refusable(r)'
  BY <1>1 DEF EvidenceKept, Refusable
<1> QED
  BY <1>2, <1>3 DEF Judged

LEMMA ProgressStable ==
  ASSUME segs \in [Segs -> FileStates], segs' \in [Segs -> FileStates], FilesGrow, EvidenceKept,
         NEW s \in Segs, NEW progress \in Progress, ProgressIsSound(progress, s)
  PROVE  ProgressIsSound(progress, s)'
<1>1. /\ segs[s].recs \in Seq(Records) /\ segs'[s].recs \in Seq(Records)
      /\ Len(segs[s].recs) \in Nat /\ Len(segs'[s].recs) \in Nat /\ progress.off \in Nat
  BY DEF FileStates, Progress
<1>2. progress.off <= Len(segs[s].recs)
  BY DEF ProgressIsSound, Sound
<1>3. Len(segs[s].recs) <= Len(segs'[s].recs)
  <2>1. CASE Len(segs[s].recs) = 0
    BY <1>1, <2>1
  <2>2. CASE Len(segs[s].recs) > 0
    BY <1>1, <2>2 DEF FilesGrow
  <2> QED
    BY <1>1, <2>1, <2>2
<1>4. ASSUME NEW i \in 1..progress.off
      PROVE  /\ segs'[s].recs[i] = segs[s].recs[i] /\ segs[s].recs[i] \in Records
  BY <1>1, <1>2 DEF FilesGrow
<1>5. ASSUME NEW i \in 1..progress.off
      PROVE  /\ Judged(segs[s].recs[i])' /\ (~progress.rej => Stored(segs[s].recs[i])')
             /\ (Refusable(segs[s].recs[i]) => Refusable(segs[s].recs[i])')
  <2>1. PICK r \in Records : r = segs[s].recs[i]
    BY <1>4
  <2>2. r = segs'[s].recs[i]
    BY <1>4, <2>1
  <2>3. Judged(r) /\ (~progress.rej => Stored(r))
    BY <2>1 DEF ProgressIsSound, Sound
  <2>4. Judged(r)' /\ (~progress.rej => Stored(r)') /\ (Refusable(r) => Refusable(r)')
    BY <2>3, EvidenceStable
  <2> QED
    BY <2>1, <2>2, <2>4 DEF Judged, Stored, Refusable
<1>6. /\ Sound(progress, segs[s].recs)'
      /\ progress.rej => \E i \in 1..progress.off : Refusable(segs[s].recs[i])'
  BY <1>1, <1>2, <1>3, <1>5 DEF Sound, ProgressIsSound
<1> QED
  BY <1>6 DEF ProgressIsSound

LEMMA ChunkStable ==
  ASSUME segs \in [Segs -> FileStates], segs' \in [Segs -> FileStates], FilesGrow,
         NEW s \in Segs, NEW progress \in Progress, NEW chunk \in Seq(Records), IsChunk(chunk, progress, s)
  PROVE  IsChunk(chunk, progress, s)'
<1>1. /\ segs[s].recs \in Seq(Records) /\ segs'[s].recs \in Seq(Records)
      /\ Len(segs[s].recs) \in Nat /\ Len(segs'[s].recs) \in Nat /\ progress.off \in Nat
      /\ Len(chunk) \in Nat
  BY DEF FileStates, Progress
<1>2. progress.off + Len(chunk) <= Len(segs[s].recs)
  BY DEF IsChunk
<1>3. Len(segs[s].recs) <= Len(segs'[s].recs)
  <2>1. CASE Len(segs[s].recs) = 0
    BY <1>1, <2>1
  <2>2. CASE Len(segs[s].recs) > 0
    BY <1>1, <2>2 DEF FilesGrow
  <2> QED
    BY <1>1, <2>1, <2>2
<1>4. ASSUME NEW i \in 1..Len(chunk)
      PROVE  segs'[s].recs[progress.off + i] = chunk[i]
  <2>1. progress.off + i \in 1..Len(segs[s].recs)
    BY <1>1, <1>2
  <2> QED
    BY <2>1 DEF FilesGrow, IsChunk
<1> QED
  BY <1>1, <1>2, <1>3, <1>4 DEF IsChunk

\* A state of the shipper stays sound if the connection it waits for does.
LEMMA ShipStable ==
  ASSUME segs \in [Segs -> FileStates], segs' \in [Segs -> FileStates], FilesGrow, EvidenceKept,
         NEW h, ShipIsSound(h), h.pc = "wait" => Awaits(h.conn, h.chunk)'
  PROVE  ShipIsSound(h)'
<1>1. /\ h \in ShipStates /\ h.mem \in [Segs -> Progress] /\ h.chunk \in Seq(Records)
  BY DEF ShipIsSound, ShipStates
<1>2. ASSUME NEW s \in Segs PROVE ProgressIsSound(h.mem[s], s)'
  BY <1>1, ProgressStable DEF ShipIsSound
<1>3. ASSUME h.pc \in {"send", "wait"} PROVE IsChunk(h.chunk, h.mem[h.path[1]], h.path[1])'
  <2>1. h.path[1] \in Segs /\ IsChunk(h.chunk, h.mem[h.path[1]], h.path[1])
    BY <1>3 DEF ShipIsSound
  <2> QED
    BY <1>1, <2>1, ChunkStable
<1> QED
  BY <1>1, <1>2, <1>3 DEF ShipIsSound

---------------------------------------------------------------------------
\* What a step of the collector does to the requests and to the evidence.

CollectorMoves == Server \/ \E c \in Conns : Lose(c) \/ Respond(c)

KeepsRequest(c) ==
  \/ conn'[c] \in {conn[c], Quiet}
  \/ conn[c].pc # "idle" /\ conn'[c].pc # "idle" /\ conn'[c].req = conn[c].req

LEMMA HandlerKeepsRequest ==
  ASSUME CollectorInv, NEW d \in Conns, Handler(d) \/ Lose(d) \/ Respond(d), NEW c \in Conns
  PROVE  KeepsRequest(c)
<1>1. conn \in [Conns -> ConnStates] /\ conn[d] \in ConnStates /\ HandlerInv(conn[d])
  BY DEF CollectorInv, CollectorTypeOK
<1>2. ASSUME NEW answer, NEW results
      PROVE  /\ Answered(conn[d], answer, results).pc = "reply"
             /\ Answered(conn[d], answer, results).req = conn[d].req
             /\ Refused(conn[d], answer).pc = "reply" /\ Refused(conn[d], answer).req = conn[d].req
  BY SMTT(30), <1>1 DEF Answered, Refused, ConnStates
<1>3. SUFFICES ASSUME c = d PROVE KeepsRequest(d)
  BY <1>1 DEF Handler, Admit, RefuseBody, EnsurePending, PoolBusy, Lock, LoseRow, Apply, Complete,
              ProcessorFails, RollBack, Lose, Respond, KeepsRequest
<1>4. CASE Admit(d)
  <2>1. conn'[d] = Refused(conn[d], "busy") \/ conn'[d] = [conn[d] EXCEPT !.pc = "pending"]
    BY <1>1, <1>4 DEF Admit
  <2> QED
    <3>1. conn[d].pc # "idle"
      BY <1>4 DEF Admit
    <3>2. CASE conn'[d] = Refused(conn[d], "busy")
      BY <1>2, <3>1, <3>2 DEF KeepsRequest
    <3>3. CASE conn'[d] = [conn[d] EXCEPT !.pc = "pending"]
      <4>1. conn'[d].pc = "pending" /\ conn'[d].req = conn[d].req
        BY <1>1, <3>3 DEF ConnStates
      <4> QED
        BY <3>1, <4>1 DEF KeepsRequest
    <3> QED
      BY <2>1, <3>2, <3>3
<1>5. CASE RefuseBody(d) \/ PoolBusy(d) \/ ProcessorFails(d) \/ RollBack(d)
  <2>1. \E answer : conn'[d] = Refused(conn[d], answer)
    BY <1>1, <1>5 DEF RefuseBody, PoolBusy, ProcessorFails, RollBack
  <2>2. conn[d].pc # "idle"
    BY <1>1, <1>5 DEF RefuseBody, PoolBusy, ProcessorFails, RollBack, HandlerInv
  <2> QED
    BY <1>2, <2>1, <2>2 DEF KeepsRequest
<1>6. CASE EnsurePending(d)
  <2>1. conn'[d] = [conn[d] EXCEPT !.pc = "lock"]
    BY <1>1, <1>6 DEF EnsurePending
  <2> QED
    BY <1>1, <1>6, <2>1 DEF EnsurePending, KeepsRequest, ConnStates
<1>7. CASE Lock(d)
  <2>1. \/ \E answer : conn'[d] = Refused(conn[d], answer)
        \/ \E results : conn'[d] = Answered(conn[d], "ack", results)
        \/ conn'[d] = [conn[d] EXCEPT !.pc = "process", !.row = TRUE]
    BY <1>1, <1>7 DEF Lock
  <2> QED
    <3>1. conn[d].pc # "idle"
      BY <1>7 DEF Lock
    <3>2. conn'[d].pc # "idle" /\ conn'[d].req = conn[d].req
      <4>1. CASE conn'[d] = [conn[d] EXCEPT !.pc = "process", !.row = TRUE]
        BY <1>1, <4>1 DEF ConnStates
      <4> QED
        BY <1>2, <2>1, <4>1
    <3> QED
      BY <3>1, <3>2 DEF KeepsRequest
<1>8. CASE LoseRow(d)
  <2>1. conn'[d] = [conn[d] EXCEPT !.row = FALSE] /\ conn[d].pc = "process"
    BY <1>1, <1>8 DEF LoseRow, HandlerInv
  <2> QED
    BY <1>1, <2>1 DEF KeepsRequest, ConnStates
<1>9. CASE Apply(d)
  <2>1. \E results : conn'[d] = [conn[d] EXCEPT !.results = results]
    BY <1>1, <1>9 DEF Apply
  <2> QED
    BY <1>1, <1>9, <2>1 DEF Apply, KeepsRequest, ConnStates
<1>10. CASE Complete(d)
  <2>1. \/ \E answer : conn'[d] = Refused(conn[d], answer)
        \/ \E results : conn'[d] = Answered(conn[d], "ack", results)
    BY <1>1, <1>10 DEF Complete
  <2>2. conn[d].pc # "idle"
    BY <1>1, <1>10 DEF Complete, HandlerInv
  <2> QED
    BY <1>2, <2>1, <2>2 DEF KeepsRequest
<1>11. CASE Lose(d) \/ Respond(d)
  BY <1>1, <1>11 DEF Lose, Respond, KeepsRequest
<1> QED
  BY <1>4, <1>5, <1>6, <1>7, <1>8, <1>9, <1>10, <1>11 DEF Handler

LEMMA RequestsStay ==
  ASSUME CollectorInv, CollectorMoves, NEW c \in Conns
  PROVE  KeepsRequest(c)
<1>1. CASE CollectorCrash \/ BeginShutdown \/ EndShutdown \/ CollectorStart
  BY <1>1 DEF CollectorCrash, BeginShutdown, EndShutdown, CollectorStart, KeepsRequest
<1> QED
  BY <1>1, HandlerKeepsRequest DEF CollectorMoves, Server

\* Only a record of a request under way gets stored, and replaces none.
StoresOne ==
  \/ UNCHANGED evidence
  \/ \E c \in Conns : /\ conn[c].pc # "idle" /\ conn[c].req.body \in Seq(Records)
                      /\ \E i \in 1..Len(conn[c].req.body) :
                           LET r == conn[c].req.body[i]
                           IN /\ evidence[Identity[r]] \in {NoRec, r}
                              /\ evidence' = [evidence EXCEPT ![Identity[r]] = r]

LEMMA EvidenceComesFromRequests == ASSUME CollectorInv, CollectorMoves PROVE StoresOne
<1>1. ASSUME NEW c \in Conns, Apply(c) PROVE StoresOne
  <2> DEFINE i == Len(conn[c].results) + 1
             r == conn[c].req.body[i]
  <2>1. /\ conn[c].pc = "process" /\ conn[c] \in ConnStates /\ conn[c].req \in Requests
        /\ Len(conn[c].results) < Len(conn[c].req.body)
        /\ evidence' = IF Judge(r) = "accepted" THEN [evidence EXCEPT ![Identity[r]] = r] ELSE evidence
    BY <1>1 DEF Apply, CollectorInv, CollectorTypeOK, HandlerInv
  <2>2. i \in 1..Len(conn[c].req.body) /\ conn[c].req.body \in Seq(Records)
    <3>1. conn[c].results \in Seq(Outcomes) /\ conn[c].req.body \in Seq(Records)
      BY <2>1 DEF ConnStates, Requests
    <3>2. Len(conn[c].results) \in Nat /\ Len(conn[c].req.body) \in Nat
      BY SMTT(30), <3>1
    <3>3. \A m, n \in Nat : m < n => m + 1 \in 1..n
      OBVIOUS
    <3> QED
      BY <2>1, <3>1, <3>2, <3>3
  <2>3. Judge(r) = "accepted" => evidence[Identity[r]] \in {NoRec, r}
    BY SMTT(30) DEF Judge
  <2> HIDE DEF i
  <2> QED
    BY <2>1, <2>2, <2>3 DEF StoresOne
<1>2. CASE ~\E c \in Conns : Apply(c)
  BY <1>2 DEF CollectorMoves, Server, Handler, Admit, RefuseBody, EnsurePending, PoolBusy, Lock, LoseRow,
              Complete, ProcessorFails, RollBack, Lose, Respond, CollectorCrash, BeginShutdown,
              EndShutdown, CollectorStart, StoresOne
<1> QED
  BY SMTT(30), <1>1, <1>2

---------------------------------------------------------------------------
\* What a step of a producer does to the host.

Captured == {r \in Records : fate[r] = "captured"}

LEMMA OnHostMeans ==
  \A r : r \in OnHost <=> \E s \in Segs : segs[s].life \in OnDisk /\ \E i \in DOMAIN segs[s].recs : segs[s].recs[i] = r
BY DEF OnHost, Range

LEMMA Appended ==
  ASSUME NEW q \in Seq(Records), NEW r \in Records
  PROVE  /\ Len(q) \in Nat /\ DOMAIN q = 1..Len(q)
         /\ Len(Append(q, r)) = Len(q) + 1 /\ DOMAIN Append(q, r) = 1..(Len(q) + 1)
         /\ Append(q, r)[Len(q) + 1] = r
         /\ \A i \in 1..Len(q) : i \in 1..(Len(q) + 1) /\ Append(q, r)[i] = q[i]
<1>1. Append(q, r) \in Seq(Records)
  OBVIOUS
<1>2. DOMAIN Append(q, r) = 1..Len(Append(q, r))
  BY <1>1
<1>3. Len(Append(q, r)) = Len(q) + 1 /\ Len(q) \in Nat /\ DOMAIN q = 1..Len(q)
  OBVIOUS
<1> QED
  BY <1>2, <1>3, AppendProperties

LEMMA WriteRestEffect ==
  ASSUME SpoolInv, NEW p \in Procs, WriteRest(p)
  PROVE  /\ sink[p].seg \in Segs /\ sink[p].rec \in Records /\ fate[sink[p].rec] = "pending"
         /\ fate' = [fate EXCEPT ![sink[p].rec] = "captured"]
         /\ segs[sink[p].seg].life = "open" /\ segs'[sink[p].seg].life = "open"
         /\ segs[sink[p].seg].recs \in Seq(Records)
         /\ segs'[sink[p].seg].recs = Append(segs[sink[p].seg].recs, sink[p].rec)
         /\ \A s \in Segs : s # sink[p].seg => segs'[s] = segs[s]
<1> DEFINE s == sink[p].seg
           r == sink[p].rec
<1>1. /\ SinkIsSound(p) /\ sink[p] \in SinkStates /\ sink[p].pc = "write"
      /\ segs \in [Segs -> FileStates]
  BY DEF SpoolInv, WriteRest
<1>2. s \in Segs /\ segs[s] \in FileStates /\ segs[s].life = "open" /\ r \in Records /\ fate[r] = "pending"
  BY SMTT(30), <1>1 DEF SinkIsSound, OwnsItsFile, SinkStates
<1>3. PICK bytes : segs' = [segs EXCEPT ![s] = [segs[s] EXCEPT !.recs = Append(segs[s].recs, r), !.torn = 0,
                                                              !.bytes = bytes]]
  BY <1>1 DEF WriteRest
<1>4. segs'[s] = [segs[s] EXCEPT !.recs = Append(segs[s].recs, r), !.torn = 0, !.bytes = bytes]
  BY <1>1, <1>2, <1>3
<1>5. segs'[s].life = "open" /\ segs'[s].recs = Append(segs[s].recs, r) /\ segs[s].recs \in Seq(Records)
  BY SMTT(30), <1>2, <1>4 DEF FileStates
<1>6. \A t \in Segs : t # s => segs'[t] = segs[t]
  BY <1>1, <1>3
<1>7. fate' = [fate EXCEPT ![r] = "captured"]
  BY DEF WriteRest
<1> QED
  BY <1>2, <1>5, <1>6, <1>7

LEMMA OnlyWritesCapture ==
  ASSUME SpoolInv, NEW p \in Procs, ProducerWorks(p) \/ ProducerFails(p), ~WriteRest(p)
  PROVE  Captured' = Captured
<1>1. SinkIsSound(p) /\ sink[p] \in SinkStates /\ fate \in [Records -> Fates]
  BY SMTT(30) DEF SpoolInv
<1>2. ASSUME NEW x \in Records PROVE fate'[x] = "captured" <=> fate[x] = "captured"
  <2>1. CASE UNCHANGED fate
    BY <2>1
  <2>2. CASE ProducerCrash(p)
    BY <1>1, <2>2, RecordAssumption DEF ProducerCrash, SinkIsSound
  <2>3. CASE \E r \in Records : BeginAppend(p, r)
    BY <1>1, <2>3 DEF BeginAppend
  <2>4. CASE StatDirectory(p)
    <3>1. fate'[x] = fate[x] \/ (sink[p].rec # NoRec /\ x = sink[p].rec /\ fate'[x] = "refused")
      BY <2>4 DEF StatDirectory
    <3> QED
      BY <1>1, <3>1 DEF SinkIsSound
  <2>5. CASE PlaceFails(p) \/ WriteFail(p)
    <3>1. sink[p].rec # NoRec /\ fate' = [fate EXCEPT ![sink[p].rec] = "failed"]
      BY <1>1, <2>5 DEF PlaceFails, WriteFail, SinkIsSound
    <3> QED
      BY <1>1, <3>1 DEF SinkIsSound
  <2> QED
    BY <2>1, <2>2, <2>3, <2>4, <2>5
       DEF ProducerWorks, ProducerFails, Start, ScanDirectory, PlaceRecord, WriteSome, Close
<1> QED
  BY <1>2 DEF Captured

\* Files that are not in the producer's hands stay as they are.
EndedFilesStay ==
  \A s \in Segs : segs'[s].life \in {"absent", "deleted", "rejected"} =>
     \/ segs'[s].life = segs[s].life /\ segs'[s].recs = segs[s].recs
     \/ segs'[s].life = "deleted" /\ segs'[s].recs = <<>>

LEMMA ProducerEffect ==
  ASSUME SpoolInv, Producer
  PROVE  /\ FilesGrow /\ EndedFilesStay
         /\ \/ OnHost' = OnHost /\ Captured' = Captured
            \/ \E r \in Records : /\ r \notin Captured /\ Captured' = Captured \cup {r}
                                  /\ OnHost' = OnHost \cup {r}
<1>1. PICK p \in Procs : ProducerWorks(p) \/ ProducerFails(p)
  BY DEF Producer
<1>2. SpoolInv' /\ segs \in [Segs -> FileStates] /\ segs' \in [Segs -> FileStates]
  BY ProducerInv DEF SpoolInv
<1>3. CASE WriteRest(p)
  <2>1. PICK s \in Segs, r \in Records :
          /\ s = sink[p].seg /\ r = sink[p].rec /\ fate[r] = "pending"
          /\ fate' = [fate EXCEPT ![r] = "captured"]
          /\ segs[s].life = "open" /\ segs'[s].life = "open"
          /\ segs[s].recs \in Seq(Records) /\ segs'[s].recs = Append(segs[s].recs, r)
          /\ \A t \in Segs : t # s => segs'[t] = segs[t]
    BY SMTT(30), <1>3, WriteRestEffect
  <2>2. /\ Len(segs[s].recs) \in Nat /\ Len(segs'[s].recs) = Len(segs[s].recs) + 1
        /\ segs'[s].recs[Len(segs[s].recs) + 1] = r
        /\ DOMAIN segs'[s].recs = 1..(Len(segs[s].recs) + 1) /\ DOMAIN segs[s].recs = 1..Len(segs[s].recs)
        /\ \A i \in 1..Len(segs[s].recs) :
             i \in 1..(Len(segs[s].recs) + 1) /\ segs'[s].recs[i] = segs[s].recs[i]
    <3>1. PICK q \in Seq(Records) : q = segs[s].recs /\ segs'[s].recs = Append(q, r)
      BY SMTT(30), <2>1
    <3>2. /\ Len(q) \in Nat /\ DOMAIN q = 1..Len(q)
          /\ Len(Append(q, r)) = Len(q) + 1 /\ DOMAIN Append(q, r) = 1..(Len(q) + 1)
          /\ Append(q, r)[Len(q) + 1] = r
          /\ \A i \in 1..Len(q) : i \in 1..(Len(q) + 1) /\ Append(q, r)[i] = q[i]
      BY Appended
    <3> QED
      BY <3>1, <3>2
  <2>3. FilesGrow
    BY <2>1, <2>2 DEF FilesGrow
  <2>4. EndedFilesStay
    BY <2>1 DEF EndedFilesStay
  <2>5. r \notin Captured /\ Captured' = Captured \cup {r}
    BY <2>1 DEF SpoolInv, Captured
  <2>6. OnHost' = OnHost \cup {r}
    <3>1. ASSUME NEW x PROVE x \in OnHost' <=> x \in OnHost \cup {r}
      <4>1. x \in OnHost' <=> \E t \in Segs : /\ segs'[t].life \in OnDisk
                                              /\ \E i \in DOMAIN segs'[t].recs : segs'[t].recs[i] = x
        BY DEF OnHost, Range
      <4>2. ASSUME NEW t \in Segs, t # s
            PROVE  segs'[t].life \in OnDisk /\ (\E i \in DOMAIN segs'[t].recs : segs'[t].recs[i] = x)
                   <=> segs[t].life \in OnDisk /\ (\E i \in DOMAIN segs[t].recs : segs[t].recs[i] = x)
        BY <2>1, <4>2
      <4>3. (\E i \in DOMAIN segs'[s].recs : segs'[s].recs[i] = x)
            <=> (x = r \/ \E i \in DOMAIN segs[s].recs : segs[s].recs[i] = x)
        <5>1. \A i \in 1..(Len(segs[s].recs) + 1) : i = Len(segs[s].recs) + 1 \/ i \in 1..Len(segs[s].recs)
          BY <2>2
        <5>2. Len(segs[s].recs) + 1 \in 1..(Len(segs[s].recs) + 1)
          BY <2>2
        <5> QED
          BY <2>2, <5>1, <5>2
      <4>4. segs[s].life \in OnDisk /\ segs'[s].life \in OnDisk
        BY <2>1 DEF OnDisk
      <4> QED
        BY <4>1, <4>2, <4>3, <4>4, OnHostMeans
    <3> QED
      BY <3>1
  <2> QED
    BY <2>3, <2>4, <2>5, <2>6
<1>4. CASE ~WriteRest(p)
  <2>1. \A s \in Segs : WritesNoRecord(s)
    BY <1>1, <1>4, ProcessWrites
  <2>2. FilesGrow /\ EndedFilesStay
    BY <2>1 DEF FilesGrow, EndedFilesStay, WritesNoRecord
  <2>3. OnHost' = OnHost
    <3>1. ASSUME NEW x PROVE x \in OnHost' <=> x \in OnHost
      <4>1. x \in OnHost' <=> \E t \in Segs : /\ segs'[t].life \in OnDisk
                                              /\ \E i \in DOMAIN segs'[t].recs : segs'[t].recs[i] = x
        BY DEF OnHost, Range
      <4>2. ASSUME NEW t \in Segs
            PROVE  segs'[t].life \in OnDisk /\ (\E i \in DOMAIN segs'[t].recs : segs'[t].recs[i] = x)
                   <=> segs[t].life \in OnDisk /\ (\E i \in DOMAIN segs[t].recs : segs[t].recs[i] = x)
        <5>1. segs'[t].recs = segs[t].recs
          BY <2>1 DEF WritesNoRecord
        <5>2. segs[t].recs = <<>> => DOMAIN segs[t].recs = {}
          OBVIOUS
        <5>3. segs[t].recs = <<>> \/ (segs'[t].life \in OnDisk <=> segs[t].life \in OnDisk)
          BY <2>1 DEF WritesNoRecord, OnDisk
        <5> QED
          BY <5>1, <5>2, <5>3
      <4> QED
        BY <4>1, <4>2, OnHostMeans
    <3> QED
      BY <3>1
  <2> QED
    BY <1>1, <1>4, <2>2, <2>3, OnlyWritesCapture
<1> QED
  BY <1>3, <1>4

---------------------------------------------------------------------------
\* The steps that are not the shipper's.

\* What every step leaves true of the checkpoint and of the ended files.
LEMMA CheckpointStable ==
  ASSUME segs \in [Segs -> FileStates], segs' \in [Segs -> FileStates], FilesGrow, EvidenceKept,
         CheckpointIsSound, UNCHANGED checkpoint
  PROVE  CheckpointIsSound'
<1>1. ASSUME NEW s \in Segs PROVE ProgressIsSound(checkpoint[s], s)'
  <2>1. PICK progress \in Progress : progress = checkpoint[s]
    BY DEF CheckpointIsSound
  <2>2. ProgressIsSound(progress, s)'
    BY <2>1, ProgressStable DEF CheckpointIsSound
  <2> QED
    BY <2>1, <2>2 DEF ProgressIsSound, Sound
<1> QED
  BY <1>1 DEF CheckpointIsSound

LEMMA EndedStable ==
  ASSUME segs \in [Segs -> FileStates], EndedFilesStay, EvidenceKept, AbsentIsEmpty,
         DeletedIsStored, QuarantineJustified
  PROVE  AbsentIsEmpty' /\ DeletedIsStored' /\ QuarantineJustified'
<1>1. ASSUME NEW s \in Segs, NEW i \in DOMAIN segs[s].recs
      PROVE  /\ Stored(segs[s].recs[i]) => evidence'[Identity[segs[s].recs[i]]] = segs[s].recs[i]
             /\ Judged(segs[s].recs[i]) =>
                  \/ evidence'[Identity[segs[s].recs[i]]] = segs[s].recs[i]
                  \/ segs[s].recs[i] \in Malformed \cup Unsupported
                  \/ evidence'[Identity[segs[s].recs[i]]] \notin {NoRec, segs[s].recs[i]}
             /\ Refusable(segs[s].recs[i]) =>
                  \/ segs[s].recs[i] \in Malformed \cup Unsupported
                  \/ evidence'[Identity[segs[s].recs[i]]] \notin {NoRec, segs[s].recs[i]}
  <2>1. PICK r \in Records : r = segs[s].recs[i]
    BY DEF FileStates
  <2>2. /\ Stored(r) => Stored(r)'
        /\ Refusable(r) => Refusable(r)'
        /\ Judged(r) => Judged(r)'
    BY EvidenceStable
  <2> QED
    BY <2>1, <2>2 DEF Stored, Refusable, Judged
<1>2. ASSUME NEW s \in Segs, segs'[s].life = "deleted", NEW i \in DOMAIN segs'[s].recs
      PROVE  evidence'[Identity[segs'[s].recs[i]]] = segs'[s].recs[i]
  <2>1. segs'[s].recs # <<>>
    BY <1>2
  <2>2. segs[s].life = "deleted" /\ segs'[s].recs = segs[s].recs
    BY <1>2, <2>1 DEF EndedFilesStay
  <2> QED
    BY <1>1, <1>2, <2>2 DEF DeletedIsStored
<1>3. DeletedIsStored'
  BY <1>2 DEF DeletedIsStored, Stored
<1>4. ASSUME NEW s \in Segs, segs'[s].life = "rejected"
      PROVE  segs[s].life = "rejected" /\ segs'[s].recs = segs[s].recs
  BY <1>4 DEF EndedFilesStay
<1>5. QuarantineJustified'
  BY <1>1, <1>4 DEF QuarantineJustified, Judged, Refusable, Stored
<1>6. AbsentIsEmpty'
  BY DEF AbsentIsEmpty, EndedFilesStay
<1> QED
  BY <1>3, <1>5, <1>6

LEMMA ProducerStepInv == ASSUME DeliveryInv, ProducerStep PROVE DeliveryInv'
<1>1. /\ SpoolInv' /\ segs \in [Segs -> FileStates] /\ segs' \in [Segs -> FileStates]
      /\ FilesGrow /\ EndedFilesStay /\ OnHost \subseteq OnHost'
  BY ProducerInv, ProducerEffect DEF DeliveryInv, ProducerStep, SpoolInv
<1>2. UNCHANGED collectorVars /\ EvidenceKept /\ UNCHANGED <<ship, checkpoint>>
  BY DEF ProducerStep, collectorVars, EvidenceKept
<1>3. CollectorInv'
  BY <1>2, CollectorStepInv DEF DeliveryInv
<1>4. ShipIsSound(ship)'
  <2>1. PICK h : h = ship
    OBVIOUS
  <2>2. h.pc = "wait" => Awaits(h.conn, h.chunk)'
    BY <1>2, <2>1 DEF DeliveryInv, ShipIsSound, Awaits, collectorVars
  <2>3. ShipIsSound(h)'
    BY <1>1, <1>2, <2>1, <2>2, ShipStable DEF DeliveryInv
  <2> QED
    BY <1>2, <2>1, <2>3
<1>5. CheckpointIsSound' /\ AbsentIsEmpty' /\ DeletedIsStored' /\ QuarantineJustified'
  BY <1>1, <1>2, CheckpointStable, EndedStable DEF DeliveryInv
<1>6. BatchesAreHome'
  BY <1>1, <1>2 DEF DeliveryInv, BatchesAreHome, collectorVars, Stored
<1> QED
  BY <1>1, <1>3, <1>4, <1>5, <1>6 DEF DeliveryInv

\* What holds after any step of the collector or of its clients.
LEMMA CollectorSideStable ==
  ASSUME DeliveryInv, [CollectorNext]_collectorVars, UNCHANGED spoolVars
  PROVE  /\ SpoolInv' /\ CollectorInv' /\ EvidenceKept
         /\ segs \in [Segs -> FileStates] /\ segs' \in [Segs -> FileStates] /\ FilesGrow
         /\ UNCHANGED OnHost /\ AbsentIsEmpty' /\ DeletedIsStored' /\ QuarantineJustified'
<1>1. SpoolInv' /\ CollectorInv'
  BY SpoolStepInv, CollectorStepInv DEF DeliveryInv
<1>2. EvidenceKept
  BY StepKeeps DEF DeliveryInv, Keeps, EvidenceKept
<1>3. FilesGrow /\ EndedFilesStay /\ UNCHANGED OnHost
  BY DEF spoolVars, FilesGrow, EndedFilesStay, OnHost
<1>4. segs \in [Segs -> FileStates] /\ segs' \in [Segs -> FileStates]
  BY <1>1 DEF DeliveryInv, SpoolInv
<1> QED
  BY <1>1, <1>2, <1>3, <1>4, EndedStable DEF DeliveryInv

LEMMA BatchesStable ==
  ASSUME DeliveryInv, CollectorInv', EvidenceKept, \A r \in Records : r \in OnHost => r \in OnHost' \/ Stored(r)',
         \A c \in Conns : KeepsRequest(c)
  PROVE  BatchesAreHome'
<1> SUFFICES ASSUME NEW c \in Conns, conn'[c].pc # "idle", NEW i \in 1..Len(conn'[c].req.body)
             PROVE  conn'[c].req.body[i] \in OnHost' \/ Stored(conn[c].req.body[i])'
  BY DEF BatchesAreHome
<1>1. conn'[c].req = conn[c].req /\ conn[c].pc # "idle"
  BY DEF KeepsRequest, Quiet
<1>2. conn[c].req \in Requests
  BY <1>1 DEF DeliveryInv, CollectorInv, CollectorTypeOK
<1>3. PICK r \in Records : r = conn[c].req.body[i]
  BY <1>1, <1>2 DEF Requests
<1>4. r \in OnHost \/ Stored(r)
  BY <1>1, <1>3 DEF DeliveryInv, BatchesAreHome
<1>5. r \in OnHost' \/ Stored(r)'
  BY <1>4, EvidenceStable
<1> QED
  BY <1>1, <1>3, <1>5 DEF Stored

LEMMA CollectorStepSafe == ASSUME DeliveryInv, CollectorStep PROVE DeliveryInv'
<1>1. CollectorMoves /\ UNCHANGED spoolVars /\ UNCHANGED <<ship, checkpoint>>
  BY DEF CollectorStep, CollectorMoves, spoolVars
<1>2. CollectorNext
  BY <1>1 DEF CollectorMoves, CollectorNext
<1>3. /\ SpoolInv' /\ CollectorInv' /\ EvidenceKept
      /\ segs \in [Segs -> FileStates] /\ segs' \in [Segs -> FileStates] /\ FilesGrow
      /\ UNCHANGED OnHost /\ AbsentIsEmpty' /\ DeletedIsStored' /\ QuarantineJustified'
  BY <1>1, <1>2, CollectorSideStable
<1>4. \A c \in Conns : KeepsRequest(c)
  BY <1>1, RequestsStay DEF DeliveryInv
<1>5. ShipIsSound(ship)'
  <2>1. PICK h : h = ship
    OBVIOUS
  <2>2. ASSUME h.pc = "wait" PROVE Awaits(h.conn, h.chunk)'
    <3>1. Awaits(h.conn, h.chunk)
      BY <2>1, <2>2 DEF DeliveryInv, ShipIsSound
    <3>2. KeepsRequest(h.conn) /\ Quiet.pc = "idle"
      BY <1>4, <3>1 DEF Awaits, Quiet
    <3>3. CASE conn'[h.conn] \in {conn[h.conn], Quiet}
      BY <3>1, <3>3 DEF Awaits
    <3>4. CASE conn[h.conn].pc # "idle" /\ conn'[h.conn].pc # "idle" /\ conn'[h.conn].req = conn[h.conn].req
      BY <3>1, <3>2, <3>4 DEF Awaits
    <3> QED
      BY <3>2, <3>3, <3>4 DEF KeepsRequest
  <2>3. ShipIsSound(h)'
    BY <1>3, <2>1, <2>2, ShipStable DEF DeliveryInv
  <2> QED
    BY <1>1, <2>1, <2>3
<1>6. CheckpointIsSound'
  BY <1>1, <1>3, CheckpointStable DEF DeliveryInv
<1>7. BatchesAreHome'
  BY <1>3, <1>4, BatchesStable
<1> QED
  BY <1>3, <1>5, <1>6, <1>7 DEF DeliveryInv

---------------------------------------------------------------------------
\* The states of the shipper.

LEMMA NoProgressIsSound ==
  ASSUME DeliveryInv, NEW s \in Segs
  PROVE  NoProgress \in Progress /\ ProgressIsSound(NoProgress, s)
<1>1. NoProgress \in Progress /\ NoProgress.off = 0 /\ NoProgress.rej = FALSE
  BY DEF NoProgress, Progress
<1>2. Len(segs[s].recs) \in Nat
  BY DEF DeliveryInv, SpoolInv, FileStates
<1> QED
  BY <1>1, <1>2 DEF ProgressIsSound, Sound

\* A daemon that is down, or between two cycles.
LEMMA RestIsSound ==
  ASSUME DeliveryInv, NEW h, h \in ShipStates, h.pc \in {"down", "idle"}, h.mem = NoShip.mem
  PROVE  ShipIsSound(h)
<1>1. NoShip.mem = [s \in Segs |-> NoProgress]
  BY DEF NoShip
<1> QED
  BY <1>1, NoProgressIsSound DEF ShipIsSound

LEMMA NoShipIsSound ==
  ASSUME DeliveryInv
  PROVE  ShipIsSound(NoShip) /\ ShipIsSound([NoShip EXCEPT !.pc = "idle"])
<1>1. /\ [s \in Segs |-> NoProgress] \in [Segs -> Progress] /\ <<>> \in Seq(Records)
      /\ 0 \in 0..MaxBatches /\ 0 \in 0..MaxAttempts-1
  BY NoProgressIsSound, ShipperAssumption
<1>2. /\ NoShip \in ShipStates /\ NoShip.pc = "down"
  BY <1>1 DEF NoShip, ShipStates
<1> DEFINE h == [NoShip EXCEPT !.pc = "idle"]
<1>3. h \in ShipStates /\ h.pc = "idle" /\ h.mem = NoShip.mem
  BY <1>2 DEF ShipStates
<1> HIDE DEF h
<1>4. ShipIsSound(NoShip) /\ ShipIsSound(h)
  BY <1>2, <1>3, RestIsSound
<1> QED
  BY <1>4 DEF h

LEMMA AtRestIsSound == ASSUME DeliveryInv PROVE ShipIsSound(AtRest)
<1>1. /\ ship \in ShipStates /\ NoShip.mem \in [Segs -> Progress] /\ <<>> \in Seq(Records)
      /\ 0 \in 0..MaxBatches /\ 0 \in 0..MaxAttempts-1
  BY NoProgressIsSound, ShipperAssumption DEF DeliveryInv, ShipIsSound, NoShip
<1> DEFINE mem == NoShip.mem
<1> HIDE DEF mem
<1>2. AtRest = [ship EXCEPT !.pc = "idle", !.mem = mem, !.todo = {}, !.path = NoPath,
                            !.batches = 0, !.chunk = <<>>, !.tries = 0, !.conn = NoConn]
  BY DEF AtRest, mem
<1>3. AtRest \in ShipStates /\ AtRest.pc = "idle" /\ AtRest.mem = mem
  BY <1>1, <1>2 DEF ShipStates, mem
<1> QED
  BY <1>3, RestIsSound DEF mem

\* A step that only moves the shipper along, with what it counted.
LEMMA ShipMoves ==
  ASSUME ShipIsSound(ship), NEW h, h \in ShipStates, h.mem = ship.mem,
         h.pc \in {"scan", "next"} \/ h.path[1] \in Segs,
         h.pc \notin {"send", "wait"}
  PROVE  ShipIsSound(h)
BY DEF ShipIsSound, ShipStates

LEMMA RetryIsSound ==
  ASSUME DeliveryInv, ship.pc \in {"send", "wait"}, RetryOrGiveUp
  PROVE  ShipIsSound(ship') /\ ship'.pc # "wait" /\ checkpoint' \in {checkpoint, ship.mem}
<1>1. ship \in ShipStates /\ ShipIsSound(ship)
  BY DEF DeliveryInv, ShipIsSound
<1>2. CASE ship.tries + 1 < MaxAttempts /\ ~ship.stop
  <2> DEFINE h == [ship EXCEPT !.pc = "send", !.tries = ship.tries + 1, !.conn = NoConn]
  <2>1. ship' = h /\ UNCHANGED checkpoint
    BY <1>2 DEF RetryOrGiveUp
  <2>2. ship.tries + 1 \in 0..MaxAttempts-1
    BY <1>1, <1>2, ShipperAssumption DEF ShipStates
  <2>3. /\ h \in ShipStates /\ h.pc = "send" /\ h.mem = ship.mem /\ h.path = ship.path
        /\ h.batches = ship.batches /\ h.chunk = ship.chunk
    BY <1>1, <2>2 DEF ShipStates
  <2> HIDE DEF h
  <2>4. ShipIsSound(h)
    BY <1>1, <2>3 DEF ShipIsSound
  <2> QED
    BY <2>1, <2>3, <2>4
<1>3. CASE ~(ship.tries + 1 < MaxAttempts /\ ~ship.stop)
  <2>1. AtRest.pc = "idle"
    BY <1>1 DEF AtRest, ShipStates
  <2> QED
    BY <1>3, <2>1, AtRestIsSound DEF RetryOrGiveUp
<1> QED
  BY <1>2, <1>3

LEMMA ReadChunkIsSound ==
  ASSUME DeliveryInv, ReadChunk
  PROVE  ShipIsSound(ship')
<1> DEFINE s == ship.path[1]
           off == ship.mem[s].off
           chunk == Chunk(s, off)
<1>1. ship \in ShipStates /\ ShipIsSound(ship) /\ ship.pc = "read" /\ s \in Segs
  BY DEF DeliveryInv, ShipIsSound, ReadChunk
<1>2. CASE ship.batches < MaxBatches /\ ~ship.stop /\ chunk # <<>>
  <2> DEFINE h == [ship EXCEPT !.pc = "send", !.chunk = chunk, !.tries = 0]
             recs == segs[s].recs
             last == IF Len(recs) - off < MaxBatchRecords THEN Len(recs) ELSE off + MaxBatchRecords
  <2>1. ship' = h
    BY <1>2 DEF ReadChunk
  <2>2. recs \in Seq(Records) /\ off \in Nat /\ off <= Len(recs) /\ Len(recs) \in Nat
    BY <1>1 DEF DeliveryInv, SpoolInv, FileStates, ShipIsSound, ShipStates, Progress, ProgressIsSound, Sound
  <2>3. last \in Nat /\ off <= last /\ last <= Len(recs)
    BY <2>2, CollectorAssumption
  <2>4. chunk = SubSeq(recs, off + 1, last)
    BY DEF Chunk
  <2> HIDE DEF chunk, last, off, recs
  <2>5. /\ chunk \in Seq(Records) /\ Len(chunk) = last - off
        /\ \A i \in 1..(last - off) : chunk[i] = recs[off + i]
    <3>1. CASE off = last
      <4>1. chunk = <<>>
        BY <2>2, <2>3, <2>4, <3>1, SubSeqProperties
      <4> QED
        BY <1>2, <4>1
    <3>2. CASE off < last
      <4>1. \A i \in off + 1..last : i \in 1..Len(recs)
        BY <2>2, <2>3
      <4>2. /\ chunk \in Seq(Records) /\ Len(chunk) = last - (off + 1) + 1
            /\ \A i \in 1..last - (off + 1) + 1 : chunk[i] = recs[off + 1 + i - 1]
        BY <2>2, <2>3, <2>4, <3>2, <4>1, SubSeqProperties
      <4>3. last - (off + 1) + 1 = last - off /\ \A i \in 1..(last - off) : off + 1 + i - 1 = off + i
        BY SMTT(30), <2>2, <2>3
      <4> QED
        BY <4>2, <4>3
    <3> QED
      BY <2>2, <2>3, <3>1, <3>2
  <2>6. IsChunk(chunk, ship.mem[s], s)
    <3>1. off + Len(chunk) <= Len(recs) /\ \A i \in 1..Len(chunk) : chunk[i] = recs[off + i]
      BY <2>2, <2>3, <2>5
    <3> QED
      BY <3>1 DEF IsChunk, off, recs
  <2>7. 0 \in 0..MaxAttempts-1
    BY ShipperAssumption
  <2>8. /\ h \in ShipStates /\ h.pc = "send" /\ h.mem = ship.mem /\ h.path = ship.path
        /\ h.batches = ship.batches /\ h.chunk = chunk
    BY <1>1, <2>5, <2>7 DEF ShipStates
  <2> HIDE DEF h
  <2>9. ShipIsSound(h)
    BY <1>1, <1>2, <2>6, <2>8 DEF ShipIsSound
  <2> QED
    BY <2>1, <2>9
<1>3. CASE ~(ship.batches < MaxBatches /\ ~ship.stop /\ chunk # <<>>)
  <2> DEFINE h == [ship EXCEPT !.pc = "finish"]
  <2>1. ship' = h
    BY <1>3 DEF ReadChunk
  <2>2. h \in ShipStates /\ h.pc = "finish" /\ h.mem = ship.mem /\ h.path = ship.path
    BY <1>1 DEF ShipStates
  <2> QED
    BY <1>1, <2>1, <2>2, ShipMoves
<1> QED
  BY <1>2, <1>3

\* The steps that touch nothing but the shipper.
LEMMA ShipperAloneIsSound ==
  ASSUME DeliveryInv, ShipperAlone
  PROVE  ShipIsSound(ship') /\ checkpoint' \in {checkpoint, ship.mem}
<1>1. ship \in ShipStates /\ ShipIsSound(ship) /\ CheckpointIsSound
  BY DEF DeliveryInv, ShipIsSound
<1>2. CASE Launch \/ Exit \/ EndCycle \/ SpoolIoError \/ ShipperCrash
  BY <1>2, NoShipIsSound, AtRestIsSound DEF Launch, Exit, EndCycle, SpoolIoError, ShipperCrash
<1>3. CASE RequestStop
  <2> DEFINE h == [ship EXCEPT !.stop = TRUE]
  <2>1. ship' = h /\ UNCHANGED checkpoint
    BY <1>3 DEF RequestStop
  <2>2. /\ h \in ShipStates /\ h.pc = ship.pc /\ h.mem = ship.mem /\ h.path = ship.path
        /\ h.batches = ship.batches /\ h.chunk = ship.chunk /\ h.conn = ship.conn
    BY <1>1 DEF ShipStates
  <2> HIDE DEF h
  <2>3. ShipIsSound(h)
    BY <1>1, <2>2 DEF ShipIsSound
  <2> QED
    BY <2>1, <2>3
<1>4. CASE StartCycle
  <2> DEFINE h == [ship EXCEPT !.pc = "scan", !.mem = checkpoint, !.todo = Listing]
  <2>1. ship' = h /\ UNCHANGED checkpoint /\ checkpoint \in [Segs -> Progress] /\ Listing \in SUBSET (Segs \X OnDisk)
    BY <1>1, <1>4 DEF StartCycle, CheckpointIsSound, Listing, Path
  <2>2. h \in ShipStates /\ h.pc = "scan" /\ h.mem = checkpoint
    BY <1>1, <2>1 DEF ShipStates
  <2> HIDE DEF h
  <2>3. ShipIsSound(h)
    BY <1>1, <2>2 DEF ShipIsSound, CheckpointIsSound
  <2> QED
    BY <2>1, <2>3
<1>5. CASE ScanPaths
  <2> DEFINE visible == {path \in ship.todo \cap Listing : path[2] # "rejected"}
             mem == [s \in Segs |-> IF \E path \in visible : path[1] = s THEN ship.mem[s] ELSE NoProgress]
             h == [ship EXCEPT !.pc = "next", !.todo = visible, !.mem = mem]
  <2>1. ship' \in {NoShip, h} /\ UNCHANGED checkpoint
    BY <1>5 DEF ScanPaths
  <2>2. visible \in SUBSET (Segs \X OnDisk) /\ ship.mem \in [Segs -> Progress]
    BY <1>1 DEF ShipStates
  <2>3. mem \in [Segs -> Progress] /\ \A s \in Segs : ProgressIsSound(mem[s], s)
    BY <1>1, <2>2, NoProgressIsSound DEF ShipIsSound
  <2> HIDE DEF visible, mem
  <2>4. h \in ShipStates /\ h.pc = "next" /\ h.mem = mem
    BY <1>1, <2>2, <2>3 DEF ShipStates
  <2> HIDE DEF h
  <2>5. ShipIsSound(h)
    BY <2>3, <2>4 DEF ShipIsSound
  <2> QED
    BY <2>1, <2>5, NoShipIsSound
<1>6. CASE OpenPath
  <2>1. PICK path : path = First(ship.todo)
    OBVIOUS
  <2>2. CASE path \in Listing
    <3> DEFINE h == [ship EXCEPT !.pc = "read", !.path = path, !.todo = ship.todo \ {path}]
    <3>1. ship' = h /\ UNCHANGED checkpoint
      BY <1>6, <2>1, <2>2 DEF OpenPath
    <3>2. path \in Segs \X OnDisk /\ path[1] \in Segs
      BY <2>2 DEF Listing, Path
    <3>3. h \in ShipStates /\ h.pc = "read" /\ h.mem = ship.mem /\ h.path = path
      BY <1>1, <3>2 DEF ShipStates
    <3> HIDE DEF h
    <3> QED
      BY <1>1, <3>1, <3>2, <3>3, ShipMoves
  <2>3. CASE path \notin Listing
    BY <1>6, <2>1, <2>3, AtRestIsSound DEF OpenPath
  <2> QED
    BY <2>2, <2>3
<1>7. CASE ReadChunk
  BY <1>7, ReadChunkIsSound DEF ReadChunk
<1>8. CASE SendFails \/ ConnectionBroken \/ RequestTimeout
  BY <1>8, RetryIsSound DEF SendFails, ConnectionBroken, RequestTimeout
<1>9. CASE SaveAck
  <2> DEFINE h == [ship EXCEPT !.pc = "read"]
  <2>1. ship' = h /\ checkpoint' = ship.mem /\ ship.path[1] \in Segs
    BY <1>1, <1>9 DEF SaveAck, ShipIsSound
  <2>2. h \in ShipStates /\ h.pc = "read" /\ h.mem = ship.mem /\ h.path = ship.path
    BY <1>1 DEF ShipStates
  <2> HIDE DEF h
  <2> QED
    BY <1>1, <2>1, <2>2, ShipMoves
<1>10. CASE SaveDisposal \/ KeepSegment
  <2> DEFINE h == [ship EXCEPT !.pc = "next", !.path = NoPath]
  <2>1. ship' = h /\ checkpoint' \in {checkpoint, ship.mem}
    BY <1>10 DEF SaveDisposal, KeepSegment
  <2>2. h \in ShipStates /\ h.pc = "next" /\ h.mem = ship.mem
    BY <1>1 DEF ShipStates
  <2> HIDE DEF h
  <2> QED
    BY <1>1, <2>1, <2>2, ShipMoves
<1> QED
  BY <1>2, <1>3, <1>4, <1>5, <1>6, <1>7, <1>8, <1>9, <1>10 DEF ShipperAlone

LEMMA ShipperAloneInv == ASSUME DeliveryInv, ShipperAlone PROVE DeliveryInv'
<1>1. UNCHANGED spoolVars /\ UNCHANGED collectorVars /\ UNCHANGED OnHost
  BY DEF ShipperAlone, spoolVars, collectorVars, OnHost
<1>2. /\ SpoolInv' /\ CollectorInv' /\ AbsentIsEmpty' /\ DeletedIsStored' /\ QuarantineJustified'
  BY <1>1, CollectorSideStable
<1>3. ShipIsSound(ship') /\ checkpoint' \in {checkpoint, ship.mem}
  BY SMTT(30), ShipperAloneIsSound
<1>4. ShipIsSound(ship)'
  BY <1>1, <1>3 DEF ShipIsSound, ProgressIsSound, IsChunk, Awaits, Sound, Judged, Stored, Refusable,
                    spoolVars, collectorVars
<1>5. /\ checkpoint' \in [Segs -> Progress]
      /\ \A s \in Segs : ProgressIsSound(checkpoint'[s], s)
  BY <1>3 DEF DeliveryInv, CheckpointIsSound, ShipIsSound, ShipStates
<1>6. CheckpointIsSound'
  BY <1>1, <1>5 DEF CheckpointIsSound, ProgressIsSound, Sound, Judged, Stored, Refusable,
                    spoolVars, collectorVars
<1>7. BatchesAreHome'
  BY <1>1 DEF DeliveryInv, BatchesAreHome, Stored, collectorVars
<1> QED
  BY <1>2, <1>4, <1>6, <1>7 DEF DeliveryInv

---------------------------------------------------------------------------
\* The steps that exchange a batch with the collector.

\* Saving what was loaded or counted keeps the checkpoint sound.
LEMMA CheckpointMoves ==
  ASSUME DeliveryInv, segs' \in [Segs -> FileStates], FilesGrow, EvidenceKept,
         checkpoint' \in {checkpoint, ship.mem}
  PROVE  CheckpointIsSound'
<1>1. segs \in [Segs -> FileStates]
  BY DEF DeliveryInv, SpoolInv
<1>2. /\ checkpoint' \in [Segs -> Progress]
      /\ \A s \in Segs : ProgressIsSound(checkpoint'[s], s)
  BY DEF DeliveryInv, CheckpointIsSound, ShipIsSound, ShipStates
<1>3. ASSUME NEW s \in Segs PROVE ProgressIsSound(checkpoint[s], s)'
  <2>1. PICK progress \in Progress : progress = checkpoint'[s]
    BY <1>2
  <2>2. ProgressIsSound(progress, s)'
    BY <1>1, <1>2, <2>1, ProgressStable
  <2> QED
    BY <2>1, <2>2 DEF ProgressIsSound, Sound
<1> QED
  BY <1>2, <1>3 DEF CheckpointIsSound

\* A batch is read from a file, which is on the host or was removed with all of it stored.
LEMMA ChunkIsHome ==
  ASSUME DeliveryInv, NEW s \in Segs, NEW progress \in Progress, NEW chunk \in Seq(Records),
         IsChunk(chunk, progress, s), NEW i \in 1..Len(chunk)
  PROVE  chunk[i] \in OnHost \/ Stored(chunk[i])
<1>1. segs[s].recs \in Seq(Records) /\ segs[s].life \in Lives
  BY DEF DeliveryInv, SpoolInv, FileStates
<1>2. /\ progress.off \in Nat /\ Len(chunk) \in Nat /\ Len(segs[s].recs) \in Nat
      /\ progress.off + Len(chunk) <= Len(segs[s].recs)
  BY <1>1 DEF Progress, IsChunk
<1>3. progress.off + i \in 1..Len(segs[s].recs)
  BY SMTT(30), <1>2
<1>4. PICK j \in DOMAIN segs[s].recs : chunk[i] = segs[s].recs[j]
  BY <1>1, <1>3 DEF IsChunk
<1>5. segs[s].life # "absent"
  BY <1>4 DEF DeliveryInv, AbsentIsEmpty
<1>6. CASE segs[s].life \in OnDisk
  BY <1>4, <1>6, OnHostMeans
<1>7. CASE segs[s].life = "deleted"
  BY <1>4, <1>7 DEF DeliveryInv, DeletedIsStored
<1> QED
  BY <1>1, <1>5, <1>6, <1>7 DEF Lives

LEMMA SendBatchInv ==
  ASSUME DeliveryInv, NEW c \in Conns, SendBatch(c), UNCHANGED spoolVars
  PROVE  DeliveryInv'
<1>0. PICK h : h = [ship EXCEPT !.pc = "wait", !.conn = c]
  OBVIOUS
<1>1. ShipIsSound(ship) /\ ship \in ShipStates /\ ship.pc = "send" /\ ship.path[1] \in Segs
  BY DEF DeliveryInv, ShipIsSound, SendBatch
<1>2. /\ CollectorNext /\ conn[c] = Quiet /\ UNCHANGED evidence /\ BatchRequest \in Requests
      /\ conn' = [conn EXCEPT ![c].pc = "sent", ![c].req = BatchRequest]
      /\ ship' = h /\ checkpoint' = checkpoint
  BY <1>0 DEF SendBatch, Arrive, CollectorNext
<1>3. /\ SpoolInv' /\ CollectorInv' /\ EvidenceKept
      /\ segs \in [Segs -> FileStates] /\ segs' \in [Segs -> FileStates] /\ FilesGrow
      /\ UNCHANGED OnHost /\ AbsentIsEmpty' /\ DeletedIsStored' /\ QuarantineJustified'
  BY <1>2, CollectorSideStable
<1>4. /\ conn'[c].pc = "sent" /\ conn'[c].req.body = ship.chunk
      /\ \A d \in Conns : d # c => conn'[d] = conn[d]
  <2>1. conn \in [Conns -> ConnStates]
    BY DEF DeliveryInv, CollectorInv, CollectorTypeOK
  <2>2. conn'[c].pc = "sent" /\ conn'[c].req = BatchRequest
    BY <1>2, <2>1 DEF ConnStates
  <2> QED
    BY <1>2, <2>1, <2>2 DEF BatchRequest
<1>5. /\ h \in ShipStates /\ h.pc = "wait" /\ h.mem = ship.mem /\ h.path = ship.path
      /\ h.batches = ship.batches /\ h.chunk = ship.chunk /\ h.conn = c
  BY <1>0, <1>1 DEF ShipStates
<1>6. ShipIsSound(h)
  BY <1>1, <1>2, <1>5 DEF ShipIsSound, Awaits
<1>7. Awaits(h.conn, h.chunk)'
  BY <1>4, <1>5 DEF Awaits
<1>8. ShipIsSound(h)'
  BY <1>3, <1>6, <1>7, ShipStable
<1>9. CheckpointIsSound'
  BY <1>2, <1>3, CheckpointMoves
<1>10. BatchesAreHome'
  <2>1. ASSUME NEW i \in 1..Len(ship.chunk) PROVE ship.chunk[i] \in OnHost \/ Stored(ship.chunk[i])
    <3>1. ship.mem[ship.path[1]] \in Progress /\ ship.chunk \in Seq(Records)
      BY <1>1 DEF ShipStates
    <3>2. IsChunk(ship.chunk, ship.mem[ship.path[1]], ship.path[1])
      BY <1>1 DEF ShipIsSound
    <3> QED
      BY <1>1, <2>1, <3>1, <3>2, ChunkIsHome
  <2>2. \A d \in Conns : d # c /\ conn[d].pc # "idle" =>
          \A i \in 1..Len(conn[d].req.body) : conn[d].req.body[i] \in OnHost \/ Stored(conn[d].req.body[i])
    BY DEF DeliveryInv, BatchesAreHome
  <2> SUFFICES ASSUME NEW d \in Conns, conn'[d].pc # "idle", NEW i \in 1..Len(conn'[d].req.body)
               PROVE  conn'[d].req.body[i] \in OnHost \/ evidence[Identity[conn'[d].req.body[i]]] = conn'[d].req.body[i]
    BY ZenonT(40), <1>2, <1>3 DEF BatchesAreHome, Stored
  <2>3. CASE d = c
    BY <1>4, <2>1, <2>3 DEF Stored
  <2>4. CASE d # c
    <3>1. conn'[d] = conn[d]
      BY <1>4, <2>4
    <3> QED
      BY <2>2, <2>4, <3>1 DEF Stored
  <2> QED
    BY <2>3, <2>4
<1> QED
  BY <1>2, <1>3, <1>8, <1>9, <1>10 DEF DeliveryInv

\* The shipper takes the answer it waited for, and waits no more.
LEMMA AnswerInv ==
  ASSUME DeliveryInv, ship.conn \in Conns, Respond(ship.conn), UNCHANGED spoolVars,
         ShipIsSound(ship'), ship'.pc # "wait", checkpoint' \in {checkpoint, ship.mem}
  PROVE  DeliveryInv'
<1>1. CollectorNext /\ CollectorMoves
  BY DEF CollectorNext, CollectorMoves
<1>2. /\ SpoolInv' /\ CollectorInv' /\ EvidenceKept
      /\ segs \in [Segs -> FileStates] /\ segs' \in [Segs -> FileStates] /\ FilesGrow
      /\ UNCHANGED OnHost /\ AbsentIsEmpty' /\ DeletedIsStored' /\ QuarantineJustified'
  BY <1>1, CollectorSideStable
<1>3. ShipIsSound(ship)'
  <2>1. PICK h : h = ship'
    OBVIOUS
  <2>2. ShipIsSound(h)'
    BY <1>2, <2>1, ShipStable
  <2> QED
    BY <2>1, <2>2
<1>4. CheckpointIsSound'
  BY <1>2, CheckpointMoves
<1>5. BatchesAreHome'
  <2>1. \A c \in Conns : KeepsRequest(c)
    BY <1>1, RequestsStay DEF DeliveryInv
  <2> QED
    BY <1>2, <2>1, BatchesStable
<1> QED
  BY <1>2, <1>3, <1>4, <1>5 DEF DeliveryInv

LEMMA ReceiveRefusalInv ==
  ASSUME DeliveryInv, ReceiveRefusal, UNCHANGED spoolVars
  PROVE  DeliveryInv'
<1>1. ship.pc = "wait" /\ ship.conn \in Conns /\ Respond(ship.conn)
  BY DEF ReceiveRefusal, DeliveryInv, ShipIsSound, Awaits
<1>2. CASE RetryOrGiveUp
  <2>1. ShipIsSound(ship') /\ ship'.pc # "wait" /\ checkpoint' \in {checkpoint, ship.mem}
    BY <1>1, <1>2, RetryIsSound
  <2> QED
    BY <1>1, <2>1, AnswerInv
<1>3. CASE ship' = NoShip /\ checkpoint' = ship.mem
  <2>1. ShipIsSound(ship') /\ ship'.pc # "wait" /\ checkpoint' \in {checkpoint, ship.mem}
    BY <1>3, NoShipIsSound DEF NoShip
  <2> QED
    BY <1>1, <2>1, AnswerInv
<1> QED
  BY <1>2, <1>3 DEF ReceiveRefusal

\* What an acknowledgement says of the batch is right, record by record.
LEMMA AckIsJustified ==
  ASSUME CollectorInv, NEW c \in Conns, conn[c].answer = "ack"
  PROVE  /\ conn[c].results \in Seq(Outcomes)
         /\ \A i \in 1..Len(conn[c].results) : Justified(conn[c].results[i], conn[c].req.body[i])
<1>1. conn[c] \in ConnStates
  BY DEF CollectorInv, CollectorTypeOK
<1>2. PICK b \in DOMAIN receipts : /\ receipts[b].body = conn[c].req.body
                                   /\ receipts[b].response = conn[c].results
  BY InvAckIsReceipt DEF AckIsReceipt
<1>3. conn[c].results \in Seq(Outcomes)
  BY <1>1 DEF ConnStates
<1> QED
  BY <1>2, <1>3, ResponseJustified

\* The progress after an acknowledged batch.
LEMMA AckedIsSound ==
  ASSUME DeliveryInv, NEW s \in Segs, NEW old \in Progress, ProgressIsSound(old, s),
         NEW chunk \in Seq(Records), IsChunk(chunk, old, s),
         NEW results \in Seq(Outcomes), Len(results) = Len(chunk),
         \A i \in 1..Len(results) : Justified(results[i], chunk[i]),
         NEW new \in Progress, new.off = old.off + Len(chunk),
         new.rej <=> old.rej \/ \E i \in DOMAIN results : results[i] # "accepted"
  PROVE  ProgressIsSound(new, s)
<1>1. /\ old.off \in Nat /\ old.rej \in BOOLEAN /\ Len(chunk) \in Nat
      /\ segs[s].recs \in Seq(Records) /\ Len(segs[s].recs) \in Nat
      /\ DOMAIN results = 1..Len(chunk)
  BY DEF Progress, DeliveryInv, SpoolInv, FileStates
<1>2. new.off = old.off + Len(chunk) /\ new.off \in Nat
  BY DEF Progress
<1>3. new.off <= Len(segs[s].recs)
  BY <1>1, <1>2 DEF IsChunk
<1>4. ASSUME NEW i \in 1..Len(chunk)
      PROVE  /\ Judged(segs[s].recs[old.off + i])
             /\ results[i] = "accepted" => Stored(segs[s].recs[old.off + i])
             /\ results[i] # "accepted" => Refusable(segs[s].recs[old.off + i])
  <2>1. chunk[i] = segs[s].recs[old.off + i] /\ results[i] \in Outcomes /\ Justified(results[i], chunk[i])
    BY <1>1 DEF IsChunk
  <2> QED
    BY <2>1 DEF Justified, Judged, Refusable, Outcomes
<1>5. ASSUME NEW i \in 1..new.off
      PROVE  i \in 1..old.off \/ \E j \in 1..Len(chunk) : i = old.off + j
  <2>1. CASE i <= old.off
    BY <1>1, <2>1
  <2>2. CASE i > old.off
    <3>1. i - old.off \in 1..Len(chunk) /\ i = old.off + (i - old.off)
      BY <1>1, <1>2, <2>2
    <3> QED
      BY <3>1
  <2> QED
    BY <1>1, <1>2, <2>1, <2>2
<1>6. ASSUME NEW i \in 1..new.off
      PROVE  Judged(segs[s].recs[i]) /\ (~new.rej => Stored(segs[s].recs[i]))
  <2>1. CASE i \in 1..old.off
    BY <1>2, <2>1 DEF ProgressIsSound, Sound
  <2>2. CASE \E j \in 1..Len(chunk) : i = old.off + j
    BY <1>1, <1>2, <1>4, <2>2
  <2> QED
    BY <1>5, <2>1, <2>2
<1>7. ASSUME new.rej PROVE \E i \in 1..new.off : Refusable(segs[s].recs[i])
  <2>1. CASE old.rej
    <3>1. PICK i \in 1..old.off : Refusable(segs[s].recs[i])
      BY <2>1 DEF ProgressIsSound
    <3>2. i \in 1..new.off
      BY <1>1, <1>2
    <3> QED
      BY <3>1, <3>2
  <2>2. CASE \E i \in DOMAIN results : results[i] # "accepted"
    <3>1. PICK j \in 1..Len(chunk) : results[j] # "accepted"
      BY <1>1, <2>2
    <3>2. old.off + j \in 1..new.off
      BY <1>1, <1>2
    <3> QED
      BY <1>4, <3>1, <3>2
  <2> QED
    BY <1>7, <2>1, <2>2
<1> QED
  BY <1>2, <1>3, <1>6, <1>7 DEF ProgressIsSound, Sound

LEMMA ReceiveAckInv ==
  ASSUME DeliveryInv, ReceiveAck, UNCHANGED spoolVars
  PROVE  DeliveryInv'
<1> DEFINE s == ship.path[1]
           old == ship.mem[s]
           results == conn[ship.conn].results
           rejected == \E i \in DOMAIN results : results[i] # "accepted"
           new == [off |-> old.off + Len(ship.chunk), rej |-> old.rej \/ rejected]
           mem == [ship.mem EXCEPT ![s] = new]
           h == [ship EXCEPT !.pc = "acked", !.batches = ship.batches + 1, !.mem = mem,
                             !.chunk = <<>>, !.tries = 0, !.conn = NoConn]
<1>1. /\ ship \in ShipStates /\ ShipIsSound(ship) /\ ship.pc = "wait" /\ ship.conn \in Conns
      /\ s \in Segs /\ Respond(ship.conn) /\ conn[ship.conn].answer = "ack"
      /\ Len(results) = Len(ship.chunk)
  BY DEF ReceiveAck, DeliveryInv, ShipIsSound, Awaits
<1>2. ship' = h /\ checkpoint' = checkpoint
  BY <1>1 DEF ReceiveAck, ShipStates
<1>3. /\ old \in Progress /\ ProgressIsSound(old, s) /\ ship.mem \in [Segs -> Progress]
      /\ ship.chunk \in Seq(Records) /\ IsChunk(ship.chunk, old, s)
  BY <1>1 DEF ShipStates, ShipIsSound
<1>4. conn[ship.conn].req.body = ship.chunk
  <2>1. conn[ship.conn] # Quiet
    BY <1>1 DEF Respond, Quiet
  <2> QED
    BY <1>1, <2>1 DEF ShipIsSound, Awaits
<1>5. results \in Seq(Outcomes) /\ \A i \in 1..Len(results) : Justified(results[i], ship.chunk[i])
  BY <1>1, <1>4, AckIsJustified DEF DeliveryInv
<1>6. rejected \in BOOLEAN /\ (rejected <=> \E i \in DOMAIN results : results[i] # "accepted")
  OBVIOUS
<1> HIDE DEF s, old, results, rejected
<1>7. new \in Progress /\ ProgressIsSound(new, s)
  <2>1. /\ new \in Progress /\ new.off = old.off + Len(ship.chunk)
        /\ new.rej <=> old.rej \/ rejected
    <3>1. old.off + Len(ship.chunk) \in Nat /\ old.rej \in BOOLEAN
      BY <1>3 DEF Progress
    <3> QED
      BY <1>6, <3>1 DEF Progress
  <2> HIDE DEF new
  <2>2. new.rej <=> old.rej \/ \E i \in DOMAIN results : results[i] # "accepted"
    BY <1>6, <2>1
  <2> QED
    BY <1>1, <1>3, <1>5, <2>1, <2>2, AckedIsSound
<1> HIDE DEF new
<1>8. mem \in [Segs -> Progress] /\ \A t \in Segs : ProgressIsSound(mem[t], t)
  BY <1>1, <1>3, <1>7 DEF ShipIsSound
<1> HIDE DEF mem
<1>9. ship.batches + 1 \in 0..MaxBatches
  BY <1>1, ShipperAssumption DEF ShipIsSound, ShipStates
<1>10. /\ h \in ShipStates /\ h.pc = "acked" /\ h.mem = mem /\ h.path = ship.path
  <2>1. <<>> \in Seq(Records) /\ 0 \in 0..MaxAttempts-1
    BY ShipperAssumption
  <2> QED
    BY <1>1, <1>8, <1>9, <2>1 DEF ShipStates
<1> HIDE DEF h
<1>11. ShipIsSound(h)
  BY <1>1, <1>8, <1>10 DEF ShipIsSound, s
<1> QED
  BY <1>1, <1>2, <1>10, <1>11, AnswerInv

LEMMA ShipperTalksInv == ASSUME DeliveryInv, ShipperTalks PROVE DeliveryInv'
<1>1. UNCHANGED spoolVars
  BY DEF ShipperTalks, spoolVars
<1> QED
  BY <1>1, SendBatchInv, ReceiveRefusalInv, ReceiveAckInv DEF ShipperTalks

---------------------------------------------------------------------------
\* The step that removes or quarantines a segment.

LEMMA DisposeEffect ==
  ASSUME DeliveryInv, ShipperDisposes
  PROVE  /\ SpoolInv' /\ FilesGrow
         /\ AbsentIsEmpty' /\ DeletedIsStored' /\ QuarantineJustified'
         /\ OnHost' \subseteq OnHost
         /\ \A r \in OnHost : r \in OnHost' \/ Stored(r)
<1> DEFINE s == ship.path[1]
<1>1. /\ ShipIsSound(ship) /\ s \in Segs /\ Drained(s)
      /\ IF ship.mem[s].rej THEN ShipperQuarantine(s) ELSE ShipperDelete(s)
  BY DEF ShipperDisposes, DisposeSegment, DeliveryInv, ShipIsSound
<1>2. SpoolInv' /\ FilesGrow
  BY <1>1, ShipperInv DEF DeliveryInv
<1>3. PICK life : /\ segs[s].life = "jsonl" /\ segs' = [segs EXCEPT ![s].life = life]
                  /\ life = IF ship.mem[s].rej THEN "rejected" ELSE "deleted"
  BY <1>1 DEF ShipperDelete, ShipperQuarantine
<1>4. segs \in [Segs -> FileStates] /\ segs[s].recs \in Seq(Records)
  BY <1>1 DEF DeliveryInv, SpoolInv, FileStates
<1>5. /\ segs'[s].life = life /\ segs'[s].recs = segs[s].recs
      /\ \A t \in Segs : t # s => segs'[t] = segs[t]
  BY <1>1, <1>3, <1>4 DEF FileStates
<1>6. UNCHANGED evidence
  BY DEF ShipperDisposes, collectorVars
<1>7. /\ \A i \in DOMAIN segs[s].recs : Judged(segs[s].recs[i]) /\ (~ship.mem[s].rej => Stored(segs[s].recs[i]))
      /\ ship.mem[s].rej => \E i \in DOMAIN segs[s].recs : Refusable(segs[s].recs[i])
  <2>1. ProgressIsSound(ship.mem[s], s) /\ ship.mem[s].off = Len(segs[s].recs)
    BY <1>1 DEF ShipIsSound, Drained
  <2>2. DOMAIN segs[s].recs = 1..ship.mem[s].off
    BY <1>4, <2>1
  <2> QED
    BY <2>1, <2>2 DEF ProgressIsSound, Sound
<1> HIDE DEF s
<1>8. AbsentIsEmpty'
  BY <1>3, <1>5 DEF DeliveryInv, AbsentIsEmpty
<1>9. DeletedIsStored'
  <2> SUFFICES ASSUME NEW t \in Segs, segs'[t].life = "deleted", NEW i \in DOMAIN segs'[t].recs
               PROVE  Stored(segs'[t].recs[i])
    BY <1>6 DEF DeletedIsStored, Stored
  <2>1. CASE t = s
    BY <1>3, <1>5, <1>7, <2>1
  <2>2. CASE t # s
    BY <1>5, <2>2 DEF DeliveryInv, DeletedIsStored
  <2> QED
    BY <2>1, <2>2
<1>10. QuarantineJustified'
  <2> SUFFICES ASSUME NEW t \in Segs, segs'[t].life = "rejected"
               PROVE  /\ \A i \in DOMAIN segs'[t].recs : Judged(segs'[t].recs[i])
                      /\ \E i \in DOMAIN segs'[t].recs : Refusable(segs'[t].recs[i])
    BY <1>6 DEF QuarantineJustified, Judged, Refusable, Stored
  <2>1. CASE t = s
    BY <1>3, <1>5, <1>7, <2>1
  <2>2. CASE t # s
    BY <1>5, <2>2 DEF DeliveryInv, QuarantineJustified
  <2> QED
    BY <2>1, <2>2
<1>11. ASSUME NEW r
       PROVE  r \in OnHost' <=> \E t \in Segs : /\ segs'[t].life \in OnDisk
                                                /\ \E i \in DOMAIN segs'[t].recs : segs'[t].recs[i] = r
  BY DEF OnHost, Range
<1>12. \A t \in Segs : segs'[t].recs = segs[t].recs /\ (segs'[t].life \in OnDisk => segs[t].life \in OnDisk)
  BY <1>3, <1>5 DEF OnDisk
<1>13. OnHost' \subseteq OnHost
  BY <1>11, <1>12, OnHostMeans
<1>14. ASSUME NEW r \in OnHost PROVE r \in OnHost' \/ Stored(r)
  <2>1. PICK t \in Segs : segs[t].life \in OnDisk /\ \E i \in DOMAIN segs[t].recs : segs[t].recs[i] = r
    BY OnHostMeans
  <2>2. CASE t = s /\ ~ship.mem[s].rej
    BY <1>7, <2>1, <2>2
  <2>3. CASE t # s \/ ship.mem[s].rej
    <3>1. segs'[t].life \in OnDisk
      BY <1>3, <1>5, <2>1, <2>3 DEF OnDisk
    <3> QED
      BY <1>11, <1>12, <2>1, <3>1
  <2> QED
    BY <2>2, <2>3
<1> QED
  BY <1>2, <1>8, <1>9, <1>10, <1>13, <1>14

LEMMA ShipperDisposesInv == ASSUME DeliveryInv, ShipperDisposes PROVE DeliveryInv'
<1> DEFINE s == ship.path[1]
<1>0. PICK h : h = [ship EXCEPT !.pc = "gone", !.mem = [ship.mem EXCEPT ![s] = NoProgress]]
  OBVIOUS
<1>1. ship \in ShipStates /\ ShipIsSound(ship) /\ s \in Segs
  BY DEF ShipperDisposes, DisposeSegment, DeliveryInv, ShipIsSound
<1>2. ship' = h /\ UNCHANGED <<checkpoint, evidence, conn>> /\ UNCHANGED collectorVars
  BY <1>0, <1>1 DEF ShipperDisposes, DisposeSegment, collectorVars, ShipStates
<1>3. /\ SpoolInv' /\ FilesGrow
      /\ AbsentIsEmpty' /\ DeletedIsStored' /\ QuarantineJustified'
      /\ \A r \in OnHost : r \in OnHost' \/ Stored(r)
  BY DisposeEffect
<1>4. segs \in [Segs -> FileStates] /\ segs' \in [Segs -> FileStates] /\ EvidenceKept
  BY <1>2, <1>3 DEF DeliveryInv, SpoolInv, EvidenceKept
<1>5. ShipIsSound(ship)'
  <2> DEFINE mem == [ship.mem EXCEPT ![s] = NoProgress]
  <2>1. mem \in [Segs -> Progress] /\ \A t \in Segs : ProgressIsSound(mem[t], t)
    BY <1>1, NoProgressIsSound DEF ShipIsSound, ShipStates
  <2>2. h = [ship EXCEPT !.pc = "gone", !.mem = mem]
    BY <1>0
  <2> HIDE DEF mem
  <2>3. h \in ShipStates /\ h.pc = "gone" /\ h.mem = mem /\ h.path = ship.path
    BY <1>1, <2>1, <2>2 DEF ShipStates
  <2>4. ShipIsSound(h)
    BY <1>1, <2>1, <2>3 DEF ShipIsSound
  <2>5. ShipIsSound(h)'
    BY <1>3, <1>4, <2>3, <2>4, ShipStable
  <2> QED
    BY <1>2, <2>5
<1>6. CheckpointIsSound'
  BY <1>2, <1>3, <1>4, CheckpointMoves
<1>7. CollectorInv'
  BY <1>2, CollectorStepInv DEF DeliveryInv
<1>8. BatchesAreHome'
  BY <1>2, <1>3 DEF DeliveryInv, BatchesAreHome, Stored
<1> QED
  BY <1>3, <1>5, <1>6, <1>7, <1>8 DEF DeliveryInv

---------------------------------------------------------------------------
\* The invariant, and what it says.

LEMMA DeliveryInitInv == Init => DeliveryInv
<1> SUFFICES ASSUME Init PROVE DeliveryInv
  OBVIOUS
<1>1. SpoolInv /\ CollectorInv
  BY SpoolInitInv, CollectorInitInv DEF Init
<1>2. /\ \A s \in Segs : segs[s].life = "absent" /\ segs[s].recs = <<>> /\ Len(segs[s].recs) = 0
      /\ \A c \in Conns : conn[c].pc = "idle"
  BY DEF Init, InitSpool, InitCollector, NoFile, Quiet
<1>3. AbsentIsEmpty /\ DeletedIsStored /\ QuarantineJustified /\ BatchesAreHome
  BY <1>2 DEF AbsentIsEmpty, DeletedIsStored, QuarantineJustified, BatchesAreHome
<1>4. /\ [s \in Segs |-> NoProgress] \in [Segs -> Progress] /\ <<>> \in Seq(Records)
      /\ 0 \in 0..MaxBatches /\ 0 \in 0..MaxAttempts-1
  BY ShipperAssumption DEF NoProgress, Progress
<1>5. \A s \in Segs : ProgressIsSound(NoProgress, s)
  BY <1>2 DEF ProgressIsSound, Sound, NoProgress
<1>6. /\ ship = NoShip /\ NoShip \in ShipStates /\ NoShip.pc = "down"
      /\ NoShip.mem = [s \in Segs |-> NoProgress] /\ checkpoint = NoShip.mem
  BY <1>4 DEF Init, InitShipper, NoShip, ShipStates
<1>7. ShipIsSound(ship) /\ CheckpointIsSound
  BY <1>4, <1>5, <1>6 DEF ShipIsSound, CheckpointIsSound
<1> QED
  BY <1>1, <1>3, <1>7 DEF DeliveryInv

LEMMA DeliveryStepInv == DeliveryInv /\ [Next]_vars => DeliveryInv'
<1> SUFFICES ASSUME DeliveryInv, [Next]_vars PROVE DeliveryInv'
  OBVIOUS
<1>1. CASE Next
  BY <1>1, ProducerStepInv, CollectorStepSafe, ShipperAloneInv, ShipperTalksInv, ShipperDisposesInv DEF Next
<1>2. CASE UNCHANGED vars
  <2>1. UNCHANGED spoolVars /\ UNCHANGED collectorVars /\ UNCHANGED <<ship, checkpoint>> /\ UNCHANGED OnHost
    BY <1>2 DEF vars, spoolVars, collectorVars, OnHost
  <2>2. SpoolInv' /\ CollectorInv' /\ AbsentIsEmpty' /\ DeletedIsStored' /\ QuarantineJustified'
    BY <2>1, CollectorSideStable
  <2>3. UNCHANGED <<segs, evidence, conn, ship, checkpoint, OnHost>>
    BY <2>1 DEF spoolVars, collectorVars
  <2>4. \A r : Stored(r)' = Stored(r)
    BY <2>3 DEF Stored
  <2>5. ASSUME NEW m, NEW s PROVE ProgressIsSound(m, s)' = ProgressIsSound(m, s)
    BY <2>3 DEF ProgressIsSound, Sound, Judged, Stored, Refusable
  <2>6. ShipIsSound(ship)'
    <3>1. ASSUME NEW c, NEW k PROVE Awaits(c, k)' = Awaits(c, k)
      BY <2>3 DEF Awaits
    <3>2. ASSUME NEW k, NEW m, NEW s PROVE IsChunk(k, m, s)' = IsChunk(k, m, s)
      BY <2>3 DEF IsChunk
    <3> QED
      BY <2>3, <2>5, <3>1, <3>2 DEF DeliveryInv, ShipIsSound
  <2>7. CheckpointIsSound'
    BY <2>3, <2>5 DEF DeliveryInv, CheckpointIsSound
  <2>8. BatchesAreHome'
    BY <2>3, <2>4 DEF DeliveryInv, BatchesAreHome
  <2> QED
    BY <2>2, <2>6, <2>7, <2>8 DEF DeliveryInv
<1> QED
  BY <1>1, <1>2

\* The shipper's progress, its checkpoint, its batch and the requests of its clients agree with
\* the files and with storage.
THEOREM DeliveryInvariant == Spec => []DeliveryInv
BY DeliveryInitInv, DeliveryStepInv, PTL DEF Spec

\* SegmentShipper._dispose_segment (ADR-012): a segment is unlinked only when every record of
\* it is in central storage.
THEOREM DeletedSegmentsAreStored == Spec => []DeletedIsStored
BY DeliveryInvariant, PTL DEF DeliveryInv

\* The offset saved after an acknowledgement counts only records the collector judged, and
\* marks a segment clean only if all of them are stored.
THEOREM CheckpointsAreSound == Spec => []CheckpointSound
<1>1. DeliveryInv => CheckpointSound
  BY DEF DeliveryInv, ShipIsSound, CheckpointIsSound, ProgressIsSound, CheckpointSound
<1> QED
  BY <1>1, DeliveryInvariant, PTL

\* A segment is renamed to .rejected only for a record no delivery could get into storage.
THEOREM QuarantinesAreJustified == Spec => []QuarantineJustified
BY DeliveryInvariant, PTL DEF DeliveryInv

---------------------------------------------------------------------------
\* The spool of the composition takes the steps of a spool, so that what SpoolProofs shows
\* of any spool holds while it is shipped.

LEMMA SpoolMoves == ASSUME DeliveryInv, [Next]_vars PROVE [NextSpool]_spoolVars
<1>1. CASE ProducerStep
  BY <1>1 DEF ProducerStep, NextSpool
<1>2. CASE ShipperDisposes
  <2>1. ship.path[1] \in Segs
    BY <1>2 DEF ShipperDisposes, DisposeSegment, DeliveryInv, ShipIsSound
  <2>2. ShipperQuarantine(ship.path[1]) \/ ShipperDelete(ship.path[1])
    BY <1>2 DEF ShipperDisposes, DisposeSegment
  <2> QED
    BY <2>1, <2>2 DEF NextSpool
<1>3. CASE CollectorStep \/ ShipperAlone \/ ShipperTalks \/ UNCHANGED vars
  BY <1>3 DEF CollectorStep, ShipperAlone, ShipperTalks, spoolVars, vars
<1> QED
  BY <1>1, <1>2, <1>3 DEF Next

\* FileCaptureSink and SegmentShipper._dispose_segment: the shipper takes files away as the
\* spool allows it to, in every step of a delivery.
THEOREM DeliveryIsASpool == Spec => SpoolSpec
<1>1. Init => InitSpool
  BY DEF Init
<1> QED
  BY <1>1, SpoolMoves, DeliveryInvariant, PTL DEF Spec, SpoolSpec

\* _append and _current_directory_size: with one live process the limits of the spool hold also
\* while the shipper removes and renames its files.
THEOREM DeliveryIsBounded == ASSUME ~SharedSpool PROVE Spec => []SpoolBounds
<1>1. SpoolSpec => []SpoolBounds
  BY SpoolIsBounded
<1> QED
  BY <1>1, DeliveryIsASpool, PTL

---------------------------------------------------------------------------
\* Remote capture is a durable handoff.

Central == {r \in Records : Stored(r)}

LEMMA OnHostIsRecords == DeliveryInv => OnHost \subseteq Records
<1> SUFFICES ASSUME DeliveryInv, NEW r \in OnHost PROVE r \in Records
  OBVIOUS
<1>1. PICK s \in Segs : \E i \in DOMAIN segs[s].recs : segs[s].recs[i] = r
  BY OnHostMeans
<1>2. segs[s].recs \in Seq(Records)
  BY DEF DeliveryInv, SpoolInv, FileStates
<1> QED
  BY <1>1, <1>2

LEMMA HandoffInit == Init => Handoff!Init
<1> SUFFICES ASSUME Init PROVE Captured = {} /\ OnHost = {} /\ Central = {}
  BY DEF Handoff!Init, Captured, Central
<1>1. Captured = {}
  BY DEF Init, InitSpool, Captured
<1>2. OnHost = {}
  <2>1. \A s \in Segs : segs[s].life \notin OnDisk
    BY DEF Init, InitSpool, NoFile, OnDisk
  <2> QED
    BY <2>1, OnHostMeans
<1>3. Central = {}
  BY RecordAssumption DEF Init, InitCollector, Central, Stored
<1> QED
  BY <1>1, <1>2, <1>3

\* One record more is stored, and it was on its host until now.
LEMMA StoringDelivers ==
  ASSUME DeliveryInv, StoresOne, UNCHANGED <<Captured, OnHost>>
  PROVE  Central' = Central \/ \E r \in Records : r \in OnHost /\ Central' = Central \cup {r}
<1>1. CASE UNCHANGED evidence
  BY <1>1 DEF Central, Stored
<1>2. ASSUME NEW c \in Conns, conn[c].pc # "idle", conn[c].req.body \in Seq(Records),
             NEW i \in 1..Len(conn[c].req.body), NEW r, r = conn[c].req.body[i],
             evidence[Identity[r]] \in {NoRec, r},
             evidence' = [evidence EXCEPT ![Identity[r]] = r]
      PROVE  Central' = Central \/ (r \in Records /\ r \in OnHost /\ Central' = Central \cup {r})
  <2>1. r \in Records
    BY <1>2
  <2>2. r \in OnHost \/ Stored(r)
    BY <1>2 DEF DeliveryInv, BatchesAreHome
  <2>3. evidence \in [Identities -> Records \cup {NoRec}]
    BY DEF DeliveryInv, CollectorInv, CollectorTypeOK
  <2>4. ASSUME NEW x \in Records PROVE Stored(x)' <=> Stored(x) \/ x = r
    BY SMTT(30), <1>2, <2>1, <2>3, <2>4, RecordAssumption DEF Stored
  <2>5. Central' = Central \cup {r}
    BY <2>1, <2>4 DEF Central
  <2>6. Stored(r) => r \in Central
    BY <2>1 DEF Central
  <2> QED
    BY <2>1, <2>2, <2>5, <2>6
<1>3. ~UNCHANGED evidence =>
         \E c \in Conns : /\ conn[c].pc # "idle" /\ conn[c].req.body \in Seq(Records)
                          /\ \E i \in 1..Len(conn[c].req.body) : \E r :
                               /\ r = conn[c].req.body[i] /\ evidence[Identity[r]] \in {NoRec, r}
                               /\ evidence' = [evidence EXCEPT ![Identity[r]] = r]
  BY DEF StoresOne
<1> QED
  BY <1>1, <1>2, <1>3

LEMMA HandoffStep == DeliveryInv /\ [Next]_vars => [Handoff!Next]_(Handoff!vars)
<1> SUFFICES ASSUME DeliveryInv, [Next]_vars PROVE [Handoff!Next]_(Handoff!vars)
  OBVIOUS
<1> USE DEF Handoff!Next, Handoff!Capture, Handoff!Deliver, Handoff!Release, Handoff!vars
<1>1. /\ {r \in Records : fate[r] = "captured"} = Captured
      /\ {r \in Records : fate[r] = "captured"}' = Captured'
      /\ {r \in Records : Stored(r)} = Central /\ {r \in Records : Stored(r)}' = Central'
  BY DEF Captured, Central
<1>2. CASE ProducerStep
  <2>1. Central' = Central
    BY <1>2 DEF ProducerStep, Central, Stored
  <2>2. \/ OnHost' = OnHost /\ Captured' = Captured
        \/ \E r \in Records : /\ r \notin Captured /\ Captured' = Captured \cup {r}
                              /\ OnHost' = OnHost \cup {r}
    BY <1>2, ProducerEffect DEF ProducerStep, DeliveryInv
  <2> QED
    BY <1>1, <2>1, <2>2
<1>3. CASE CollectorStep
  <2>1. CollectorMoves /\ UNCHANGED <<Captured, OnHost>>
    BY <1>3 DEF CollectorStep, CollectorMoves, Captured, OnHost
  <2>2. StoresOne
    BY <2>1, EvidenceComesFromRequests DEF DeliveryInv
  <2>3. Central' = Central \/ \E r \in Records : r \in OnHost /\ Central' = Central \cup {r}
    BY <2>1, <2>2, StoringDelivers
  <2> QED
    BY <1>1, <2>1, <2>3
<1>4. CASE ShipperAlone \/ ShipperTalks \/ UNCHANGED vars
  <2>1. UNCHANGED <<segs, fate, evidence>>
    BY <1>4 DEF ShipperAlone, ShipperTalks, SendBatch, Arrive, ReceiveRefusal, ReceiveAck, Respond, vars
  <2>2. Captured' = Captured /\ OnHost' = OnHost /\ Central' = Central
    BY <2>1 DEF Captured, OnHost, Central, Stored
  <2> QED
    BY SMTT(30), <1>1, <2>2
<1>5. CASE ShipperDisposes
  <2>1. UNCHANGED <<fate, evidence>>
    BY <1>5 DEF ShipperDisposes, DisposeSegment, ShipperDelete, ShipperQuarantine, collectorVars
  <2>2. Captured' = Captured /\ Central' = Central
    BY <2>1 DEF Captured, Central, Stored
  <2>3. OnHost' \subseteq OnHost /\ \A r \in OnHost : r \in OnHost' \/ Stored(r)
    BY <1>5, DisposeEffect
  <2>4. PICK rs : rs = OnHost \ OnHost'
    OBVIOUS
  <2>5. rs \in SUBSET Records /\ rs \subseteq OnHost \cap Central /\ OnHost' = OnHost \ rs
    BY <2>3, <2>4, OnHostIsRecords DEF Central
  <2> QED
    BY <1>1, <2>2, <2>5
<1> QED
  BY <1>2, <1>3, <1>4, <1>5 DEF Next

\* Capture, delivery and removal, with the crashes, timeouts and retries of every process,
\* implement the durable handoff: a captured record is on its host until it is in storage.
THEOREM CaptureIsAHandoff == Spec => HandoffSpec
BY HandoffInit, HandoffStep, DeliveryInvariant, PTL DEF Spec, HandoffSpec, Handoff!Spec

\* Nothing whose capture call returned is ever lost, whatever crashes (DurableHandoff's promise).
THEOREM NothingCapturedIsLost == Spec => []Handoff!NothingLost
<1>1. Handoff!Init => Handoff!NothingLost
  BY DEF Handoff!Init, Handoff!NothingLost
<1>2. Handoff!NothingLost /\ [Handoff!Next]_(Handoff!vars) => Handoff!NothingLost'
  BY DEF Handoff!NothingLost, Handoff!Next, Handoff!Capture, Handoff!Deliver, Handoff!Release, Handoff!vars
<1> QED
  BY <1>1, <1>2, CaptureIsAHandoff, PTL DEF HandoffSpec, Handoff!Spec

---------------------------------------------------------------------------
\* The order of storage.

\* Segment s of a process comes before its segment t.
Before(s, t) == s[1] = t[1] /\ s[2] < t[2]

Existed(s) == segs[s].life # "absent"

AllJudged(s) == \A i \in DOMAIN segs[s].recs : Judged(segs[s].recs[i])

EarlierJudged(t) == \A s \in Segs : Before(s, t) => AllJudged(s)

\* A sink writes the last segment it has named.
OpenIsLast == \A p \in Procs : sink[p].seg # NoSeg => sink[p].next = sink[p].seg[2] + 1

\* A record is in one place, once its capture has returned.
RecordsAreUnique ==
  \A s \in Segs : \A i \in DOMAIN segs[s].recs :
    /\ fate[segs[s].recs[i]] = "captured"
    /\ \A t \in Segs : \A j \in DOMAIN segs[t].recs :
         segs[s].recs[i] = segs[t].recs[j] => s = t /\ i = j

StoredIsCaptured == \A r \in Records : Stored(r) => fate[r] = "captured"

Visiting == {"read", "send", "wait", "acked", "finish", "gone"}

\* The cycle may send more.
GoesOn(h) == ~h.stop /\ h.batches < MaxBatches

\* Whatever precedes a segment that is to be visited is judged or visited before.
TodoIsSound(h) ==
  /\ \A a \in h.todo : Existed(a[1])
  /\ \A a, b \in h.todo : a[1] = b[1] => a = b
  /\ GoesOn(h) => \A a \in h.todo : \A s \in Segs : Before(s, a[1]) =>
       \/ AllJudged(s)
       \/ \E b \in h.todo : b[1] = s /\ (h.pc = "scan" => b = Path(s))
       \/ h.pc \in Visiting /\ h.path[1] = s

\* What precedes the segment that is visited is judged, as long as its records may be sent; and
\* it is judged itself when it is left, unless it may still grow.
VisitIsSound(h) ==
  /\ h.pc \in Visiting => Existed(h.path[1])
  /\ h.pc \in {"send", "wait"} \/ (h.pc \in Visiting /\ ~h.stop) => EarlierJudged(h.path[1])
  /\ h.pc = "finish" /\ GoesOn(h) /\ (\E a \in h.todo : Before(h.path[1], a[1])) => AllJudged(h.path[1])
  /\ h.pc = "gone" => segs[h.path[1]].life \in {"deleted", "rejected"}

\* Records of segment t from off + 1 on, behind nothing but judged ones.
Follows(body, t, off) ==
  /\ Existed(t) /\ EarlierJudged(t)
  /\ off + Len(body) <= Len(segs[t].recs)
  /\ \A i \in 1..Len(body) : body[i] = segs[t].recs[off + i]
  /\ \A i \in 1..off : Judged(segs[t].recs[i])

BatchesAreInOrder ==
  \A c \in Conns : conn[c].pc # "idle" => \E t \in Segs, off \in Nat : Follows(conn[c].req.body, t, off)

OrderInv ==
  /\ OpenIsLast /\ RecordsAreUnique /\ StoredIsCaptured
  /\ TodoIsSound(ship) /\ VisitIsSound(ship)
  /\ BatchesAreInOrder /\ StoredInOrder

---------------------------------------------------------------------------
\* Frames.

\* A step of whoever it is: files that are there stay there and keep their records, and one
\* that is followed by another gets no more.
FilesClose ==
  /\ \A s \in Segs : Existed(s) => Existed(s)'
  /\ \A s, t \in Segs : Before(s, t) /\ Existed(t) => segs'[s].recs = segs[s].recs

\* What all steps have in common.
Goes ==
  /\ segs \in [Segs -> FileStates] /\ segs' \in [Segs -> FileStates]
  /\ FilesGrow /\ EvidenceKept /\ FilesClose

LEMMA JudgedStays ==
  ASSUME Goes, NEW s \in Segs, NEW t \in Segs, Before(s, t), Existed(t), AllJudged(s)
  PROVE  AllJudged(s)'
<1>1. segs'[s].recs = segs[s].recs /\ segs[s].recs \in Seq(Records)
  BY DEF Goes, FilesClose, FileStates
<1>2. ASSUME NEW i \in DOMAIN segs[s].recs PROVE Judged(segs[s].recs[i])'
  <2>1. PICK r \in Records : r = segs[s].recs[i]
    BY <1>1
  <2>2. Judged(r)
    BY <2>1 DEF AllJudged
  <2>3. Judged(r)'
    BY <2>2, EvidenceStable DEF Goes
  <2> QED
    BY <1>1, <2>1, <2>3
<1> QED
  BY <1>1, <1>2 DEF AllJudged

LEMMA EarlierStays ==
  ASSUME Goes, NEW t \in Segs, Existed(t), EarlierJudged(t)
  PROVE  EarlierJudged(t)'
<1>1. ASSUME NEW s \in Segs, Before(s, t) PROVE AllJudged(s)'
  BY <1>1, JudgedStays DEF EarlierJudged
<1> QED
  BY <1>1 DEF EarlierJudged, Before

LEMMA FollowsStays ==
  ASSUME Goes, NEW t \in Segs, NEW off \in Nat, NEW body \in Seq(Records), Follows(body, t, off)
  PROVE  Follows(body, t, off)'
<1>1. /\ segs[t].recs \in Seq(Records) /\ segs'[t].recs \in Seq(Records)
      /\ Len(segs[t].recs) \in Nat /\ Len(segs'[t].recs) \in Nat /\ Len(body) \in Nat
  BY DEF Goes, FileStates
<1>2. Existed(t)' /\ EarlierJudged(t)'
  BY EarlierStays DEF Follows, Goes, FilesClose
<1>3. off + Len(body) <= Len(segs[t].recs)
  BY DEF Follows
<1>4. Len(segs[t].recs) <= Len(segs'[t].recs)
  <2>1. CASE Len(segs[t].recs) = 0
    BY <1>1, <2>1
  <2>2. CASE Len(segs[t].recs) > 0
    <3>1. Len(segs[t].recs) \in 1..Len(segs[t].recs)
      BY <1>1, <2>2
    <3> QED
      BY <1>1, <3>1 DEF Goes, FilesGrow
  <2> QED
    BY <1>1, <2>1, <2>2
<1>5. ASSUME NEW i \in 1..Len(body) PROVE body[i] = segs'[t].recs[off + i]
  <2>1. off + i \in 1..Len(segs[t].recs)
    BY <1>1, <1>3
  <2> QED
    BY <2>1 DEF Goes, FilesGrow, Follows
<1>6. ASSUME NEW i \in 1..off PROVE Judged(segs[t].recs[i])'
  <2>1. i \in 1..Len(segs[t].recs)
    BY <1>1, <1>3
  <2>2. PICK r \in Records : r = segs[t].recs[i] /\ r = segs'[t].recs[i]
    BY <1>1, <2>1 DEF Goes, FilesGrow
  <2>3. Judged(r)
    BY <2>2 DEF Follows
  <2>4. Judged(r)'
    BY <2>3, EvidenceStable DEF Goes
  <2> QED
    BY <2>2, <2>4
<1> QED
  BY <1>1, <1>2, <1>3, <1>4, <1>5, <1>6 DEF Follows

\* The shipper's place stays sound, unless files it has listed get other names.
LEMMA VisitStays ==
  ASSUME Goes, NEW h \in ShipStates, TodoIsSound(h), VisitIsSound(h),
         h.pc \in Visiting => h.path[1] \in Segs,
         h.pc = "scan" => \A s, t \in Segs : Before(s, t) /\ Existed(t) => segs'[s].life = segs[s].life,
         h.pc = "gone" => segs'[h.path[1]].life = segs[h.path[1]].life
  PROVE  TodoIsSound(h)' /\ VisitIsSound(h)'
<1>1. \A a \in h.todo : a[1] \in Segs
  BY DEF ShipStates
<1>2. \A s \in Segs : Existed(s) => Existed(s)'
  BY DEF Goes, FilesClose
<1>3. ASSUME GoesOn(h), NEW a \in h.todo, NEW s \in Segs, Before(s, a[1])
      PROVE  \/ AllJudged(s)'
             \/ \E b \in h.todo : b[1] = s /\ (h.pc = "scan" => b = Path(s)')
             \/ h.pc \in Visiting /\ h.path[1] = s
  <2>1. a[1] \in Segs /\ Existed(a[1])
    BY <1>1 DEF TodoIsSound
  <2>2. AllJudged(s) => AllJudged(s)'
    BY <1>3, <2>1, JudgedStays
  <2>3. h.pc = "scan" => Path(s)' = Path(s)
    BY <1>3, <2>1 DEF Path
  <2> QED
    BY <1>3, <2>2, <2>3 DEF TodoIsSound
<1>4. TodoIsSound(h)'
  BY <1>1, <1>2, <1>3 DEF TodoIsSound, GoesOn, Before
<1>5. ASSUME h.pc \in Visiting PROVE Existed(h.path[1])' /\ (EarlierJudged(h.path[1]) => EarlierJudged(h.path[1])')
  <2>1. h.path[1] \in Segs /\ Existed(h.path[1])
    BY <1>5 DEF VisitIsSound
  <2> QED
    BY <1>2, <2>1, EarlierStays
<1>6. ASSUME h.pc = "finish", GoesOn(h), NEW a \in h.todo, Before(h.path[1], a[1])
      PROVE  AllJudged(h.path[1])'
  <2>1. a[1] \in Segs /\ Existed(a[1]) /\ h.path[1] \in Segs /\ AllJudged(h.path[1])
    BY <1>1, <1>6 DEF TodoIsSound, VisitIsSound, Visiting
  <2> QED
    BY <1>6, <2>1, JudgedStays
<1>7. {"send", "wait", "gone"} \subseteq Visiting
  BY DEF Visiting
<1>8. VisitIsSound(h)'
  BY <1>5, <1>6, <1>7 DEF VisitIsSound, GoesOn, Before
<1> QED
  BY <1>4, <1>8

---------------------------------------------------------------------------
\* Steps of a producer.

\* The sink goes on with its file, without one, or with the next one.
LEMMA SinkMovesOn ==
  ASSUME SpoolInv, NEW p \in Procs, ProducerWorks(p) \/ ProducerFails(p)
  PROVE  \E h : /\ sink' = [sink EXCEPT ![p] = h]
                /\ \/ h.seg = NoSeg
                   \/ h.seg = sink[p].seg /\ h.next = sink[p].next
                   \/ h.seg = <<p, sink[p].next>> /\ h.next = sink[p].next + 1
<1>0. sink \in [Procs -> SinkStates] /\ sink[p] \in SinkStates
  BY DEF SpoolInv
<1> DEFINE Goal(h) == /\ sink' = [sink EXCEPT ![p] = h]
                      /\ \/ h.seg = NoSeg
                         \/ h.seg = sink[p].seg /\ h.next = sink[p].next
                         \/ h.seg = <<p, sink[p].next>> /\ h.next = sink[p].next + 1
<1> SUFFICES \E h : Goal(h)
  OBVIOUS
<1>1. CASE Start(p)
  <2>1. sink' = [sink EXCEPT ![p] = [NoSink EXCEPT !.pc = "scan"]]
    BY <1>1 DEF Start
  <2>2. [NoSink EXCEPT !.pc = "scan"].seg = NoSeg
    BY DEF NoSink
  <2> QED
    BY <2>1, <2>2
<1>2. CASE ProducerCrash(p)
  <2>1. sink' = [sink EXCEPT ![p] = NoSink]
    BY <1>2 DEF ProducerCrash
  <2>2. NoSink.seg = NoSeg
    BY DEF NoSink
  <2> QED
    BY <2>1, <2>2
<1>3. ASSUME NEW r \in Records, BeginAppend(p, r) PROVE \E h : Goal(h)
  <2>1. PICK pc : sink' = [sink EXCEPT ![p] = [sink[p] EXCEPT !.rec = r, !.pc = pc]]
    BY <1>0, <1>3 DEF BeginAppend
  <2>2. PICK h : h = [sink[p] EXCEPT !.rec = r, !.pc = pc]
    OBVIOUS
  <2>3. h.seg = sink[p].seg /\ h.next = sink[p].next
    BY <1>0, <2>2 DEF SinkStates
  <2> QED
    BY <2>1, <2>2, <2>3
<1>4. CASE ScanDirectory(p)
  <2>1. PICK h : h = [sink[p] EXCEPT !.pc = "stat", !.listed = Listing]
    OBVIOUS
  <2>2. h.seg = sink[p].seg /\ h.next = sink[p].next
    BY <1>0, <2>1 DEF SinkStates
  <2>3. sink' = [sink EXCEPT ![p] = h]
    BY <1>0, <1>4, <2>1 DEF ScanDirectory
  <2> QED
    BY <2>2, <2>3
<1>5. CASE StatDirectory(p)
  <2>1. PICK pc, rec, size : sink' = [sink EXCEPT ![p] = [sink[p] EXCEPT !.listed = {}, !.dirSize = size,
                                                                        !.pc = pc, !.rec = rec]]
    <3> DEFINE size == StatBytes(sink[p].listed)
               over == sink[p].rec # NoRec /\ size + Size[sink[p].rec] > DirectoryBytes
    <3>1. PICK pc : pc = IF sink[p].rec = NoRec \/ over THEN "idle" ELSE "place"
      OBVIOUS
    <3>2. PICK rec : rec = IF over THEN NoRec ELSE sink[p].rec
      OBVIOUS
    <3>3. sink' = [sink EXCEPT ![p].listed = {}, ![p].dirSize = size, ![p].pc = pc, ![p].rec = rec]
      BY <1>5, <3>1, <3>2 DEF StatDirectory
    <3> HIDE DEF size, over
    <3> QED
      BY <1>0, <3>3
  <2>2. PICK h : h = [sink[p] EXCEPT !.listed = {}, !.dirSize = size, !.pc = pc, !.rec = rec]
    OBVIOUS
  <2>3. h.seg = sink[p].seg /\ h.next = sink[p].next
    BY <1>0, <2>2 DEF SinkStates
  <2> QED
    BY <2>1, <2>2, <2>3
<1>6. CASE PlaceRecord(p)
  <2>1. PICK h : h = [sink[p] EXCEPT !.pc = "write"]
    OBVIOUS
  <2>2. PICK g : g = [sink[p] EXCEPT !.pc = "write", !.seg = <<p, sink[p].next>>,
                                     !.next = sink[p].next + 1, !.size = 0]
    OBVIOUS
  <2>3. sink' = [sink EXCEPT ![p] = h] \/ sink' = [sink EXCEPT ![p] = g]
    BY <1>0, <1>6, <2>1, <2>2 DEF PlaceRecord
  <2>4. /\ h.seg = sink[p].seg /\ h.next = sink[p].next
        /\ g.seg = <<p, sink[p].next>> /\ g.next = sink[p].next + 1
    BY <1>0, <2>1, <2>2 DEF SinkStates
  <2> QED
    BY <2>3, <2>4
<1>7. CASE PlaceFails(p)
  <2>1. PICK next : sink' = [sink EXCEPT ![p] = [sink[p] EXCEPT !.pc = "idle", !.rec = NoRec, !.seg = NoSeg,
                                                                !.next = next]]
    BY ZenonT(40), <1>0, <1>7 DEF PlaceFails
  <2>2. PICK h : h = [sink[p] EXCEPT !.pc = "idle", !.rec = NoRec, !.seg = NoSeg, !.next = next]
    OBVIOUS
  <2>3. h.seg = NoSeg
    BY <1>0, <2>2 DEF SinkStates
  <2> QED
    BY <2>1, <2>2, <2>3
<1>8. ASSUME NEW n, WriteSome(p, n) PROVE \E h : Goal(h)
  <2>1. sink' = [sink EXCEPT ![p] = sink[p]]
    BY <1>0, <1>8 DEF WriteSome
  <2> QED
    BY <2>1
<1>9. CASE WriteRest(p)
  <2>1. PICK size, dirSize : sink' = [sink EXCEPT ![p] = [sink[p] EXCEPT !.pc = "idle", !.rec = NoRec,
                                                                        !.size = size, !.dirSize = dirSize]]
    BY <1>0, <1>9 DEF WriteRest
  <2>2. PICK h : h = [sink[p] EXCEPT !.pc = "idle", !.rec = NoRec, !.size = size, !.dirSize = dirSize]
    OBVIOUS
  <2>3. h.seg = sink[p].seg /\ h.next = sink[p].next
    BY <1>0, <2>2 DEF SinkStates
  <2> QED
    BY <2>1, <2>2, <2>3
<1>10. CASE WriteFail(p)
  <2>1. PICK size, dirSize : sink' = [sink EXCEPT ![p] = [sink[p] EXCEPT !.pc = "idle", !.rec = NoRec,
                                                          !.seg = NoSeg, !.size = size, !.dirSize = dirSize]]
    BY <1>0, <1>10 DEF WriteFail
  <2>2. PICK h : h = [sink[p] EXCEPT !.pc = "idle", !.rec = NoRec, !.seg = NoSeg, !.size = size,
                                     !.dirSize = dirSize]
    OBVIOUS
  <2>3. h.seg = NoSeg
    BY <1>0, <2>2 DEF SinkStates
  <2> QED
    BY <2>1, <2>2, <2>3
<1>11. CASE Close(p)
  <2>1. PICK h : h = [sink[p] EXCEPT !.seg = NoSeg]
    OBVIOUS
  <2>2. h.seg = NoSeg
    BY <1>0, <2>1 DEF SinkStates
  <2>3. sink' = [sink EXCEPT ![p] = h]
    BY <1>0, <1>11, <2>1 DEF Close
  <2> QED
    BY <2>2, <2>3
<1> HIDE DEF Goal
<1> QED
  BY <1>1, <1>2, <1>3, <1>4, <1>5, <1>6, <1>7, <1>8, <1>9, <1>10, <1>11 DEF ProducerWorks, ProducerFails

\* A producer changes its own file, or makes the next one.
LEMMA FileTouched ==
  ASSUME SpoolInv, AbsentIsEmpty, NEW p \in Procs, ProducerWorks(p) \/ ProducerFails(p), NEW s \in Segs
  PROVE  /\ \/ segs'[s] = segs[s]
            \/ s = sink[p].seg
            \/ s = <<p, sink[p].next>> /\ segs[s] = NoFile
         /\ Existed(s) => Existed(s)'
         /\ ~WriteRest(p) => segs'[s].recs = segs[s].recs
<1>0. /\ segs \in [Segs -> FileStates] /\ SinkIsSound(p) /\ sink[p] \in SinkStates
      /\ segs[s] \in FileStates
  BY DEF SpoolInv
<1>1. CASE UNCHANGED segs
  BY <1>1 DEF Existed
<1>2. ASSUME NEW n, WriteSome(p, n)
      PROVE  /\ segs'[s] = segs[s] \/ s = sink[p].seg
             /\ segs'[s].life = segs[s].life /\ segs'[s].recs = segs[s].recs
  <2>1. PICK bytes : segs' = [segs EXCEPT ![sink[p].seg] = [segs[sink[p].seg] EXCEPT !.torn = n, !.bytes = bytes]]
    BY <1>0, <1>2 DEF WriteSome
  <2> QED
    BY <1>0, <2>1 DEF FileStates
<1>3. CASE WriteRest(p)
  <2>1. /\ segs[sink[p].seg].life = "open" /\ segs'[sink[p].seg].life = "open"
        /\ \A t \in Segs : t # sink[p].seg => segs'[t] = segs[t]
    BY <1>3, WriteRestEffect
  <2> QED
    BY <1>3, <2>1 DEF Existed
<1>4. ASSUME NEW g, NEW size, g \in {Sealed(segs[sink[p].seg], size)} , segs' = [segs EXCEPT ![sink[p].seg] = g]
      PROVE  /\ segs'[s] = segs[s] \/ s = sink[p].seg
             /\ Existed(s) => Existed(s)'
             /\ segs'[s].recs = segs[s].recs
  <2>1. CASE s = sink[p].seg
    <3>1. segs'[s] = Sealed(segs[s], size)
      BY <1>0, <1>4, <2>1
    <3>2. segs'[s].life \in {"deleted", "jsonl"} /\ segs'[s].recs = segs[s].recs
      BY <1>0, <3>1, SealedFile
    <3> QED
      BY <2>1, <3>2 DEF Existed
  <2>2. CASE s # sink[p].seg
    BY <1>0, <1>4, <2>2 DEF Existed
  <2> QED
    BY <2>1, <2>2
<1>5. CASE WriteFail(p)
  <2>1. PICK life : /\ segs' = [segs EXCEPT ![sink[p].seg] = [segs[sink[p].seg] EXCEPT !.life = life]]
                    /\ life \in {"deleted", segs[sink[p].seg].life}
    BY <1>0, <1>5 DEF WriteFail
  <2> QED
    BY <1>0, <2>1 DEF FileStates, Existed
<1>6. CASE Close(p)
  <2>1. UNCHANGED segs \/ segs' = [segs EXCEPT ![sink[p].seg] = Sealed(segs[sink[p].seg], sink[p].size)]
    BY <1>6 DEF Close
  <2> QED
    BY <1>1, <1>4, <2>1
<1>7. CASE PlaceRecord(p) \/ PlaceFails(p)
  <2>1. PICK new : new = <<p, sink[p].next>>
    OBVIOUS
  <2>0. s = sink[p].seg => s # new
    <3>1. s = sink[p].seg => s[2] < sink[p].next /\ sink[p].next \in Nat
      BY <1>0, NoSegIsNoSegment, SpoolAssumption DEF SinkIsSound, OwnsItsFile, SinkStates
    <3> QED
      BY <2>1, <3>1
  <2>2. \/ UNCHANGED segs
        \/ /\ sink[p].next < MaxSegments
           /\ segs'[s] = IF s = new /\ PlaceRecord(p) THEN [NoFile EXCEPT !.life = "open"]
                         ELSE IF s = sink[p].seg THEN Sealed(segs[s], sink[p].size) ELSE segs[s]
    <3>1. CASE PlaceRecord(p)
      BY <2>0, <2>1, <3>1 DEF PlaceRecord
    <3>2. CASE PlaceFails(p) /\ ~PlaceRecord(p)
      BY <3>2 DEF PlaceFails
    <3> QED
      BY <1>7, <3>1, <3>2
  <2>3. ASSUME sink[p].next < MaxSegments, s = new PROVE segs[s] = NoFile
    <3>1. sink[p].pc # "down" /\ sink[p].next \in sink[p].next..MaxSegments-1
      BY <1>0, <1>7, <2>3, SpoolAssumption DEF PlaceRecord, PlaceFails, SinkStates
    <3> QED
      BY <1>0, <2>1, <2>3, <3>1 DEF SinkIsSound
  <2>4. [NoFile EXCEPT !.life = "open"].recs = <<>> /\ NoFile.recs = <<>> /\ NoFile.life = "absent"
    BY DEF NoFile
  <2>5. Sealed(segs[s], sink[p].size).life \in {"deleted", "jsonl"} /\ Sealed(segs[s], sink[p].size).recs = segs[s].recs
    BY SMTT(30), <1>0, SealedFile
  <2>6. ~WriteRest(p)
    BY <1>7 DEF PlaceRecord, PlaceFails, WriteRest
  <2> QED
    BY <1>1, <2>1, <2>2, <2>3, <2>4, <2>5, <2>6 DEF Existed
<1> QED
  BY <1>1, <1>2, <1>3, <1>5, <1>6, <1>7
     DEF ProducerWorks, ProducerFails, Start, ProducerCrash, BeginAppend, ScanDirectory, StatDirectory, Existed


\* Behind the file a sink writes, or makes, there is nothing.
LEMMA NothingLater ==
  ASSUME SpoolInv, OpenIsLast, NEW p \in Procs, sink[p].pc # "down",
         NEW s \in Segs, s = sink[p].seg \/ s = <<p, sink[p].next>>, NEW t \in Segs, Before(s, t)
  PROVE  segs[t] = NoFile /\ ~Existed(t)
<1>1. SinkIsSound(p) /\ sink[p].next \in Nat
  BY SpoolAssumption DEF SpoolInv, SinkStates
<1>2. s[1] = p /\ s[2] \in Nat /\ t[2] \in 0..MaxSegments-1 /\ t[2] \in Nat /\ s[2] < t[2] /\ t[1] = p
  <2>1. s[1] = p
    BY <1>1, NoSegIsNoSegment DEF SinkIsSound, OwnsItsFile
  <2> QED
    BY <2>1, SegmentNames DEF Before, Segs
<1>3. sink[p].next <= t[2]
  <2>1. CASE s = sink[p].seg
    <3>1. s[2] + 1 = sink[p].next
      BY <2>1, NoSegIsNoSegment DEF OpenIsLast
    <3> QED
      BY <3>1, <1>1, <1>2
  <2>2. CASE s = <<p, sink[p].next>>
    BY <2>2, <1>1, <1>2
  <2> QED
    BY <2>1, <2>2
<1>4. t = <<p, t[2]>> /\ t[2] \in sink[p].next..MaxSegments-1
  BY <1>1, <1>2, <1>3, SegmentNames, SpoolAssumption
<1>5. segs[t] = NoFile
  BY <1>1, <1>4 DEF SinkIsSound
<1> QED
  BY <1>5 DEF NoFile, Existed

LEMMA ProducerGoes ==
  ASSUME DeliveryInv, OpenIsLast, ProducerStep
  PROVE  /\ Goes
         /\ \A s, t \in Segs : Before(s, t) /\ Existed(t) => segs'[s] = segs[s]
         /\ \A s \in Segs : segs[s].life \in {"deleted", "rejected"} => segs'[s].life = segs[s].life
<1>1. PICK p \in Procs : ProducerWorks(p) \/ ProducerFails(p)
  BY DEF ProducerStep, Producer
<1>2. SpoolInv /\ SpoolInv' /\ AbsentIsEmpty /\ Producer /\ UNCHANGED evidence
  BY ProducerInv DEF DeliveryInv, ProducerStep
<1>3. /\ segs \in [Segs -> FileStates] /\ segs' \in [Segs -> FileStates]
      /\ FilesGrow /\ EvidenceKept
  BY <1>2, ProducerEffect DEF SpoolInv, EvidenceKept
<1>4. sink[p].pc = "down" => UNCHANGED segs
  <2>1. sink[p].pc = "down" => Start(p)
    BY <1>1 DEF ProducerWorks, ProducerFails, BeginAppend, ScanDirectory, StatDirectory, PlaceRecord,
                WriteSome, WriteRest, Close, ProducerCrash, PlaceFails, WriteFail
  <2> QED
    BY <2>1 DEF Start
<1>5. ASSUME NEW s \in Segs
      PROVE  /\ \/ segs'[s] = segs[s]
                \/ s = sink[p].seg
                \/ s = <<p, sink[p].next>> /\ segs[s] = NoFile
             /\ Existed(s) => Existed(s)'
  BY <1>1, <1>2, FileTouched
<1>6. ASSUME NEW s \in Segs, NEW t \in Segs, Before(s, t), Existed(t) PROVE segs'[s] = segs[s]
  <2>1. CASE sink[p].pc = "down"
    BY <1>4, <2>1
  <2>2. CASE sink[p].pc # "down"
    <3>1. ~(s = sink[p].seg \/ s = <<p, sink[p].next>>)
      BY <1>2, <1>6, <2>2, NothingLater
    <3> QED
      BY <1>5, <3>1
  <2> QED
    BY <2>1, <2>2
<1>7. ASSUME NEW s \in Segs, segs[s].life \in {"deleted", "rejected"} PROVE segs'[s].life = segs[s].life
  <2>1. SinkIsSound(p)
    BY <1>2 DEF SpoolInv
  <2>2. s # sink[p].seg
    BY <1>7, <2>1, NoSegIsNoSegment DEF SinkIsSound, OwnsItsFile
  <2>3. segs[s] # NoFile
    BY <1>7 DEF NoFile
  <2> QED
    BY <1>5, <2>2, <2>3
<1> QED
  BY <1>3, <1>5, <1>6, <1>7 DEF Goes, FilesClose

LEMMA ProducerOpensLast ==
  ASSUME SpoolInv, OpenIsLast, NEW p \in Procs, ProducerWorks(p) \/ ProducerFails(p)
  PROVE  OpenIsLast'
<1>1. PICK h : /\ sink' = [sink EXCEPT ![p] = h]
               /\ \/ h.seg = NoSeg
                  \/ h.seg = sink[p].seg /\ h.next = sink[p].next
                  \/ h.seg = <<p, sink[p].next>> /\ h.next = sink[p].next + 1
  BY SinkMovesOn
<1>2. sink'[p] = h /\ \A q \in Procs : q # p => sink'[q] = sink[q]
  BY <1>1 DEF SpoolInv
<1>3. h.seg # NoSeg => h.next = h.seg[2] + 1
  BY <1>1 DEF OpenIsLast
<1> QED
  BY <1>2, <1>3 DEF OpenIsLast

\* A step that writes no record to its end.
LEMMA NothingWritten ==
  ASSUME SpoolInv, AbsentIsEmpty, RecordsAreUnique, StoredIsCaptured, StoredInOrder, UNCHANGED evidence,
         NEW p \in Procs, ProducerWorks(p) \/ ProducerFails(p), ~WriteRest(p)
  PROVE  RecordsAreUnique' /\ StoredIsCaptured' /\ StoredInOrder'
<1>1. \A s \in Segs : segs'[s].recs = segs[s].recs
  BY FileTouched
<1>2. \A r \in Records : fate'[r] = "captured" <=> fate[r] = "captured"
  BY OnlyWritesCapture DEF Captured
<1>3. \A s \in Segs : \A i \in DOMAIN segs[s].recs : segs[s].recs[i] \in Records
  BY DEF SpoolInv, FileStates
<1>4. RecordsAreUnique'
  BY <1>1, <1>2, <1>3 DEF RecordsAreUnique
<1>5. StoredIsCaptured'
  BY <1>2 DEF StoredIsCaptured, Stored
<1>6. StoredInOrder'
  BY <1>1 DEF StoredInOrder, Earlier, Judged, Refusable, Stored
<1> QED
  BY <1>4, <1>5, <1>6

\* The end of a record: it is new, not stored, and behind all others of its process.
LEMMA RecordWritten ==
  ASSUME SpoolInv, AbsentIsEmpty, OpenIsLast, RecordsAreUnique, StoredIsCaptured, StoredInOrder, UNCHANGED evidence,
         NEW p \in Procs, WriteRest(p)
  PROVE  RecordsAreUnique' /\ StoredIsCaptured' /\ StoredInOrder'
<1>1. PICK s \in Segs, r \in Records :
        /\ s = sink[p].seg /\ r = sink[p].rec /\ fate[r] = "pending"
        /\ fate' = [fate EXCEPT ![r] = "captured"]
        /\ segs[s].recs \in Seq(Records) /\ segs'[s].recs = Append(segs[s].recs, r)
        /\ \A t \in Segs : t # s => segs'[t] = segs[t]
  BY WriteRestEffect
<1>2. PICK n \in Nat :
        /\ n = Len(segs[s].recs) /\ DOMAIN segs[s].recs = 1..n /\ DOMAIN segs'[s].recs = 1..(n + 1)
        /\ segs'[s].recs[n + 1] = r /\ \A i \in 1..n : segs'[s].recs[i] = segs[s].recs[i]
  <2>1. PICK q \in Seq(Records) : q = segs[s].recs /\ segs'[s].recs = Append(q, r)
    BY <1>1
  <2>2. /\ Len(q) \in Nat /\ DOMAIN q = 1..Len(q) /\ DOMAIN Append(q, r) = 1..(Len(q) + 1)
        /\ Append(q, r)[Len(q) + 1] = r
        /\ \A i \in 1..Len(q) : Append(q, r)[i] = q[i]
    BY Appended
  <2> QED
    BY <2>1, <2>2
<1>3. /\ \A x \in Records : fate[x] = "captured" => fate'[x] = "captured"
      /\ fate'[r] = "captured" /\ fate[r] # "captured"
  BY <1>1 DEF SpoolInv
<1>4. \A t \in Segs : \A i \in DOMAIN segs[t].recs : segs[t].recs[i] \in Records
  BY DEF SpoolInv, FileStates
<1>5. \A t \in Segs : \A i \in DOMAIN segs'[t].recs :
        \/ t = s /\ i = n + 1 /\ segs'[t].recs[i] = r
        \/ i \in DOMAIN segs[t].recs /\ segs'[t].recs[i] = segs[t].recs[i]
  <2>1. \A i \in 1..(n + 1) : i = n + 1 \/ i \in 1..n
    OBVIOUS
  <2>2. \A i \in DOMAIN segs'[s].recs :
          \/ i = n + 1 /\ segs'[s].recs[i] = r
          \/ i \in DOMAIN segs[s].recs /\ segs'[s].recs[i] = segs[s].recs[i]
    BY <1>2, <2>1
  <2>3. \A t \in Segs : t # s => segs'[t] = segs[t]
    BY <1>1
  <2> QED
    BY <2>2, <2>3
<1>6. \A t \in Segs : \A i \in DOMAIN segs[t].recs : segs[t].recs[i] # r
  BY <1>3 DEF RecordsAreUnique
<1>7. RecordsAreUnique'
  <2>1. ASSUME NEW t \in Segs, NEW i \in DOMAIN segs'[t].recs
        PROVE  fate'[segs'[t].recs[i]] = "captured"
    BY <1>3, <1>4, <1>5 DEF RecordsAreUnique
  <2>2. ASSUME NEW t \in Segs, NEW i \in DOMAIN segs'[t].recs, NEW u \in Segs, NEW j \in DOMAIN segs'[u].recs,
               segs'[t].recs[i] = segs'[u].recs[j]
        PROVE  t = u /\ i = j
    BY <2>2, <1>5, <1>6 DEF RecordsAreUnique
  <2> QED
    BY <2>1, <2>2 DEF RecordsAreUnique
<1>8. StoredIsCaptured'
  BY <1>3 DEF StoredIsCaptured, Stored
<1>9. ~Stored(r)
  BY <1>3 DEF StoredIsCaptured
<1>10. ASSUME NEW t \in Segs, NEW u \in Segs, NEW i \in DOMAIN segs'[t].recs, NEW j \in DOMAIN segs'[u].recs,
              Earlier(t, i, u, j), Stored(segs'[u].recs[j])
       PROVE  Judged(segs'[t].recs[i])
  <2>1. j \in DOMAIN segs[u].recs /\ segs'[u].recs[j] = segs[u].recs[j]
    BY <1>5, <1>9, <1>10
  <2>2. CASE t = s /\ i = n + 1
    <3>1. ~Before(s, u)
      <4>1. sink[p].pc # "down"
        BY DEF WriteRest
      <4>2. Before(s, u) => ~Existed(u)
        BY <1>1, <4>1, NothingLater
      <4>3. ~Existed(u) => segs[u].recs = <<>>
        BY DEF AbsentIsEmpty, Existed
      <4> QED
        BY SMTT(30), <2>1, <4>2, <4>3
    <3>2. u = s /\ i < j
      BY <1>10, <2>2, <3>1 DEF Earlier, Before
    <3> QED
      BY <1>2, <2>1, <2>2, <3>2
  <2>3. CASE i \in DOMAIN segs[t].recs /\ segs'[t].recs[i] = segs[t].recs[i]
    BY <1>10, <2>1, <2>3 DEF StoredInOrder
  <2> QED
    BY <1>5, <2>2, <2>3
<1>11. StoredInOrder'
  <2>1. \A t, u \in Segs : \A i \in DOMAIN segs'[t].recs, j \in DOMAIN segs'[u].recs :
          Earlier(t, i, u, j) /\ Stored(segs'[u].recs[j]) => Judged(segs'[t].recs[i])
    BY <1>10
  <2> QED
    BY <2>1 DEF StoredInOrder, Earlier, Judged, Refusable, Stored
<1> QED
  BY <1>7, <1>8, <1>11

\* Batches of requests that nobody changes.
LEMMA BatchesStayInOrder ==
  ASSUME CollectorInv, Goes, BatchesAreInOrder, NEW c \in Conns, KeepsRequest(c), conn'[c].pc # "idle"
  PROVE  \E t \in Segs, off \in Nat : Follows(conn[c].req.body, t, off)'
<1>1. conn'[c].req = conn[c].req /\ conn[c].pc # "idle"
  BY DEF KeepsRequest, Quiet
<1>2. PICK body \in Seq(Records) : body = conn[c].req.body /\ body = conn'[c].req.body
  BY <1>1 DEF CollectorInv, CollectorTypeOK, Requests
<1>3. PICK t \in Segs, off \in Nat : Follows(body, t, off)
  BY <1>1, <1>2 DEF BatchesAreInOrder
<1>4. Follows(body, t, off)'
  BY <1>3, FollowsStays
<1> QED
  BY ZenonT(40), <1>2, <1>4 DEF Follows

LEMMA ProducerKeepsOrder ==
  ASSUME DeliveryInv, OrderInv, ProducerStep
  PROVE  OrderInv'
<1>1. /\ SpoolInv /\ AbsentIsEmpty /\ CollectorInv /\ ShipIsSound(ship)
      /\ UNCHANGED <<evidence, conn, ship>>
  BY DEF DeliveryInv, ProducerStep
<1>2. PICK p \in Procs : ProducerWorks(p) \/ ProducerFails(p)
  BY DEF ProducerStep, Producer
<1>3. /\ Goes
      /\ \A s, t \in Segs : Before(s, t) /\ Existed(t) => segs'[s] = segs[s]
      /\ \A s \in Segs : segs[s].life \in {"deleted", "rejected"} => segs'[s].life = segs[s].life
  BY ProducerGoes DEF OrderInv
<1>4. OpenIsLast'
  BY <1>1, <1>2, ProducerOpensLast DEF OrderInv
<1>5. RecordsAreUnique' /\ StoredIsCaptured' /\ StoredInOrder'
  BY <1>1, <1>2, NothingWritten, RecordWritten DEF OrderInv
<1>6. TodoIsSound(ship)' /\ VisitIsSound(ship)'
  <2>1. PICK h \in ShipStates : h = ship /\ h = ship'
    BY <1>1 DEF ShipIsSound
  <2>2. h.pc \in Visiting => h.path[1] \in Segs
    BY <1>1, <2>1 DEF ShipIsSound, Visiting
  <2>3. h.pc = "gone" => segs'[h.path[1]].life = segs[h.path[1]].life
    BY <1>3, <2>1, <2>2 DEF OrderInv, VisitIsSound, Visiting
  <2>4. TodoIsSound(h)' /\ VisitIsSound(h)'
    BY <1>3, <2>1, <2>2, <2>3, VisitStays DEF OrderInv
  <2> QED
    BY <2>1, <2>4 DEF TodoIsSound, VisitIsSound, GoesOn
<1>7. BatchesAreInOrder'
  <2>1. ASSUME NEW c \in Conns, conn'[c].pc # "idle"
        PROVE  \E t \in Segs, off \in Nat : Follows(conn[c].req.body, t, off)'
    BY <1>1, <1>3, <2>1, BatchesStayInOrder DEF KeepsRequest, OrderInv
  <2> QED
    BY <2>1 DEF BatchesAreInOrder
<1> QED
  BY <1>4, <1>5, <1>6, <1>7 DEF OrderInv

---------------------------------------------------------------------------
\* Steps of the collector.

\* A record is applied when whatever was captured before it is judged.
LEMMA AppliedInOrder ==
  ASSUME DeliveryInv, OrderInv, NEW c \in Conns, Apply(c), EvidenceKept, UNCHANGED <<segs, fate>>
  PROVE  StoredInOrder' /\ StoredIsCaptured'
<1>1. PICK body \in Seq(Records), results \in Seq(Outcomes) :
        /\ body = conn[c].req.body /\ results = conn[c].results
        /\ Len(results) < Len(body) /\ JustifiedResults(results, body)
        /\ LET r == body[Len(results) + 1]
           IN evidence' = IF Judge(r) = "accepted" THEN [evidence EXCEPT ![Identity[r]] = r] ELSE evidence
  <2>1. /\ conn[c] \in ConnStates /\ conn[c].req \in Requests /\ conn[c].pc = "process" /\ HandlerInv(conn[c])
    BY DEF DeliveryInv, CollectorInv, CollectorTypeOK, Apply
  <2>2. conn[c].req.body \in Seq(Records) /\ conn[c].results \in Seq(Outcomes)
    BY <2>1 DEF Requests, ConnStates
  <2> QED
    BY <2>1, <2>2 DEF Apply, HandlerInv
<1>2. PICK t \in Segs, off \in Nat : Follows(body, t, off)
  BY <1>1 DEF OrderInv, BatchesAreInOrder, Apply
<1>0. /\ Len(results) \in Nat /\ Len(body) \in Nat
      /\ \A i \in 1..Len(body) : body[i] \in Records
      /\ \A i \in 1..Len(results) : results[i] \in Outcomes
  OBVIOUS
<1>3. PICK k \in Nat : k = Len(results) + 1 /\ Len(results) = k - 1 /\ k \in 1..Len(body)
  <2>1. Len(results) < Len(body)
    BY <1>1
  <2>2. \A m, n \in Nat : m < n => m + 1 \in Nat /\ m = m + 1 - 1 /\ m + 1 \in 1..n
    OBVIOUS
  <2> QED
    BY <1>0, <2>1, <2>2
<1>4. PICK r \in Records : r = body[k]
  BY <1>0, <1>3
<1>5. /\ off + k \in 1..Len(segs[t].recs) /\ DOMAIN segs[t].recs = 1..Len(segs[t].recs)
      /\ r = segs[t].recs[off + k]
  <2>1. segs[t].recs \in Seq(Records) /\ Len(segs[t].recs) \in Nat /\ Len(body) \in Nat
    BY DEF DeliveryInv, SpoolInv, FileStates
  <2> QED
    BY SMTT(30), <2>1, <1>2, <1>3, <1>4 DEF Follows
<1>6. \A x \in Records : Stored(x)' => Stored(x) \/ x = r
  <2>1. evidence \in [Identities -> Records \cup {NoRec}] /\ Identity \in [Records -> Identities]
    BY RecordAssumption DEF DeliveryInv, CollectorInv, CollectorTypeOK
  <2>2. evidence' = evidence \/ evidence' = [evidence EXCEPT ![Identity[r]] = r]
    BY <1>1, <1>3, <1>4
  <2> QED
    BY <2>1, <2>2 DEF Stored
<1>7. \A s \in Segs : \A i \in DOMAIN segs[s].recs : segs[s].recs[i] \in Records
  BY DEF DeliveryInv, SpoolInv, FileStates
<1>8. \A x \in Records : Judged(x) => Judged(x)'
  BY EvidenceStable
<1>9. fate[r] = "captured"
  BY <1>5 DEF OrderInv, RecordsAreUnique
<1>10. StoredIsCaptured'
  BY <1>6, <1>9 DEF OrderInv, StoredIsCaptured, Stored
<1>11. ASSUME NEW s \in Segs, NEW u \in Segs, NEW i \in DOMAIN segs[s].recs, NEW j \in DOMAIN segs[u].recs,
              Earlier(s, i, u, j), Stored(segs[u].recs[j])'
       PROVE  Judged(segs[s].recs[i])
  <2>1. CASE Stored(segs[u].recs[j])
    BY <1>11, <2>1 DEF OrderInv, StoredInOrder
  <2>2. CASE segs[u].recs[j] = r
    <3>1. u = t /\ j = off + k
      BY <1>5, <2>2 DEF OrderInv, RecordsAreUnique
    <3>2. CASE Before(s, t)
      BY <1>2, <3>2 DEF Follows, EarlierJudged, AllJudged
    <3>3. CASE s = t /\ i < off + k
      <4>1. i \in 1..Len(segs[t].recs) /\ i \in Nat
        BY <1>5, <3>3
      <4>2. CASE i <= off
        BY <1>2, <3>3, <4>1, <4>2 DEF Follows
      <4>3. CASE i > off
        <5>1. PICK m \in Nat : i = off + m /\ m \in 1..Len(results) /\ m \in 1..Len(body)
          <6>1. i - off \in Nat /\ i = off + (i - off) /\ i - off >= 1 /\ i - off <= k - 1
            BY <3>3, <4>1, <4>3
          <6>2. i - off \in 1..Len(results) /\ i - off \in 1..Len(body)
            <7>1. PICK x \in Nat : x = i - off /\ x >= 1 /\ x <= k - 1
              BY <6>1
            <7>2. k - 1 <= Len(body) /\ k - 1 = Len(results)
              BY <1>0, <1>3
            <7> QED
              BY <7>1, <7>2, <1>0
          <6> QED
            BY <6>1, <6>2
        <5>2. PICK x \in Records : x = body[m] /\ x = segs[s].recs[i]
          BY <1>0, <1>2, <3>3, <5>1 DEF Follows
        <5>3. Justified(results[m], x) /\ results[m] \in Outcomes
          BY <1>0, <1>1, <5>1, <5>2 DEF JustifiedResults
        <5>4. Judged(x)
          BY <5>3 DEF Justified, Outcomes, Judged, Refusable
        <5> QED
          BY <5>2, <5>4
      <4> QED
        BY <4>1, <4>2, <4>3
    <3> QED
      BY <1>11, <3>1, <3>2, <3>3 DEF Earlier, Before
  <2> QED
    BY <1>6, <1>7, <1>11, <2>1, <2>2
<1>12. StoredInOrder'
  <2>1. \A s, u \in Segs : \A i \in DOMAIN segs[s].recs, j \in DOMAIN segs[u].recs :
          Earlier(s, i, u, j) /\ Stored(segs[u].recs[j])' => Judged(segs[s].recs[i])'
    BY <1>7, <1>8, <1>11
  <2> QED
    BY <2>1 DEF StoredInOrder, Earlier, Judged, Refusable, Stored
<1> QED
  BY <1>10, <1>12

LEMMA CollectorKeepsStoredOrder ==
  ASSUME DeliveryInv, OrderInv, CollectorMoves, EvidenceKept, UNCHANGED <<segs, fate>>
  PROVE  StoredInOrder' /\ StoredIsCaptured'
<1>1. CASE \E c \in Conns : Apply(c)
  BY <1>1, AppliedInOrder
<1>2. CASE ~\E c \in Conns : Apply(c)
  <2>1. UNCHANGED evidence
    BY <1>2 DEF CollectorMoves, Server, Handler, Admit, RefuseBody, EnsurePending, PoolBusy, Lock, LoseRow,
                Complete, ProcessorFails, RollBack, Lose, Respond, CollectorCrash, BeginShutdown,
                EndShutdown, CollectorStart
  <2> QED
    BY SMTT(30), <2>1 DEF OrderInv, StoredInOrder, StoredIsCaptured, Earlier, Judged, Refusable, Stored
<1> QED
  BY <1>1, <1>2

\* What a step that leaves the spool alone keeps.
LEMMA SpoolStandsStill ==
  ASSUME DeliveryInv, OrderInv, UNCHANGED spoolVars, EvidenceKept
  PROVE  /\ Goes /\ OpenIsLast' /\ RecordsAreUnique'
         /\ \A s \in Segs : segs'[s] = segs[s]
<1>1. UNCHANGED <<segs, sink, fate>>
  BY DEF spoolVars
<1>2. \A s \in Segs : segs[s].recs \in Seq(Records)
  BY DEF DeliveryInv, SpoolInv, FileStates
<1>3. Goes
  BY <1>1, <1>2 DEF DeliveryInv, SpoolInv, Goes, FilesGrow, FilesClose, Existed
<1> QED
  BY <1>1, <1>3 DEF OrderInv, OpenIsLast, RecordsAreUnique

LEMMA CollectorKeepsOrder ==
  ASSUME DeliveryInv, OrderInv, CollectorStep
  PROVE  OrderInv'
<1>1. CollectorMoves /\ UNCHANGED spoolVars /\ UNCHANGED ship /\ CollectorNext
  BY DEF CollectorStep, CollectorMoves, CollectorNext, spoolVars
<1>2. EvidenceKept
  BY <1>1, CollectorSideStable
<1>3. Goes /\ OpenIsLast' /\ RecordsAreUnique' /\ \A s \in Segs : segs'[s] = segs[s]
  BY <1>1, <1>2, SpoolStandsStill
<1>4. StoredInOrder' /\ StoredIsCaptured'
  BY <1>1, <1>2, CollectorKeepsStoredOrder DEF spoolVars
<1>5. TodoIsSound(ship)' /\ VisitIsSound(ship)'
  <2>1. PICK h \in ShipStates : h = ship /\ h = ship'
    BY <1>1 DEF DeliveryInv, ShipIsSound
  <2>2. h.pc \in Visiting => h.path[1] \in Segs
    BY <2>1 DEF DeliveryInv, ShipIsSound, Visiting
  <2>3. h.pc = "gone" => h.pc \in Visiting
    BY DEF Visiting
  <2>4. TodoIsSound(h)' /\ VisitIsSound(h)'
    BY <1>3, <2>1, <2>2, <2>3, VisitStays DEF OrderInv
  <2> QED
    BY <2>1, <2>4 DEF TodoIsSound, VisitIsSound, GoesOn
<1>6. BatchesAreInOrder'
  <2>1. ASSUME NEW c \in Conns, conn'[c].pc # "idle"
        PROVE  \E t \in Segs, off \in Nat : Follows(conn[c].req.body, t, off)'
    BY <1>1, <1>3, <2>1, RequestsStay, BatchesStayInOrder DEF DeliveryInv, OrderInv
  <2> QED
    BY <2>1 DEF BatchesAreInOrder
<1> QED
  BY <1>3, <1>4, <1>5, <1>6 DEF OrderInv

---------------------------------------------------------------------------
\* Steps of the shipper.  As before, a new state of it is first shown sound of the files as they are.

LEMMA LeastOf ==
  ASSUME NEW S \in SUBSET Nat, S # {}
  PROVE  \E n \in S : \A m \in S : n <= m
<1>1. PICK n \in S : \A m \in S : ~(<<m, n>> \in OpToRel(<, Nat))
  BY WFMin, NatLessThanWellFounded
<1>2. \A m \in S : ~(m < n)
  BY <1>1 DEF OpToRel
<1> QED
  BY <1>2

\* The first of the paths is before the others.
LEMMA FirstIsFirst ==
  ASSUME NEW paths, paths \in SUBSET (Segs \X OnDisk), paths # {}, \A a, b \in paths : a[1] = b[1] => a = b
  PROVE  First(paths) \in paths /\ \A b \in paths \ {First(paths)} : Precedes(First(paths), b)
<1>1. \A a \in paths : /\ a[1][1] \in Nat /\ a[1][2] \in Nat
                       /\ a[1] = <<a[1][1], a[1][2]>>
  <2>1. \A p \in Procs : p \in Nat
    BY ShipperAssumption
  <2>2. \A s \in Segs : s[1] \in Procs /\ s[2] \in 0..MaxSegments-1 /\ s = <<s[1], s[2]>>
    BY DEF Segs
  <2>3. \A a \in paths : a[1] \in Segs
    OBVIOUS
  <2>4. \A n \in 0..MaxSegments-1 : n \in Nat
    OBVIOUS
  <2> QED
    BY <2>1, <2>2, <2>3, <2>4
<1> DEFINE P == {a[1][1] : a \in paths}
<1>2. PICK m \in P : \A n \in P : m <= n
  <2>1. P \in SUBSET Nat /\ P # {}
    BY <1>1
  <2> HIDE DEF P
  <2> QED
    BY <2>1, LeastOf
<1> DEFINE N == {a[1][2] : a \in {b \in paths : b[1][1] = m}}
<1>3. PICK k \in N : \A n \in N : k <= n
  <2>1. N \in SUBSET Nat
    BY <1>1
  <2>2. N # {}
    <3>1. PICK a \in paths : a[1][1] = m
      BY <1>2
    <3>2. a[1][2] \in N
      BY <3>1
    <3> QED
      BY <3>2
  <2> HIDE DEF N
  <2> QED
    BY <2>1, <2>2, LeastOf
<1>4. PICK a \in paths : a[1][1] = m /\ a[1][2] = k
  BY <1>3
<1>5. ASSUME NEW b \in paths \ {a} PROVE Precedes(a, b)
  <2>1. m <= b[1][1] /\ m \in Nat /\ k \in Nat /\ b[1][1] \in Nat /\ b[1][2] \in Nat
    BY <1>1, <1>2, <1>4
  <2>2. CASE b[1][1] = m
    <3>1. k <= b[1][2]
      BY <1>3, <2>2
    <3>2. b[1][2] # k
      <4>1. a[1] = <<m, k>> /\ b[1] = <<m, b[1][2]>>
        BY <1>1, <1>4, <2>2
      <4> QED
        BY <4>1
    <3> QED
      BY <1>4, <2>1, <2>2, <3>1, <3>2 DEF Precedes
  <2>3. CASE b[1][1] # m
    BY <1>4, <2>1, <2>3 DEF Precedes
  <2> QED
    BY <2>2, <2>3
<1>6. \E x \in paths : \A b \in paths \ {x} : Precedes(x, b)
  BY <1>5
<1>7. PICK x : x = First(paths)
  OBVIOUS
<1>8. x \in paths /\ \A b \in paths \ {x} : Precedes(x, b)
  BY <1>6, <1>7 DEF First
<1> QED
  BY <1>7, <1>8

\* A segment with nothing in it, or that has been disposed of, is judged.
LEMMA GoneIsJudged ==
  ASSUME DeliveryInv, NEW s \in Segs, segs[s].life \notin {"open", "jsonl"}
  PROVE  AllJudged(s)
<1>1. segs[s].life \in {"absent", "deleted", "rejected"}
  BY DEF DeliveryInv, SpoolInv, FileStates, Lives, OnDisk
<1>2. CASE segs[s].life = "absent"
  BY <1>2 DEF DeliveryInv, AbsentIsEmpty, AllJudged
<1>3. CASE segs[s].life = "deleted"
  BY <1>3 DEF DeliveryInv, DeletedIsStored, AllJudged, Judged
<1>4. CASE segs[s].life = "rejected"
  BY <1>4 DEF DeliveryInv, QuarantineJustified, AllJudged
<1> QED
  BY <1>1, <1>2, <1>3, <1>4

\* A shipper that is down or at rest is at no place.
LEMMA RestIsInOrder ==
  ASSUME NEW h, h.todo = {}, h.pc \in {"down", "idle"}
  PROVE  TodoIsSound(h) /\ VisitIsSound(h)
BY DEF TodoIsSound, VisitIsSound, Visiting

LEMMA IdleIsInOrder ==
  ASSUME DeliveryInv, NEW h, h \in {NoShip, [NoShip EXCEPT !.pc = "idle"], AtRest}
  PROVE  TodoIsSound(h) /\ VisitIsSound(h)
<1>1. ship \in ShipStates
  BY DEF DeliveryInv, ShipIsSound
<1>2. PICK mem : mem = NoShip.mem
  OBVIOUS
<1>3. AtRest = [ship EXCEPT !.pc = "idle", !.mem = mem, !.todo = {}, !.path = NoPath,
                            !.batches = 0, !.chunk = <<>>, !.tries = 0, !.conn = NoConn]
  BY <1>2 DEF AtRest
<1>4. AtRest.todo = {} /\ AtRest.pc = "idle"
  BY <1>1, <1>3 DEF ShipStates
<1>5. h.todo = {} /\ h.pc \in {"down", "idle"}
  BY <1>4 DEF NoShip
<1> QED
  BY <1>5, RestIsInOrder

\* Nothing precedes what is listed but what is listed too, or judged.
LEMMA ListingIsSound ==
  ASSUME DeliveryInv, NEW h, h.todo = Listing, h.pc = "scan"
  PROVE  TodoIsSound(h) /\ VisitIsSound(h)
<1>1. \A a \in Listing : a[1] \in Segs /\ a = Path(a[1]) /\ segs[a[1]].life \in OnDisk
  BY DEF Listing, Path
<1>2. ASSUME NEW a \in Listing, NEW s \in Segs
      PROVE  AllJudged(s) \/ \E b \in Listing : b[1] = s /\ b = Path(s)
  <2>1. CASE segs[s].life \in {"open", "jsonl"}
    BY <2>1 DEF Listing, OnDisk, Path
  <2>2. CASE segs[s].life \notin {"open", "jsonl"}
    BY <2>2, GoneIsJudged
  <2> QED
    BY <2>1, <2>2
<1>3. TodoIsSound(h)
  BY <1>1, <1>2 DEF TodoIsSound, Existed, OnDisk
<1>4. VisitIsSound(h)
  BY DEF VisitIsSound, Visiting
<1> QED
  BY <1>3, <1>4

\* Of what was listed the paths that are gone are left out, and files in quarantine.
LEMMA ScanIsSound ==
  ASSUME DeliveryInv, TodoIsSound(ship), ship.pc = "scan",
         NEW h, h.pc = "next", h.stop = ship.stop, h.batches = ship.batches,
         h.todo = {path \in ship.todo \cap Listing : path[2] # "rejected"}
  PROVE  TodoIsSound(h) /\ VisitIsSound(h)
<1>1. ship.todo \subseteq Segs \X OnDisk
  BY DEF DeliveryInv, ShipIsSound, ShipStates
<1>2. ASSUME GoesOn(h), NEW a \in h.todo, NEW s \in Segs, Before(s, a[1])
      PROVE  AllJudged(s) \/ \E b \in h.todo : b[1] = s
  <2>1. ~(ship.pc \in Visiting) /\ GoesOn(ship) /\ a \in ship.todo
    BY <1>2 DEF Visiting, GoesOn
  <2>2. AllJudged(s) \/ Path(s) \in ship.todo
    BY <1>2, <2>1 DEF TodoIsSound
  <2>3. CASE Path(s) \in ship.todo /\ segs[s].life \in {"open", "jsonl"}
    <3>1. Path(s) \in Listing /\ Path(s)[2] # "rejected" /\ Path(s)[1] = s
      BY <2>3 DEF Listing, OnDisk, Path
    <3> QED
      BY <2>3, <3>1
  <2>4. CASE segs[s].life \notin {"open", "jsonl"}
    BY <2>4, GoneIsJudged
  <2> QED
    BY <2>2, <2>3, <2>4
<1>3. TodoIsSound(h)
  BY <1>2 DEF TodoIsSound
<1>4. VisitIsSound(h)
  BY DEF VisitIsSound, Visiting
<1> QED
  BY <1>3, <1>4

\* The path that is opened has nothing before it that is not judged.
LEMMA OpenIsSound ==
  ASSUME DeliveryInv, TodoIsSound(ship), ship.pc = "next", ship.todo # {}, ship.batches < MaxBatches,
         NEW path, path = First(ship.todo),
         NEW h, h.pc = "read", h.path = path, h.todo = ship.todo \ {path},
                h.stop = ship.stop, h.batches = ship.batches
  PROVE  TodoIsSound(h) /\ VisitIsSound(h)
<1>1. ship.todo \in SUBSET (Segs \X OnDisk)
  BY DEF DeliveryInv, ShipIsSound, ShipStates
<1>2. path \in ship.todo /\ \A b \in ship.todo \ {path} : Precedes(path, b)
  BY <1>1, FirstIsFirst DEF TodoIsSound
<1>3. path[1] \in Segs /\ Existed(path[1])
  BY <1>1, <1>2 DEF TodoIsSound
<1>4. ~(ship.pc \in Visiting) /\ ship.pc # "scan" /\ "read" \in Visiting
  BY DEF Visiting
<1>5. TodoIsSound(h)
  BY <1>1, <1>2, <1>4 DEF TodoIsSound, GoesOn
<1>6. ASSUME ~h.stop, NEW s \in Segs, Before(s, path[1]) PROVE AllJudged(s)
  <2>1. ASSUME NEW b \in ship.todo, b[1] = s PROVE FALSE
    <3>1. path[1][1] = s[1] /\ s[2] < path[1][2] /\ s[2] \in Nat /\ path[1][2] \in Nat /\ s[1] \in Nat
      <4>1. path[1][1] = s[1] /\ s[2] < path[1][2]
        BY <1>6 DEF Before
      <4>2. \A t \in Segs : t[1] \in Procs /\ t[2] \in 0..MaxSegments-1
        BY DEF Segs
      <4>3. s[2] \in Nat /\ path[1][2] \in Nat /\ s[1] \in Nat
        <5>1. \A n \in 0..MaxSegments-1 : n \in Nat
          OBVIOUS
        <5>2. \A p \in Procs : p \in Nat
          BY ShipperAssumption
        <5>3. path[1] \in Segs /\ s \in Segs
          BY <1>3
        <5> QED
          BY <4>2, <5>1, <5>2, <5>3
      <4> QED
        BY <4>1, <4>3
    <3>2. b # path
      BY <2>1, <3>1
    <3>3. path[1][1] < s[1] \/ path[1][2] < s[2]
      BY <1>2, <2>1, <3>2 DEF Precedes
    <3> QED
      BY <3>1, <3>3
  <2> QED
    BY <1>2, <1>4, <1>6, <2>1 DEF TodoIsSound, GoesOn
<1>7. VisitIsSound(h)
  BY <1>3, <1>6 DEF VisitIsSound, EarlierJudged
<1> QED
  BY <1>5, <1>7

\* The batch that is read follows what is judged; a segment is left for others when all of it is.
LEMMA ReadIsSound ==
  ASSUME DeliveryInv, TodoIsSound(ship), VisitIsSound(ship), ReadChunk
  PROVE  TodoIsSound(ship') /\ VisitIsSound(ship')
<1> DEFINE s == ship.path[1]
           off == ship.mem[s].off
           chunk == Chunk(s, off)
<1>1. /\ ship \in ShipStates /\ ship.pc = "read" /\ s \in Segs
      /\ Sound(ship.mem[s], segs[s].recs) /\ ship.mem[s] \in Progress
      /\ segs[s].recs \in Seq(Records)
  BY DEF ReadChunk, DeliveryInv, SpoolInv, FileStates, ShipIsSound, ProgressIsSound, ShipStates
<1>2. {"read", "send", "finish"} \subseteq Visiting /\ "read" # "scan"
  BY DEF Visiting
<1>3. CASE ship.batches < MaxBatches /\ ~ship.stop /\ chunk # <<>>
  <2>1. PICK new : new = chunk
    OBVIOUS
  <2>2. PICK h : h = [ship EXCEPT !.pc = "send", !.chunk = new, !.tries = 0]
    OBVIOUS
  <2>3. ship' = h
    BY <1>3, <2>1, <2>2 DEF ReadChunk
  <2>4. /\ h.pc = "send" /\ h.path = ship.path /\ h.todo = ship.todo
        /\ h.stop = ship.stop /\ h.batches = ship.batches
    BY <1>1, <2>2 DEF ShipStates
  <2>5. TodoIsSound(h) /\ VisitIsSound(h)
    BY <1>1, <1>2, <1>3, <2>4 DEF TodoIsSound, VisitIsSound, GoesOn
  <2> QED
    BY <2>3, <2>5
<1>4. CASE ~(ship.batches < MaxBatches /\ ~ship.stop /\ chunk # <<>>)
  <2>1. PICK h : h = [ship EXCEPT !.pc = "finish"]
    OBVIOUS
  <2>2. ship' = h
    BY <1>4, <2>1 DEF ReadChunk
  <2>3. /\ h.pc = "finish" /\ h.path = ship.path /\ h.todo = ship.todo
        /\ h.stop = ship.stop /\ h.batches = ship.batches
    BY <1>1, <2>1 DEF ShipStates
  <2>4. ASSUME GoesOn(h) PROVE AllJudged(s)
    <3>1. chunk = <<>>
      BY <1>4, <2>3, <2>4 DEF GoesOn
    <3>2. PICK recs \in Seq(Records), n \in Nat : recs = segs[s].recs /\ n = off
      BY SMTT(30), <1>1 DEF Progress
    <3>3. PICK last \in Int :
            /\ last = IF Len(recs) - n < MaxBatchRecords THEN Len(recs) ELSE n + MaxBatchRecords
            /\ SubSeq(recs, n + 1, last) = <<>>
      <4>1. MaxBatchRecords \in Nat
        BY CollectorAssumption
      <4> QED
        BY <3>1, <3>2, <4>1 DEF Chunk
    <3>4. Len(SubSeq(recs, n + 1, last)) = 0
      BY <3>3
    <3>5. n <= Len(recs) /\ Len(recs) \in Nat
      BY <1>1, <3>2 DEF Sound
    <3>6. last <= n
      <4>1. SUFFICES ASSUME n < last PROVE FALSE
        OBVIOUS
      <4>2. last <= Len(recs)
        BY <3>3, <3>5, CollectorAssumption
      <4>3. Len(SubSeq(recs, n + 1, last)) = last - (n + 1) + 1
        BY <3>5, <4>1, <4>2, SubSeqProperties
      <4> QED
        BY <3>4, <4>1, <4>3
    <3>7. n = Len(recs)
      BY <3>3, <3>5, <3>6, CollectorAssumption
    <3>8. DOMAIN recs = 1..Len(recs) /\ \A i \in 1..n : Judged(recs[i])
      BY <1>1, <3>2 DEF Sound
    <3> QED
      BY <3>2, <3>7, <3>8 DEF AllJudged
  <2>5. TodoIsSound(h)
    BY <1>1, <1>2, <2>3 DEF TodoIsSound, GoesOn
  <2>6. VisitIsSound(h)
    BY <1>1, <1>2, <2>3, <2>4 DEF VisitIsSound
  <2> QED
    BY <2>2, <2>5, <2>6
<1> QED
  BY <1>3, <1>4

\* Another attempt, or the end of the cycle.
LEMMA RetryKeepsOrder ==
  ASSUME DeliveryInv, TodoIsSound(ship), VisitIsSound(ship), ship.pc \in {"send", "wait"}, RetryOrGiveUp
  PROVE  TodoIsSound(ship') /\ VisitIsSound(ship')
<1>1. CASE ship' = AtRest
  BY <1>1, IdleIsInOrder
<1>2. CASE ship' # AtRest
  <2>1. PICK tries : tries = ship.tries + 1
    OBVIOUS
  <2>2. PICK h : h = [ship EXCEPT !.pc = "send", !.tries = tries, !.conn = NoConn]
    OBVIOUS
  <2>3. ship' = h
    BY <1>2, <2>1, <2>2 DEF RetryOrGiveUp
  <2>4. /\ h.pc = "send" /\ h.path = ship.path /\ h.todo = ship.todo
        /\ h.stop = ship.stop /\ h.batches = ship.batches
    BY <2>2 DEF DeliveryInv, ShipIsSound, ShipStates
  <2>5. TodoIsSound(h) /\ VisitIsSound(h)
    BY <2>4 DEF TodoIsSound, VisitIsSound, GoesOn, Visiting
  <2> QED
    BY <2>3, <2>5
<1> QED
  BY <1>1, <1>2

\* The visit of a segment is over.
LEMMA LeaveIsSound ==
  ASSUME DeliveryInv, TodoIsSound(ship), VisitIsSound(ship), SaveDisposal \/ KeepSegment
  PROVE  TodoIsSound(ship') /\ VisitIsSound(ship')
<1>1. PICK h : h = [ship EXCEPT !.pc = "next", !.path = NoPath]
  OBVIOUS
<1>2. /\ ship' = h /\ ship.pc \in {"gone", "finish"} /\ ship.pc \in Visiting
      /\ ship.path[1] \in Segs
  BY <1>1 DEF SaveDisposal, KeepSegment, Visiting, DeliveryInv, ShipIsSound
<1>3. h.pc = "next" /\ h.todo = ship.todo /\ h.stop = ship.stop /\ h.batches = ship.batches
  BY <1>1 DEF DeliveryInv, ShipIsSound, ShipStates
<1>4. ASSUME GoesOn(h), NEW a \in h.todo, Before(ship.path[1], a[1])
      PROVE  AllJudged(ship.path[1])
  <2>1. CASE ship.pc = "gone"
    BY <1>2, <2>1, GoneIsJudged DEF VisitIsSound
  <2>2. CASE ship.pc = "finish"
    BY <1>3, <1>4, <2>2 DEF VisitIsSound, GoesOn
  <2> QED
    BY <1>2, <2>1, <2>2
<1>5. TodoIsSound(h)
  BY <1>2, <1>3, <1>4 DEF TodoIsSound, GoesOn
<1>6. VisitIsSound(h)
  BY <1>3 DEF VisitIsSound, Visiting
<1> QED
  BY <1>2, <1>5, <1>6

LEMMA AloneIsInOrder ==
  ASSUME DeliveryInv, TodoIsSound(ship), VisitIsSound(ship), ShipperAlone
  PROVE  TodoIsSound(ship') /\ VisitIsSound(ship')
<1>1. ship \in ShipStates
  BY DEF DeliveryInv, ShipIsSound
<1>2. CASE Launch \/ Exit \/ EndCycle \/ SpoolIoError \/ ShipperCrash
  BY <1>2, IdleIsInOrder DEF Launch, Exit, EndCycle, SpoolIoError, ShipperCrash
<1>3. CASE RequestStop
  <2>1. PICK h : h = [ship EXCEPT !.stop = TRUE]
    OBVIOUS
  <2>2. ship' = h
    BY <1>3, <2>1 DEF RequestStop
  <2>3. h.stop = TRUE /\ h.pc = ship.pc /\ h.path = ship.path /\ h.todo = ship.todo /\ h.batches = ship.batches
    BY <1>1, <2>1 DEF ShipStates
  <2>4. TodoIsSound(h) /\ VisitIsSound(h)
    BY <2>3 DEF TodoIsSound, VisitIsSound, GoesOn
  <2> QED
    BY <2>2, <2>4
<1>4. CASE StartCycle
  <2>1. PICK listing : listing = Listing
    OBVIOUS
  <2>2. PICK h : h = [ship EXCEPT !.pc = "scan", !.mem = checkpoint, !.todo = listing]
    OBVIOUS
  <2>3. ship' = h
    BY <1>4, <2>1, <2>2 DEF StartCycle
  <2>4. h.pc = "scan" /\ h.todo = Listing
    BY <1>1, <2>1, <2>2 DEF ShipStates
  <2> QED
    BY <2>3, <2>4, ListingIsSound
<1>5. CASE ScanPaths
  <2>1. PICK todo, mem :
          /\ todo = {path \in ship.todo \cap Listing : path[2] # "rejected"}
          /\ mem = [s \in Segs |-> IF \E path \in todo : path[1] = s THEN ship.mem[s] ELSE NoProgress]
    OBVIOUS
  <2>2. PICK h : h = [ship EXCEPT !.pc = "next", !.todo = todo, !.mem = mem]
    OBVIOUS
  <2>3. ship' \in {NoShip, h} /\ ship.pc = "scan"
    BY <1>5, <2>1, <2>2 DEF ScanPaths
  <2>4. h.pc = "next" /\ h.todo = todo /\ h.stop = ship.stop /\ h.batches = ship.batches
    BY <1>1, <2>2 DEF ShipStates
  <2>5. TodoIsSound(h) /\ VisitIsSound(h)
    BY <2>1, <2>3, <2>4, ScanIsSound
  <2> QED
    BY <2>3, <2>5, IdleIsInOrder
<1>6. CASE OpenPath
  <2>1. PICK path : path = First(ship.todo)
    OBVIOUS
  <2>2. PICK todo : todo = ship.todo \ {path}
    OBVIOUS
  <2>3. PICK h : h = [ship EXCEPT !.pc = "read", !.path = path, !.todo = todo]
    OBVIOUS
  <2>4. /\ ship' \in {AtRest, h}
        /\ ship.pc = "next" /\ ship.todo # {} /\ ship.batches < MaxBatches
    BY <1>6, <2>1, <2>2, <2>3 DEF OpenPath
  <2>5. h.pc = "read" /\ h.path = path /\ h.todo = todo /\ h.stop = ship.stop /\ h.batches = ship.batches
    BY <1>1, <2>3 DEF ShipStates
  <2>6. TodoIsSound(h) /\ VisitIsSound(h)
    BY <2>1, <2>2, <2>4, <2>5, OpenIsSound
  <2> QED
    BY <2>4, <2>6, IdleIsInOrder
<1>7. CASE ReadChunk
  BY <1>7, ReadIsSound
<1>8. CASE SendFails \/ ConnectionBroken \/ RequestTimeout
  BY <1>8, RetryKeepsOrder DEF SendFails, ConnectionBroken, RequestTimeout
<1>9. CASE SaveAck
  <2>1. PICK h : h = [ship EXCEPT !.pc = "read"]
    OBVIOUS
  <2>2. ship' = h /\ ship.pc = "acked"
    BY <1>9, <2>1 DEF SaveAck
  <2>3. h.pc = "read" /\ h.path = ship.path /\ h.todo = ship.todo /\ h.stop = ship.stop /\ h.batches = ship.batches
    BY <1>1, <2>1 DEF ShipStates
  <2>4. TodoIsSound(h) /\ VisitIsSound(h)
    BY <2>2, <2>3 DEF TodoIsSound, VisitIsSound, GoesOn, Visiting
  <2> QED
    BY <2>2, <2>4
<1>10. CASE SaveDisposal \/ KeepSegment
  BY <1>10, LeaveIsSound
<1> QED
  BY <1>2, <1>3, <1>4, <1>5, <1>6, <1>7, <1>8, <1>9, <1>10 DEF ShipperAlone

\* A step of the shipper that adds no evidence and moves no file.
LEMMA ShipperKeepsOrder ==
  ASSUME DeliveryInv, OrderInv, UNCHANGED spoolVars, UNCHANGED evidence,
         TodoIsSound(ship'), VisitIsSound(ship'),
         \A c \in Conns : conn'[c].pc # "idle" =>
           KeepsRequest(c) \/ \E t \in Segs, off \in Nat : Follows(conn'[c].req.body, t, off)
  PROVE  OrderInv'
<1>1. UNCHANGED <<segs, sink, fate, evidence>> /\ EvidenceKept
  BY DEF spoolVars, EvidenceKept
<1>2. Goes /\ OpenIsLast' /\ RecordsAreUnique'
  BY <1>1, SpoolStandsStill
<1>3. StoredIsCaptured' /\ StoredInOrder'
  BY <1>1 DEF OrderInv, StoredIsCaptured, StoredInOrder, Earlier, Judged, Refusable, Stored
<1>4. TodoIsSound(ship)' /\ VisitIsSound(ship)'
  <2>1. \A s : (AllJudged(s)' <=> AllJudged(s)) /\ (Existed(s)' <=> Existed(s)) /\ Path(s)' = Path(s)
    BY <1>1 DEF Existed, AllJudged, Judged, Refusable, Stored, Path
  <2>2. \A s : EarlierJudged(s)' <=> EarlierJudged(s)
    BY <2>1 DEF EarlierJudged, Before
  <2>3. PICK h : h = ship'
    OBVIOUS
  <2>4. TodoIsSound(h) /\ VisitIsSound(h)
    BY <2>3
  <2>5. TodoIsSound(h)'
    BY <2>1, <2>4 DEF TodoIsSound, GoesOn, Before
  <2>6. VisitIsSound(h)'
    BY <1>1, <2>1, <2>2, <2>4 DEF VisitIsSound, GoesOn, Before
  <2> QED
    BY <2>3, <2>5, <2>6 DEF TodoIsSound, VisitIsSound, GoesOn
<1>5. ASSUME NEW c \in Conns, conn'[c].pc # "idle"
      PROVE  \E t \in Segs, off \in Nat : Follows(conn[c].req.body, t, off)'
  <2>1. CASE KeepsRequest(c)
    BY <1>2, <1>5, <2>1, BatchesStayInOrder DEF DeliveryInv, OrderInv
  <2>2. CASE ~KeepsRequest(c)
    <3>1. PICK t \in Segs, off \in Nat : Follows(conn'[c].req.body, t, off)
      BY SMTT(30), <1>5, <2>2
    <3>2. Follows(conn[c].req.body, t, off)'
      BY <1>1, <3>1 DEF Follows, Existed, EarlierJudged, AllJudged, Judged, Refusable, Stored, Before
    <3> QED
      BY <3>2
  <2> QED
    BY <2>1, <2>2
<1>6. BatchesAreInOrder'
  BY <1>5 DEF BatchesAreInOrder
<1> QED
  BY <1>2, <1>3, <1>4, <1>6 DEF OrderInv

LEMMA AloneKeepsOrder == ASSUME DeliveryInv, OrderInv, ShipperAlone PROVE OrderInv'
<1>1. UNCHANGED spoolVars /\ UNCHANGED evidence /\ UNCHANGED conn
  BY DEF ShipperAlone, spoolVars
<1>2. TodoIsSound(ship') /\ VisitIsSound(ship')
  BY AloneIsInOrder DEF OrderInv
<1>3. \A c \in Conns : KeepsRequest(c)
  BY <1>1 DEF KeepsRequest
<1> QED
  BY <1>1, <1>2, <1>3, ShipperKeepsOrder

\* The batch that is sent is what follows the judged part of the file.
LEMMA SendKeepsOrder ==
  ASSUME DeliveryInv, OrderInv, NEW c \in Conns, SendBatch(c), UNCHANGED spoolVars
  PROVE  OrderInv'
<1>1. PICK t, off, body : t = ship.path[1] /\ off = ship.mem[t].off /\ body = ship.chunk
  OBVIOUS
<1>2. /\ ship \in ShipStates /\ ship.pc = "send" /\ t \in Segs /\ off \in Nat /\ ship.mem[t] \in Progress
      /\ Sound(ship.mem[t], segs[t].recs) /\ IsChunk(body, ship.mem[t], t)
  BY <1>1 DEF SendBatch, DeliveryInv, ShipIsSound, ShipStates, ProgressIsSound, Progress
<1>3. Existed(t) /\ EarlierJudged(t)
  BY SMTT(30), <1>1, <1>2 DEF OrderInv, VisitIsSound, Visiting
<1>4. Follows(body, t, off)
  BY <1>1, <1>2, <1>3 DEF Follows, IsChunk, Sound
<1>5. conn \in [Conns -> ConnStates]
  BY DEF DeliveryInv, CollectorInv, CollectorTypeOK
<1>6. PICK req : req = BatchRequest /\ req.body = body
  <2>1. BatchRequest.body = ship.chunk
    BY DEF BatchRequest
  <2> QED
    BY <1>1, <2>1
<1>7. conn'[c].req = req /\ \A d \in Conns : d # c => conn'[d] = conn[d]
  BY <1>5, <1>6 DEF SendBatch, Arrive, ConnStates
<1>8. PICK h : h = [ship EXCEPT !.pc = "wait", !.conn = c]
  OBVIOUS
<1>9. /\ ship' = h /\ h.pc = "wait" /\ h.path = ship.path /\ h.todo = ship.todo
      /\ h.stop = ship.stop /\ h.batches = ship.batches
  BY <1>2, <1>8 DEF SendBatch, ShipStates
<1>10. TodoIsSound(h) /\ VisitIsSound(h)
  BY <1>2, <1>9 DEF OrderInv, TodoIsSound, VisitIsSound, GoesOn, Visiting
<1>11. \A d \in Conns : KeepsRequest(d) \/ Follows(conn'[d].req.body, t, off)
  BY <1>4, <1>6, <1>7 DEF KeepsRequest
<1>12. UNCHANGED evidence
  BY DEF SendBatch, Arrive
<1> QED
  BY <1>2, <1>9, <1>10, <1>11, <1>12, ShipperKeepsOrder

\* An answer ends the attempt; the files before are judged as they were.
LEMMA AnswerKeepsOrder ==
  ASSUME DeliveryInv, OrderInv, ReceiveRefusal \/ ReceiveAck, UNCHANGED spoolVars
  PROVE  OrderInv'
<1>1. /\ ship \in ShipStates /\ ship.pc = "wait" /\ ship.conn \in Conns /\ Respond(ship.conn)
  BY DEF ReceiveRefusal, ReceiveAck, DeliveryInv, ShipIsSound, Awaits
<1>2. UNCHANGED evidence /\ \A c \in Conns : KeepsRequest(c)
  BY <1>1, HandlerKeepsRequest DEF Respond, DeliveryInv
<1>3. TodoIsSound(ship') /\ VisitIsSound(ship')
  <2>1. CASE ship' = NoShip
    BY <2>1, IdleIsInOrder
  <2>2. CASE RetryOrGiveUp
    BY <1>1, <2>2, RetryKeepsOrder DEF OrderInv
  <2>3. CASE ReceiveAck
    <3>1. PICK batches, mem :
            ship' = [ship EXCEPT !.pc = "acked", !.batches = batches, !.mem = mem, !.chunk = <<>>,
                                 !.tries = 0, !.conn = NoConn]
            /\ batches = ship.batches + 1
      <4> DEFINE s == ship.path[1]
                 rejected == \E i \in DOMAIN conn[ship.conn].results : conn[ship.conn].results[i] # "accepted"
                 mem == [ship.mem EXCEPT ![s] = [off |-> ship.mem[s].off + Len(ship.chunk),
                                                 rej |-> ship.mem[s].rej \/ rejected]]
      <4>1. ship' = [ship EXCEPT !.pc = "acked", !.batches = ship.batches + 1, !.mem = mem, !.chunk = <<>>,
                                 !.tries = 0, !.conn = NoConn]
        BY <2>3, <1>1 DEF ReceiveAck, ShipStates
      <4> QED
        BY <4>1
    <3>2. PICK h : h = [ship EXCEPT !.pc = "acked", !.batches = batches, !.mem = mem, !.chunk = <<>>,
                                    !.tries = 0, !.conn = NoConn]
      OBVIOUS
    <3>3. h.pc = "acked" /\ h.path = ship.path /\ h.todo = ship.todo /\ h.stop = ship.stop /\ h.batches = batches
      BY <1>1, <3>2 DEF ShipStates
    <3>4. batches < MaxBatches => ship.batches < MaxBatches
      BY <1>1, <3>1, ShipperAssumption DEF ShipStates
    <3>5. TodoIsSound(h) /\ VisitIsSound(h)
      BY <1>1, <3>3, <3>4 DEF OrderInv, TodoIsSound, VisitIsSound, GoesOn, Visiting
    <3> QED
      BY SMTT(30), <3>1, <3>2, <3>5
  <2> QED
    BY <2>1, <2>2, <2>3 DEF ReceiveRefusal
<1> QED
  BY <1>2, <1>3, ShipperKeepsOrder

\* The file that is disposed of keeps its place, under another name.
LEMMA DisposeKeepsOrder == ASSUME DeliveryInv, OrderInv, ShipperDisposes PROVE OrderInv'
<1>1. PICK s : s = ship.path[1]
  OBVIOUS
<1>2. /\ ship \in ShipStates /\ ship.pc = "finish" /\ s \in Segs
      /\ UNCHANGED <<evidence, conn>>
  BY <1>1 DEF ShipperDisposes, DisposeSegment, DeliveryInv, ShipIsSound, collectorVars
<1>3. PICK life \in {"deleted", "rejected"} :
        /\ segs[s].life = "jsonl" /\ segs' = [segs EXCEPT ![s] = [segs[s] EXCEPT !.life = life]]
        /\ UNCHANGED <<sink, fate>>
  <2>1. segs[s].life = "jsonl" /\ UNCHANGED <<sink, fate>>
    BY <1>1 DEF ShipperDisposes, DisposeSegment, ShipperQuarantine, ShipperDelete
  <2>2. \/ segs' = [segs EXCEPT ![s] = [segs[s] EXCEPT !.life = "deleted"]]
        \/ segs' = [segs EXCEPT ![s] = [segs[s] EXCEPT !.life = "rejected"]]
    BY <1>1, <1>2 DEF ShipperDisposes, DisposeSegment, ShipperQuarantine, ShipperDelete, DeliveryInv, SpoolInv
  <2> QED
    BY <2>1, <2>2
<1>4. /\ segs \in [Segs -> FileStates] /\ segs' \in [Segs -> FileStates]
      /\ segs'[s].life = life /\ segs'[s].recs = segs[s].recs
      /\ \A t \in Segs : t # s => segs'[t] = segs[t]
  BY <1>2, <1>3 DEF DeliveryInv, SpoolInv, FileStates, Lives, OnDisk
<1>5. \A t \in Segs : segs'[t].recs = segs[t].recs /\ (Existed(t) => Existed(t)')
  BY <1>3, <1>4 DEF Existed
<1>6. Goes
  BY <1>2, <1>4, <1>5 DEF Goes, FilesGrow, FilesClose, EvidenceKept
<1>7. OpenIsLast' /\ RecordsAreUnique' /\ StoredIsCaptured' /\ StoredInOrder'
  <2>1. OpenIsLast'
    BY <1>3 DEF OrderInv, OpenIsLast
  <2>2. RecordsAreUnique'
    BY <1>3, <1>5 DEF OrderInv, RecordsAreUnique
  <2>3. StoredIsCaptured'
    BY <1>2, <1>3 DEF OrderInv, StoredIsCaptured, Stored
  <2>4. StoredInOrder'
    BY <1>2, <1>5 DEF OrderInv, StoredInOrder, Earlier, Judged, Refusable, Stored
  <2> QED
    BY <2>1, <2>2, <2>3, <2>4
<1>8. PICK old \in ShipStates : old = ship
  BY <1>2
<1>9. TodoIsSound(old)' /\ VisitIsSound(old)'
  BY <1>1, <1>2, <1>6, <1>8, VisitStays DEF OrderInv
<1>10. PICK mem : mem = [ship.mem EXCEPT ![s] = NoProgress]
  OBVIOUS
<1>11. PICK h : h = [ship EXCEPT !.pc = "gone", !.mem = mem]
  OBVIOUS
<1>12. ship' = h
  BY <1>1, <1>10, <1>11 DEF ShipperDisposes, DisposeSegment
<1>13. h.pc = "gone" /\ h.path = old.path /\ h.todo = old.todo /\ h.stop = old.stop /\ h.batches = old.batches
  BY <1>2, <1>8, <1>11 DEF ShipStates
<1>14. TodoIsSound(h)'
  BY <1>2, <1>8, <1>9, <1>13 DEF TodoIsSound, GoesOn, Visiting
<1>15. VisitIsSound(h)'
  BY <1>1, <1>2, <1>3, <1>4, <1>8, <1>9, <1>13 DEF VisitIsSound, Visiting
<1>16. TodoIsSound(ship)' /\ VisitIsSound(ship)'
  BY <1>12, <1>14, <1>15 DEF TodoIsSound, VisitIsSound, GoesOn
<1>17. BatchesAreInOrder'
  <2>1. ASSUME NEW c \in Conns, conn'[c].pc # "idle"
        PROVE  \E t \in Segs, off \in Nat : Follows(conn[c].req.body, t, off)'
    BY <1>2, <1>6, <2>1, BatchesStayInOrder DEF DeliveryInv, OrderInv, KeepsRequest
  <2> QED
    BY <2>1 DEF BatchesAreInOrder
<1> QED
  BY <1>7, <1>16, <1>17 DEF OrderInv

LEMMA OrderInit == Init => OrderInv
<1> SUFFICES ASSUME Init PROVE OrderInv
  OBVIOUS
<1>1. /\ \A s \in Segs : segs[s] = NoFile
      /\ \A p \in Procs : sink[p] = NoSink
      /\ \A c \in Conns : conn[c] = Quiet
      /\ \A e \in Identities : evidence[e] = NoRec
      /\ ship = NoShip
  BY DEF Init, InitSpool, InitCollector, InitShipper
<1>2. \A r \in Records : ~Stored(r)
  BY <1>1, RecordAssumption DEF Stored
<1>3. \A s \in Segs : segs[s].recs = <<>>
  BY <1>1 DEF NoFile
<1>4. OpenIsLast
  BY <1>1 DEF OpenIsLast, NoSink
<1>5. RecordsAreUnique /\ StoredIsCaptured /\ StoredInOrder
  BY <1>2, <1>3 DEF RecordsAreUnique, StoredIsCaptured, StoredInOrder
<1>6. TodoIsSound(ship) /\ VisitIsSound(ship)
  <2>1. ship.todo = {} /\ ship.pc = "down"
    BY <1>1 DEF NoShip
  <2> QED
    BY <2>1, RestIsInOrder
<1>7. BatchesAreInOrder
  BY <1>1 DEF BatchesAreInOrder, Quiet
<1> QED
  BY <1>4, <1>5, <1>6, <1>7 DEF OrderInv

LEMMA OrderStep == DeliveryInv /\ OrderInv /\ [Next]_vars => OrderInv'
<1>1. ASSUME DeliveryInv, OrderInv, ShipperTalks PROVE OrderInv'
  <2>1. UNCHANGED spoolVars
    BY <1>1 DEF ShipperTalks, spoolVars
  <2> QED
    BY <1>1, <2>1, SendKeepsOrder, AnswerKeepsOrder DEF ShipperTalks
<1>2. ASSUME DeliveryInv, OrderInv, UNCHANGED vars PROVE OrderInv'
  <2>1. UNCHANGED spoolVars /\ UNCHANGED <<evidence, conn, ship>>
    BY <1>2 DEF vars, spoolVars
  <2>2. TodoIsSound(ship') /\ VisitIsSound(ship')
    BY <1>2, <2>1 DEF OrderInv
  <2>3. \A c \in Conns : KeepsRequest(c)
    BY <2>1 DEF KeepsRequest
  <2> QED
    BY <1>2, <2>1, <2>2, <2>3, ShipperKeepsOrder
<1> QED
  BY <1>1, <1>2, ProducerKeepsOrder, CollectorKeepsOrder, AloneKeepsOrder, DisposeKeepsOrder DEF Next

\* What the order of storage rests on: how far each process has got with its files, and which of
\* them the shipper has judged, may send, or still has to visit.
THEOREM OrderInvariant == Spec => []OrderInv
BY DeliveryInvariant, OrderInit, OrderStep, PTL DEF Spec

\* Central storage sees the records of a producer in the order in which they were captured, although
\* segments are sealed while they are listed and read, handlers go on for clients that are gone, and
\* the shipper leaves a segment for the next one in the middle of a cycle.
THEOREM StorageIsInOrder == Spec => []DeliveredInOrder
<1>1. DeliveryInv /\ OrderInv => DeliveredInOrder
  BY DEF DeliveryInv, OrderInv, CollectorInv, ShipIsSound, CheckpointIsSound, ShipperTypeOK, TypeOK,
         DeliveredInOrder
<1> QED
  BY <1>1, DeliveryInvariant, OrderInvariant, PTL

===============================================================================
