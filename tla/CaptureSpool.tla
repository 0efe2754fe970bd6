----------------------------- MODULE CaptureSpool -----------------------------
(***************************************************************************)
(* The producer side of the file transport: FileCaptureSink of             *)
(* agent_transport.py and the spool directory it shares with the shipper.  *)
(*                                                                         *)
(* A sink appends capture records to the one segment it owns, rotates it   *)
(* when it is full, and refuses a record when the directory quota is used  *)
(* up.  A segment is named by its producer id and a sequence number and    *)
(* carries its lifecycle in the file suffix: .open while it is written,    *)
(* .jsonl once sealed, .rejected once the shipper has quarantined it.      *)
(*                                                                         *)
(* A process is named by its producer id, which is drawn afresh for every  *)
(* process and after every fork, so a restarted or forked process is a new *)
(* member of Procs.  Files are sequences of complete records, followed by  *)
(* `torn' bytes of a record that is not completely written.                *)
(***************************************************************************)
EXTENDS CaptureRecords, FiniteSets

CONSTANTS
  Procs,           \* producer processes, each with a producer id of its own
  SegmentBytes,    \* segment_bytes
  DirectoryBytes,  \* directory_bytes
  MaxSegments,     \* bound: segments one process may open
  SharedSpool      \* may two live processes use one directory (a fork)?

ASSUME SpoolAssumption ==
  /\ SegmentBytes \in Nat /\ DirectoryBytes \in Nat
  /\ MaxRecordBytes < SegmentBytes
  /\ SegmentBytes <= DirectoryBytes
  /\ MaxSegments \in Nat
  /\ SharedSpool \in BOOLEAN

ASSUME ProcsAssumption == IsFiniteSet(Procs)

VARIABLES
  segs,   \* segs[s]: the file of segment s; "deleted" keeps what it held
  sink,   \* sink[p]: the FileCaptureSink object of process p
  fate    \* fate[r]: what became of the append of record r

spoolVars == <<segs, sink, fate>>

Segs == Procs \X (0..MaxSegments-1)

OnDisk == {"open", "jsonl", "rejected"}
Lives == OnDisk \cup {"absent", "deleted"}

\* No file is open.
NoSeg == <<>>

NoFile == [life |-> "absent", recs |-> <<>>, torn |-> 0, bytes |-> 0]

\* A sink that does not exist: its process has not started, or is dead.
NoSink == [pc |-> "down", rec |-> NoRec, seg |-> NoSeg, next |-> 0,
           size |-> 0, dirSize |-> 0, listed |-> {}]

SinkStates ==
  [pc : {"down", "scan", "stat", "idle", "place", "write"},
   rec : Records \cup {NoRec}, seg : Segs \cup {NoSeg}, next : 0..MaxSegments,
   size : Nat, dirSize : Nat, listed : SUBSET (Segs \X OnDisk)]

SpoolTypeOK ==
  /\ segs \in [Segs -> [life : Lives, recs : Seq(Records), torn : Nat, bytes : Nat]]
  /\ sink \in [Procs -> SinkStates]
  /\ fate \in [Records -> {"new", "pending", "captured", "refused", "failed"}]

---------------------------------------------------------------------------
\* Directory listing and sizes.

Path(s) == <<s, segs[s].life>>

\* The names one scan of the directory returns.
Listing == {Path(s) : s \in {t \in Segs : segs[t].life \in OnDisk}}

\* How many bytes files have together; a byte is a place in a file.
BytesOf(files) == Cardinality(UNION {{s} \X (1..segs[s].bytes) : s \in files})

\* Bytes of the listed names that still exist: a name that is gone is skipped.
StatBytes(listed) == BytesOf({s \in Segs : Path(s) \in listed})

BytesWith(lives) == BytesOf({s \in Segs : segs[s].life \in lives})

---------------------------------------------------------------------------
\* Faulty variants of the actions below.

\* So does the quota.
BeginAppendUnweighed(p, r) ==
  /\ sink[p].pc = "idle"
  /\ fate[r] = "new"
  /\ sink' = [sink EXCEPT ![p].rec = r,
                ![p].pc = IF sink[p].dirSize > DirectoryBytes THEN "scan" ELSE "place"]
  /\ fate' = [fate EXCEPT ![r] = "pending"]
  /\ UNCHANGED segs

\* A short write is taken for a complete one.
WriteOnce(p, n) ==
  LET s == sink[p].seg
  IN /\ sink[p].pc = "write"
     /\ segs[s].torn = 0
     /\ n < Size[sink[p].rec]
     /\ segs' = [segs EXCEPT ![s].torn = n, ![s].bytes = @ + n]
     /\ sink' = [sink EXCEPT ![p].pc = "idle", ![p].rec = NoRec]
     /\ fate' = [fate EXCEPT ![sink[p].rec] = "captured"]

\* A forked child goes on with its parent's sink.
StartInherited(p) ==
  /\ sink[p] = NoSink
  /\ \/ /\ \A q \in Procs : sink[q].pc = "down"
        /\ sink' = [sink EXCEPT ![p] = [NoSink EXCEPT !.pc = "scan"]]
     \/ \E q \in Procs : sink[q].pc = "idle" /\ sink' = [sink EXCEPT ![p] = sink[q]]
  /\ UNCHANGED <<segs, fate>>

---------------------------------------------------------------------------
\* Processes.

InitSpool ==
  /\ segs = [s \in Segs |-> NoFile]
  /\ sink = [p \in Procs |-> NoSink]
  /\ fate = [r \in Records |-> "new"]

\* A producer id is used by one process only: a process starts once.
Unused(p) == sink[p] = NoSink /\ \A n \in 0..MaxSegments-1 : segs[<<p, n>>] = NoFile

\* __init__, or the first use after a fork: _reset_process_file draws a new
\* producer id, counts segments from zero and measures the directory.
Start(p) ==
  /\ Unused(p)
  /\ SharedSpool \/ \A q \in Procs : sink[q].pc = "down"
  /\ sink' = [sink EXCEPT ![p] = [NoSink EXCEPT !.pc = "scan"]]
  /\ UNCHANGED <<segs, fate>>

\* The process dies; what it wrote stays in its .open segment.
ProducerCrash(p) ==
  /\ sink[p].pc # "down"
  /\ sink' = [sink EXCEPT ![p] = NoSink]
  /\ fate' = [r \in Records |-> IF r = sink[p].rec THEN "failed" ELSE fate[r]]
  /\ UNCHANGED segs

---------------------------------------------------------------------------
\* _append, under the sink's lock: one record at a time per process.

\* The quota is first checked against the size the sink remembers.
BeginAppend(p, r) ==
  /\ sink[p].pc = "idle"
  /\ fate[r] = "new"
  /\ sink' = [sink EXCEPT ![p].rec = r,
                ![p].pc = IF sink[p].dirSize + Size[r] > DirectoryBytes
                          THEN "scan" ELSE "place"]
  /\ fate' = [fate EXCEPT ![r] = "pending"]
  /\ UNCHANGED segs

\* _current_directory_size: list the names, then stat them one by one.
ScanDirectory(p) ==
  /\ sink[p].pc = "scan"
  /\ sink' = [sink EXCEPT ![p].pc = "stat", ![p].listed = Listing]
  /\ UNCHANGED <<segs, fate>>

\* The measured size replaces the remembered one.  A sink that was only
\* starting is ready; one with a record in hand checks the quota again.
StatDirectory(p) ==
  LET size == StatBytes(sink[p].listed)
      r == sink[p].rec
      over == r # NoRec /\ size + Size[r] > DirectoryBytes
  IN /\ sink[p].pc = "stat"
     /\ sink' = [sink EXCEPT ![p].listed = {}, ![p].dirSize = size,
                   ![p].pc = IF r = NoRec \/ over THEN "idle" ELSE "place",
                   ![p].rec = IF over THEN NoRec ELSE r]
     /\ fate' = [x \in Records |-> IF over /\ x = r THEN "refused" ELSE fate[x]]
     /\ UNCHANGED segs

\* _seal_segment: a segment is renamed, or removed when it is empty.
Sealed(file, size) ==
  [file EXCEPT !.life = IF size = 0 THEN "deleted" ELSE "jsonl"]

Fits(p) == sink[p].size = 0 \/ sink[p].size + Size[sink[p].rec] <= SegmentBytes

\* The record goes to the current segment, or to a new one after the current
\* one, if any, has been sealed because the record does not fit.
PlaceRecord(p) ==
  LET cur == sink[p].seg
      new == <<p, sink[p].next>>
  IN /\ sink[p].pc = "place"
     /\ IF cur # NoSeg /\ Fits(p)
        THEN /\ sink' = [sink EXCEPT ![p].pc = "write"]
             /\ UNCHANGED segs
        ELSE /\ sink[p].next < MaxSegments
             /\ sink' = [sink EXCEPT ![p].pc = "write", ![p].seg = new,
                           ![p].next = @ + 1, ![p].size = 0]
             /\ segs' = [s \in Segs |->
                  CASE s = new -> [NoFile EXCEPT !.life = "open"]
                    [] s = cur -> Sealed(segs[s], sink[p].size)
                    [] OTHER   -> segs[s]]
     /\ UNCHANGED fate

\* Sealing fails, which leaves the full segment .open for ever, or the new
\* segment cannot be created; the next record opens another one.
PlaceFails(p) ==
  LET cur == sink[p].seg
      Ready(next) == [sink EXCEPT ![p].pc = "idle", ![p].rec = NoRec, ![p].seg = NoSeg,
                                  ![p].next = next]
  IN /\ sink[p].pc = "place"
     /\ cur = NoSeg \/ ~Fits(p)
     /\ \/ /\ cur # NoSeg
           /\ sink' = Ready(sink[p].next)
           /\ UNCHANGED segs
        \/ /\ sink[p].next < MaxSegments
           /\ sink' = Ready(sink[p].next + 1)
           /\ segs' = [s \in Segs |-> IF s = cur THEN Sealed(segs[s], sink[p].size)
                                                ELSE segs[s]]
     /\ fate' = [fate EXCEPT ![sink[p].rec] = "failed"]

\* write() accepts only some bytes of the record; the loop continues.
WriteSome(p, n) ==
  LET s == sink[p].seg
  IN /\ sink[p].pc = "write"
     /\ segs[s].torn = 0
     /\ n < Size[sink[p].rec]
     /\ segs' = [segs EXCEPT ![s].torn = n, ![s].bytes = @ + n]
     /\ UNCHANGED <<sink, fate>>

\* The last byte of the record is accepted and the sizes are advanced.
WriteRest(p) ==
  LET s == sink[p].seg
      r == sink[p].rec
  IN /\ sink[p].pc = "write"
     /\ segs' = [segs EXCEPT ![s].recs = Append(@, r), ![s].torn = 0,
                             ![s].bytes = @ - segs[s].torn + Size[r]]
     /\ sink' = [sink EXCEPT ![p].pc = "idle", ![p].rec = NoRec,
                             ![p].size = @ + Size[r], ![p].dirSize = @ + Size[r]]
     /\ fate' = [fate EXCEPT ![r] = "captured"]

\* The write fails: the sink counts what was written and abandons the
\* segment, removing it only when it is still empty.
WriteFail(p) ==
  LET s == sink[p].seg
      size == sink[p].size + segs[s].torn
  IN /\ sink[p].pc = "write"
     /\ segs' = [segs EXCEPT ![s].life = IF size = 0 THEN "deleted" ELSE @]
     /\ sink' = [sink EXCEPT ![p].pc = "idle", ![p].rec = NoRec, ![p].seg = NoSeg,
                             ![p].size = size, ![p].dirSize = @ + segs[s].torn]
     /\ fate' = [fate EXCEPT ![sink[p].rec] = "failed"]

\* close(): the current segment is sealed, unless the rename fails; a later
\* append opens a new one.
Close(p) ==
  /\ sink[p].pc = "idle"
  /\ sink[p].seg # NoSeg
  /\ \/ segs' = [segs EXCEPT ![sink[p].seg] = Sealed(@, sink[p].size)]
     \/ UNCHANGED segs
  /\ sink' = [sink EXCEPT ![p].seg = NoSeg]
  /\ UNCHANGED fate

---------------------------------------------------------------------------
\* What the shipper may do to the directory (SegmentShipper refines this).

ShipperDelete(s) ==
  /\ segs[s].life = "jsonl"
  /\ segs' = [segs EXCEPT ![s].life = "deleted"]
  /\ UNCHANGED <<sink, fate>>

ShipperQuarantine(s) ==
  /\ segs[s].life = "jsonl"
  /\ segs' = [segs EXCEPT ![s].life = "rejected"]
  /\ UNCHANGED <<sink, fate>>

---------------------------------------------------------------------------
\* What a process does while nothing fails, and the failures.
ProducerWorks(p) ==
  \/ Start(p)
  \/ \E r \in Records : BeginAppend(p, r)
  \/ ScanDirectory(p)
  \/ StatDirectory(p)
  \/ PlaceRecord(p)
  \/ \E n \in 1..MaxRecordBytes : WriteSome(p, n)
  \/ WriteRest(p)
  \/ Close(p)

ProducerFails(p) == ProducerCrash(p) \/ PlaceFails(p) \/ WriteFail(p)

Producer == \E p \in Procs : ProducerWorks(p) \/ ProducerFails(p)

NextSpool == Producer \/ \E s \in Segs : ShipperDelete(s) \/ ShipperQuarantine(s)

SpoolSpec == InitSpool /\ [][NextSpool]_spoolVars

---------------------------------------------------------------------------
\* Properties.

\* No file outgrows segment_bytes: rotation happens before the write that
\* would cross the limit, whatever failed or was torn before it.
SegmentBound == \A s \in Segs : segs[s].bytes <= SegmentBytes

\* What waits to be shipped stays within directory_bytes across restarts,
\* torn writes and concurrent deletions, although the sink adds up its own
\* writes and measures the directory only when that estimate runs out.
BacklogBound == BytesWith({"open", "jsonl"}) <= DirectoryBytes

\* The two limits that _append keeps to.
SpoolBounds == SegmentBound /\ BacklogBound

\* CaptureQuotaExceeded's docstring: the directory has a hard bound.
DirectoryBound == BytesWith(OnDisk) <= DirectoryBytes

\* A record whose capture call returned normally is a complete line of a
\* segment, and stays one whatever happens to its process.
CapturedIsWritten ==
  \A r \in Records : fate[r] = "captured" =>
     \E s \in Segs : \E i \in DOMAIN segs[s].recs : segs[s].recs[i] = r

\* A sealed segment ends with a complete record, so that it can be deleted:
\* a sink whose write failed never seals the segment it tore.
SealedIsComplete ==
  \A s \in Segs : segs[s].life \in {"jsonl", "rejected"} => segs[s].torn = 0

\* Both, for two processes of one directory: what was captured is there in whole records.
CapturedIsWhole == CapturedIsWritten /\ SealedIsComplete

\* A segment grows only by a write of the process that owns it and has it
\* open: not after it was sealed or abandoned after a torn write, nor through
\* the descriptor a forked child inherits.  A producer removes a segment only
\* while nothing is in it.
SegmentsAreOwned ==
  [][\A s \in Segs :
       /\ segs[s].bytes # segs'[s].bytes =>
            segs[s].life = "open" /\ sink[s[1]].pc = "write" /\ sink[s[1]].seg = s
       /\ segs[s].life = "open" /\ segs'[s].life = "deleted" => segs[s].bytes = 0]_spoolVars

===========================================================================
