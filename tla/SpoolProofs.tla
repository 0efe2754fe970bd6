----------------------------- MODULE SpoolProofs -------------------------------
(***************************************************************************)
(* Safety of the producer side of capture, for any number of processes,    *)
(* records and segments: the files of the spool and the sinks that write   *)
(* them.                                                                   *)
(***************************************************************************)
EXTENDS CaptureSpool, SequenceTheorems, FiniteSetTheorems, TLAPS

FileStates == [life : Lives, recs : Seq(Records), torn : Nat, bytes : Nat]

Fates == {"new", "pending", "captured", "refused", "failed"}

\* A full file is never exceeded, and only one that is being written, or was abandoned
\* in the middle of a record, ends with a part of one.
FileIsSound(file) ==
  /\ file.bytes <= SegmentBytes
  /\ file.life \in {"jsonl", "rejected"} => file.torn = 0

\* The file a sink has open is its own, and of the size the sink remembers.
OwnsItsFile(p) ==
  LET h == sink[p]
      file == segs[h.seg]
  IN h.seg # NoSeg =>
       /\ h.seg \in Segs /\ h.seg[1] = p /\ h.seg[2] < h.next
       /\ file.life = "open" /\ file.bytes = h.size + file.torn
       /\ h.size = 0 => file.recs = <<>>
       /\ h.pc # "write" => file.torn = 0
       /\ h.pc = "write" => file.torn < Size[h.rec]
       /\ h.pc = "write" => h.size + Size[h.rec] <= SegmentBytes

SinkIsSound(p) ==
  LET h == sink[p]
  IN /\ h.pc \in {"down", "idle"} => h.rec = NoRec
     /\ h.pc \in {"place", "write"} => h.rec # NoRec
     /\ h.rec # NoRec => fate[h.rec] = "pending"
     /\ h.pc = "down" => h.seg = NoSeg
     /\ h.pc = "write" => h.seg # NoSeg
     /\ h.pc # "down" => \A n \in h.next..MaxSegments-1 : segs[<<p, n>>] = NoFile
     /\ OwnsItsFile(p)

\* No two sinks have the same record in hand.
RecordsAreOwned ==
  \A p, q \in Procs : p # q /\ sink[p].rec # NoRec => sink[p].rec # sink[q].rec

SpoolInv ==
  /\ segs \in [Segs -> FileStates]
  /\ sink \in [Procs -> SinkStates]
  /\ fate \in [Records -> Fates]
  /\ \A s \in Segs : FileIsSound(segs[s])
  /\ \A p \in Procs : SinkIsSound(p)
  /\ RecordsAreOwned
  /\ CapturedIsWritten

---------------------------------------------------------------------------
\* What every step has in common.

LEMMA NoSegIsNoSegment == NoSeg \notin Segs
BY DEF NoSeg, Segs

LEMMA SegmentNames == \A p \in Procs : \A s \in Segs : s[1] = p => s = <<p, s[2]>> /\ s[2] \in 0..MaxSegments-1
BY DEF Segs

\* The bytes of the files, each with its place.
Places(files) == UNION {{s} \X (1..segs[s].bytes) : s \in files}

LEMMA PlacesMean ==
  ASSUME NEW files
  PROVE  \A x : x \in Places(files) <=> \E s \in files : \E i \in 1..segs[s].bytes : x = <<s, i>>
<1> SUFFICES ASSUME NEW x
             PROVE  x \in Places(files) <=> \E s \in files : \E i \in 1..segs[s].bytes : x = <<s, i>>
  OBVIOUS
<1>1. x \in Places(files) <=> \E s \in files : x \in {s} \X (1..segs[s].bytes)
  BY DEF Places
<1>2. \A s : x \in {s} \X (1..segs[s].bytes) <=> \E i \in 1..segs[s].bytes : x = <<s, i>>
  OBVIOUS
<1> QED
  BY <1>1, <1>2

\* Bytes of finitely many bounded files can be counted.
LEMMA PlacesAreFinite ==
  ASSUME SpoolInv, NEW files \in SUBSET Segs
  PROVE  IsFiniteSet(Places(files)) /\ BytesOf(files) = Cardinality(Places(files)) /\ BytesOf(files) \in Nat
<1>1. IsFiniteSet(0..MaxSegments-1) /\ IsFiniteSet(1..SegmentBytes)
  BY FS_Interval, SpoolAssumption
<1>2. IsFiniteSet(Segs)
  BY <1>1, FS_Product, ProcsAssumption DEF Segs
<1>3. IsFiniteSet(Segs \X (1..SegmentBytes))
  BY <1>1, <1>2, FS_Product
<1>4. ASSUME NEW s \in files, NEW i \in 1..segs[s].bytes PROVE i \in 1..SegmentBytes
  <2>1. segs[s].bytes \in Nat /\ segs[s].bytes <= SegmentBytes
    BY DEF SpoolInv, FileStates, FileIsSound
  <2> QED
    BY <2>1, SpoolAssumption
<1>5. Places(files) \subseteq Segs \X (1..SegmentBytes)
  BY <1>4, PlacesMean
<1>6. IsFiniteSet(Places(files))
  BY <1>3, <1>5, FS_Subset
<1>7. BytesOf(files) = Cardinality(Places(files))
  BY DEF BytesOf, Places
<1> QED
  BY <1>6, <1>7, FS_CardinalityType

LEMMA SizesAreNumbers == SpoolInv => \A listed : StatBytes(listed) \in Nat
BY PlacesAreFinite DEF StatBytes

\* Files lose no records.
FilesGrow ==
  \A s \in Segs : \A i \in 1..Len(segs[s].recs) :
     i \in 1..Len(segs'[s].recs) /\ segs'[s].recs[i] = segs[s].recs[i]

\* What was written stays written.
LEMMA WrittenStays ==
  ASSUME segs \in [Segs -> FileStates], segs' \in [Segs -> FileStates], CapturedIsWritten, FilesGrow,
         NEW r \in Records, fate[r] = "captured"
  PROVE  \E s \in Segs : \E i \in DOMAIN segs'[s].recs : segs'[s].recs[i] = r
<1>1. PICK s \in Segs : \E i \in DOMAIN segs[s].recs : segs[s].recs[i] = r
  BY DEF CapturedIsWritten
<1>2. segs[s].recs \in Seq(Records) /\ segs'[s].recs \in Seq(Records)
  BY DEF FileStates
<1> QED
  BY SMTT(30), <1>1, <1>2 DEF FilesGrow

\* A step of process p, which leaves the files of the others alone, and the records they
\* have in hand.
LEMMA SinkStep ==
  ASSUME SpoolInv, NEW p \in Procs, NEW h \in SinkStates, sink' = [sink EXCEPT ![p] = h],
         segs' \in [Segs -> FileStates], fate' \in [Records -> Fates],
         \A s \in Segs : s[1] # p => segs'[s] = segs[s],
         \A s \in Segs : FileIsSound(segs'[s]),
         \A x \in Records : x # sink[p].rec /\ fate[x] # "new" => fate'[x] = fate[x],
         h.rec \in {NoRec, sink[p].rec} \/ fate[h.rec] = "new",
         SinkIsSound(p)', CapturedIsWritten'
  PROVE  SpoolInv'
<1>1. sink' = [q \in Procs |-> sink'[q]] /\ sink'[p] = h /\ \A q \in Procs \ {p} : sink'[q] = sink[q]
  BY DEF SpoolInv
<1>2. \A q \in Procs : sink'[q] \in SinkStates
  BY <1>1 DEF SpoolInv
<1>3. ASSUME NEW q \in Procs, q # p, sink[q].rec # NoRec
      PROVE  sink[q].rec \in Records /\ sink[q].rec # sink[p].rec /\ fate[sink[q].rec] = "pending"
  BY <1>3 DEF SpoolInv, SinkStates, SinkIsSound, RecordsAreOwned
<1>4. ASSUME NEW q \in Procs, q # p PROVE SinkIsSound(q)'
  <2>1. SinkIsSound(q) /\ sink'[q] = sink[q] /\ sink[q] \in SinkStates
    BY <1>1, <1>4 DEF SpoolInv
  <2>2. sink[q].rec # NoRec => fate'[sink[q].rec] = "pending"
    BY <1>3, <1>4
  <2>3. sink[q].seg # NoSeg => segs'[sink[q].seg] = segs[sink[q].seg]
    BY <1>4, <2>1 DEF SinkIsSound, OwnsItsFile
  <2>4. \A n \in sink[q].next..MaxSegments-1 : segs'[<<q, n>>] = segs[<<q, n>>]
    BY <1>4, <2>1, SpoolAssumption DEF Segs, SinkStates
  <2> QED
    BY <2>1, <2>2, <2>3, <2>4 DEF SinkIsSound, OwnsItsFile
<1>5. RecordsAreOwned'
  <2>1. ASSUME NEW q \in Procs, q # p, sink[q].rec # NoRec PROVE sink[q].rec # h.rec
    BY <1>3, <2>1
  <2> QED
    BY <1>1, <2>1 DEF SpoolInv, RecordsAreOwned
<1> QED
  BY <1>1, <1>2, <1>4, <1>5 DEF SpoolInv

\* A step that writes nothing, and captures nothing.
LEMMA SinkMoves ==
  ASSUME SpoolInv, NEW p \in Procs, NEW h \in SinkStates, sink' = [sink EXCEPT ![p] = h],
         UNCHANGED segs, fate' \in [Records -> Fates],
         \A x \in Records : x # sink[p].rec /\ fate[x] # "new" => fate'[x] = fate[x],
         \A x \in Records : fate'[x] = "captured" => fate[x] = "captured",
         h.rec \in {NoRec, sink[p].rec} \/ fate[h.rec] = "new",
         SinkIsSound(p)'
  PROVE  SpoolInv'
<1>1. CapturedIsWritten'
  BY DEF SpoolInv, CapturedIsWritten
<1> QED
  BY <1>1, SinkStep DEF SpoolInv

---------------------------------------------------------------------------
\* The steps of a process.

LEMMA SpoolInitInv == InitSpool => SpoolInv
<1> SUFFICES ASSUME InitSpool PROVE SpoolInv
  OBVIOUS
<1>1. NoFile \in FileStates /\ FileIsSound(NoFile)
  BY SpoolAssumption, RecordAssumption DEF NoFile, FileStates, FileIsSound, Lives
<1>2. /\ NoSink \in SinkStates
      /\ NoSink.pc = "down" /\ NoSink.rec = NoRec /\ NoSink.seg = NoSeg
  BY SpoolAssumption DEF NoSink, SinkStates
<1> QED
  BY <1>1, <1>2 DEF InitSpool, SpoolInv, SinkIsSound, OwnsItsFile, RecordsAreOwned, CapturedIsWritten, Fates

LEMMA StartInv == ASSUME SpoolInv, NEW p \in Procs, Start(p) PROVE SpoolInv'
<1> DEFINE h == [NoSink EXCEPT !.pc = "scan"]
<1>1. /\ h \in SinkStates
      /\ h.pc = "scan" /\ h.rec = NoRec /\ h.seg = NoSeg /\ h.next = 0
  BY SpoolAssumption DEF NoSink, SinkStates
<1>2. /\ sink' = [sink EXCEPT ![p] = h] /\ UNCHANGED <<segs, fate>>
      /\ \A n \in 0..MaxSegments-1 : segs[<<p, n>>] = NoFile
  BY DEF Start, Unused
<1> HIDE DEF h
<1>3. sink'[p] = h
  BY <1>2 DEF SpoolInv
<1>4. SinkIsSound(p)'
  BY <1>1, <1>2, <1>3 DEF SinkIsSound, OwnsItsFile
<1> QED
  BY <1>1, <1>2, <1>4, SinkMoves DEF SpoolInv

LEMMA ProducerCrashInv == ASSUME SpoolInv, NEW p \in Procs, ProducerCrash(p) PROVE SpoolInv'
<1>1. /\ NoSink \in SinkStates
      /\ NoSink.pc = "down" /\ NoSink.rec = NoRec /\ NoSink.seg = NoSeg
  BY SpoolAssumption DEF NoSink, SinkStates
<1>2. /\ sink' = [sink EXCEPT ![p] = NoSink] /\ UNCHANGED segs
      /\ fate' = [r \in Records |-> IF r = sink[p].rec THEN "failed" ELSE fate[r]]
  BY DEF ProducerCrash
<1>3. sink'[p] = NoSink
  BY <1>2 DEF SpoolInv
<1>4. SinkIsSound(p)'
  BY <1>1, <1>2, <1>3 DEF SinkIsSound, OwnsItsFile
<1>5. fate' \in [Records -> Fates]
  BY <1>2 DEF SpoolInv, Fates
<1>6. \A x \in Records : fate'[x] = "captured" => fate[x] = "captured"
  BY <1>2
<1> QED
  BY <1>1, <1>2, <1>4, <1>5, <1>6, SinkMoves

LEMMA BeginAppendInv ==
  ASSUME SpoolInv, NEW p \in Procs, NEW r \in Records, BeginAppend(p, r) PROVE SpoolInv'
<1> DEFINE pc == IF sink[p].dirSize + Size[r] > DirectoryBytes THEN "scan" ELSE "place"
           h == [sink[p] EXCEPT !.rec = r, !.pc = pc]
<1>1. /\ sink[p].pc = "idle" /\ fate[r] = "new" /\ sink' = [sink EXCEPT ![p] = h]
      /\ fate' = [fate EXCEPT ![r] = "pending"] /\ UNCHANGED segs
  BY DEF BeginAppend, SpoolInv
<1>2. sink[p] \in SinkStates /\ SinkIsSound(p) /\ pc \in {"scan", "place"}
  BY DEF SpoolInv
<1> HIDE DEF pc
<1>3. /\ h \in SinkStates /\ h.pc \in {"scan", "place"} /\ h.rec = r
      /\ h.seg = sink[p].seg /\ h.next = sink[p].next /\ h.size = sink[p].size
  BY <1>2 DEF SinkStates
<1> HIDE DEF h
<1>4. sink'[p] = h /\ fate'[r] = "pending" /\ r # NoRec
  BY <1>1, RecordAssumption DEF SpoolInv
<1>5. SinkIsSound(p)'
  BY <1>1, <1>2, <1>3, <1>4 DEF SinkIsSound, OwnsItsFile
<1>6. fate' \in [Records -> Fates]
  BY <1>1 DEF SpoolInv, Fates
<1>7. \A x \in Records : fate'[x] = "captured" => fate[x] = "captured"
  BY <1>1 DEF SpoolInv
<1>8. \A x \in Records : fate[x] # "new" => fate'[x] = fate[x]
  BY <1>1 DEF SpoolInv
<1> QED
  BY <1>1, <1>3, <1>5, <1>6, <1>7, <1>8, SinkMoves

LEMMA ScanDirectoryInv == ASSUME SpoolInv, NEW p \in Procs, ScanDirectory(p) PROVE SpoolInv'
<1> DEFINE h == [sink[p] EXCEPT !.pc = "stat", !.listed = Listing]
<1>1. /\ sink[p].pc = "scan" /\ sink' = [sink EXCEPT ![p] = h] /\ UNCHANGED <<segs, fate>>
  BY DEF ScanDirectory, SpoolInv
<1>2. sink[p] \in SinkStates /\ SinkIsSound(p) /\ Listing \in SUBSET (Segs \X OnDisk)
  BY DEF SpoolInv, Listing, Path
<1>3. /\ h \in SinkStates /\ h.pc = "stat" /\ h.rec = sink[p].rec
      /\ h.seg = sink[p].seg /\ h.next = sink[p].next /\ h.size = sink[p].size
  BY <1>2 DEF SinkStates
<1> HIDE DEF h
<1>4. sink'[p] = h
  BY <1>1 DEF SpoolInv
<1>5. SinkIsSound(p)'
  BY <1>1, <1>2, <1>3, <1>4 DEF SinkIsSound, OwnsItsFile
<1> QED
  BY <1>1, <1>3, <1>5, SinkMoves DEF SpoolInv

LEMMA StatDirectoryInv == ASSUME SpoolInv, NEW p \in Procs, StatDirectory(p) PROVE SpoolInv'
<1> DEFINE size == StatBytes(sink[p].listed)
           over == sink[p].rec # NoRec /\ size + Size[sink[p].rec] > DirectoryBytes
           pc == IF sink[p].rec = NoRec \/ over THEN "idle" ELSE "place"
           rec == IF over THEN NoRec ELSE sink[p].rec
           h == [sink[p] EXCEPT !.listed = {}, !.dirSize = size, !.pc = pc, !.rec = rec]
<1>1. /\ sink[p].pc = "stat" /\ sink' = [sink EXCEPT ![p] = h] /\ UNCHANGED segs
      /\ fate' = [x \in Records |-> IF over /\ x = sink[p].rec THEN "refused" ELSE fate[x]]
  BY DEF StatDirectory, SpoolInv
<1>2. sink[p] \in SinkStates /\ SinkIsSound(p)
  BY DEF SpoolInv
<1>3. /\ \/ pc = "idle" /\ rec = NoRec
         \/ pc = "place" /\ rec = sink[p].rec /\ rec # NoRec /\ ~over
      /\ rec \in Records \cup {NoRec} /\ size \in Nat
  BY <1>2, SizesAreNumbers DEF SinkStates
<1> HIDE DEF size, over, pc, rec
<1>4. /\ h \in SinkStates /\ h.pc = pc /\ h.rec = rec
      /\ h.seg = sink[p].seg /\ h.next = sink[p].next /\ h.size = sink[p].size
  BY <1>2, <1>3 DEF SinkStates
<1> HIDE DEF h
<1>5. sink'[p] = h
  BY <1>1 DEF SpoolInv
<1>6. h.rec # NoRec => fate'[h.rec] = fate[h.rec]
  BY <1>1, <1>3, <1>4
<1>7. SinkIsSound(p)'
  BY <1>1, <1>2, <1>3, <1>4, <1>5, <1>6 DEF SinkIsSound, OwnsItsFile
<1>8. fate' \in [Records -> Fates]
  BY <1>1 DEF SpoolInv, Fates
<1>9. \A x \in Records : fate'[x] = "captured" => fate[x] = "captured"
  BY <1>1
<1> QED
  BY <1>1, <1>3, <1>4, <1>7, <1>8, <1>9, SinkMoves

---------------------------------------------------------------------------
\* The steps that write, rename and remove files.

\* A step that changes the file s of process p to g, which has at least its records.
LEMMA FileStep ==
  ASSUME SpoolInv, NEW p \in Procs, NEW h \in SinkStates, sink' = [sink EXCEPT ![p] = h],
         NEW s \in Segs, s[1] = p, NEW g \in FileStates, segs' = [segs EXCEPT ![s] = g],
         g.recs = segs[s].recs, FileIsSound(g),
         fate' \in [Records -> Fates], h.rec \in {NoRec, sink[p].rec},
         \A x \in Records : x # sink[p].rec => fate'[x] = fate[x],
         \A x \in Records : fate'[x] = "captured" => fate[x] = "captured",
         SinkIsSound(p)'
  PROVE  SpoolInv'
<1>1. /\ segs' \in [Segs -> FileStates] /\ \A t \in Segs : FileIsSound(segs'[t])
      /\ \A t \in Segs : t # s => segs'[t] = segs[t]
  BY DEF SpoolInv
<1>2. \A t \in Segs : segs'[t].recs = segs[t].recs
  BY <1>1 DEF SpoolInv
<1>3. CapturedIsWritten'
  BY <1>2 DEF SpoolInv, CapturedIsWritten
<1> QED
  BY <1>1, <1>3, SinkStep DEF SpoolInv

LEMMA SealedFile ==
  ASSUME NEW file \in FileStates, NEW size
  PROVE  /\ Sealed(file, size) \in FileStates
         /\ Sealed(file, size).life = IF size = 0 THEN "deleted" ELSE "jsonl"
         /\ Sealed(file, size).bytes = file.bytes /\ Sealed(file, size).torn = file.torn
         /\ Sealed(file, size).recs = file.recs
<1> DEFINE life == IF size = 0 THEN "deleted" ELSE "jsonl"
<1>1. life \in Lives /\ Sealed(file, size) = [file EXCEPT !.life = life]
  BY DEF Sealed, Lives, OnDisk
<1> HIDE DEF life
<1>2. /\ Sealed(file, size) \in FileStates /\ Sealed(file, size).life = life
      /\ Sealed(file, size).bytes = file.bytes /\ Sealed(file, size).torn = file.torn
      /\ Sealed(file, size).recs = file.recs
  BY <1>1 DEF FileStates
<1> QED
  BY <1>2 DEF life

LEMMA WriteSomeInv ==
  ASSUME SpoolInv, NEW p \in Procs, NEW n \in 1..MaxRecordBytes, WriteSome(p, n) PROVE SpoolInv'
<1> DEFINE s == sink[p].seg
           g == [segs[s] EXCEPT !.torn = n, !.bytes = segs[s].bytes + n]
<1>1. /\ sink[p].pc = "write" /\ segs[s].torn = 0 /\ n < Size[sink[p].rec]
      /\ UNCHANGED <<sink, fate>>
  BY DEF WriteSome
<1>2. /\ sink[p] \in SinkStates /\ SinkIsSound(p) /\ s \in Segs /\ s[1] = p
      /\ segs[s] \in FileStates /\ FileIsSound(segs[s]) /\ segs[s].life = "open"
      /\ sink[p].rec \in Records /\ Size[sink[p].rec] \in Nat /\ n \in Nat
      /\ segs[s].bytes = sink[p].size /\ sink[p].size + Size[sink[p].rec] <= SegmentBytes
  BY SMTT(30), <1>1, RecordAssumption DEF SpoolInv, SinkStates, SinkIsSound, OwnsItsFile, FileStates
<1>3. /\ g \in FileStates /\ g.torn = n /\ g.bytes = segs[s].bytes + n
      /\ g.life = segs[s].life /\ g.recs = segs[s].recs
  <2>1. segs[s].bytes \in Nat /\ segs[s].bytes + n \in Nat
    BY <1>2 DEF FileStates
  <2> QED
    BY <1>2, <2>1 DEF FileStates
<1>4. segs' = [segs EXCEPT ![s] = g]
  BY DEF WriteSome, SpoolInv
<1> HIDE DEF g, s
<1>5. FileIsSound(g)
  BY <1>1, <1>2, <1>3, SpoolAssumption DEF FileIsSound, SinkStates
<1>6. /\ segs'[s] = g /\ \A t \in Segs : t # s => segs'[t] = segs[t]
  BY <1>2, <1>4 DEF SpoolInv
<1>7. \A m \in sink[p].next..MaxSegments-1 : segs'[<<p, m>>] = segs[<<p, m>>]
  BY SMTT(30), <1>1, <1>2, <1>6, SpoolAssumption DEF SinkIsSound, OwnsItsFile, SinkStates, Segs, s
<1>8. SinkIsSound(p)'
  BY <1>1, <1>2, <1>3, <1>6, <1>7 DEF SinkIsSound, OwnsItsFile, s
<1>9. sink' = [sink EXCEPT ![p] = sink[p]]
  BY <1>1 DEF SpoolInv
<1> QED
  BY <1>1, <1>2, <1>3, <1>4, <1>5, <1>8, <1>9, FileStep DEF SpoolInv

LEMMA WriteFailInv == ASSUME SpoolInv, NEW p \in Procs, WriteFail(p) PROVE SpoolInv'
<1> DEFINE s == sink[p].seg
           size == sink[p].size + segs[s].torn
           g == [segs[s] EXCEPT !.life = IF size = 0 THEN "deleted" ELSE segs[s].life]
           h == [sink[p] EXCEPT !.pc = "idle", !.rec = NoRec, !.seg = NoSeg, !.size = size,
                                !.dirSize = sink[p].dirSize + segs[s].torn]
<1>1. /\ sink[p].pc = "write" /\ fate' = [fate EXCEPT ![sink[p].rec] = "failed"]
      /\ segs' = [segs EXCEPT ![s] = g] /\ sink' = [sink EXCEPT ![p] = h]
  BY DEF WriteFail, SpoolInv
<1>2. /\ sink[p] \in SinkStates /\ SinkIsSound(p) /\ s \in Segs /\ s[1] = p
      /\ s[2] < sink[p].next /\ segs[s] \in FileStates /\ FileIsSound(segs[s])
      /\ segs[s].life = "open" /\ sink[p].rec \in Records
  BY <1>1 DEF SpoolInv, SinkStates, SinkIsSound, OwnsItsFile
<1>3. /\ g \in FileStates /\ g.bytes = segs[s].bytes /\ g.recs = segs[s].recs
      /\ g.life \in {"deleted", "open"}
  BY <1>2 DEF FileStates, Lives
<1>4. size \in Nat /\ sink[p].dirSize + segs[s].torn \in Nat
  BY SMTT(30), <1>2 DEF SinkStates, FileStates
<1>5. /\ h \in SinkStates /\ h.pc = "idle" /\ h.rec = NoRec /\ h.seg = NoSeg
      /\ h.next = sink[p].next
  BY <1>2, <1>4 DEF SinkStates
<1> HIDE DEF g, h, size
<1>6. FileIsSound(g)
  BY <1>2, <1>3 DEF FileIsSound
<1>7. /\ sink'[p] = h /\ \A t \in Segs : t # s => segs'[t] = segs[t]
  BY <1>1 DEF SpoolInv
<1>8. \A m \in sink[p].next..MaxSegments-1 : segs'[<<p, m>>] = segs[<<p, m>>]
  BY <1>2, <1>7, SpoolAssumption DEF SinkStates, Segs
<1>9. SinkIsSound(p)'
  BY <1>1, <1>2, <1>5, <1>7, <1>8 DEF SinkIsSound, OwnsItsFile
<1>10. /\ fate' \in [Records -> Fates] /\ \A x \in Records : x # sink[p].rec => fate'[x] = fate[x]
       /\ \A x \in Records : fate'[x] = "captured" => fate[x] = "captured"
  BY <1>1, <1>2 DEF SpoolInv, Fates
<1> QED
  BY <1>1, <1>2, <1>3, <1>5, <1>6, <1>9, <1>10, FileStep

LEMMA CloseInv == ASSUME SpoolInv, NEW p \in Procs, Close(p) PROVE SpoolInv'
<1> DEFINE s == sink[p].seg
           g == Sealed(segs[s], sink[p].size)
           h == [sink[p] EXCEPT !.seg = NoSeg]
<1>1. /\ sink[p].pc = "idle" /\ s # NoSeg /\ UNCHANGED fate
      /\ segs' = [segs EXCEPT ![s] = g] \/ UNCHANGED segs
      /\ sink' = [sink EXCEPT ![p] = h]
  BY DEF Close, SpoolInv
<1>2. /\ sink[p] \in SinkStates /\ SinkIsSound(p) /\ s \in Segs /\ s[1] = p
      /\ s[2] < sink[p].next /\ segs[s] \in FileStates /\ FileIsSound(segs[s])
      /\ segs[s].torn = 0 /\ sink[p].rec = NoRec
  BY <1>1 DEF SpoolInv, SinkStates, SinkIsSound, OwnsItsFile
<1>3. /\ g \in FileStates /\ g.bytes = segs[s].bytes /\ g.recs = segs[s].recs /\ g.torn = 0
  BY <1>2, SealedFile
<1>4. /\ h \in SinkStates /\ h.pc = "idle" /\ h.rec = NoRec /\ h.seg = NoSeg
      /\ h.next = sink[p].next
  BY <1>1, <1>2 DEF SinkStates
<1> HIDE DEF g, h
<1>5. sink'[p] = h
  BY <1>1 DEF SpoolInv
<1>6. \A t \in Segs : t # s => segs'[t] = segs[t]
  BY <1>1 DEF SpoolInv
<1>7. \A m \in sink[p].next..MaxSegments-1 : segs'[<<p, m>>] = segs[<<p, m>>]
  BY <1>2, <1>6, SpoolAssumption DEF SinkStates, Segs
<1>8. SinkIsSound(p)'
  BY <1>1, <1>2, <1>4, <1>5, <1>7 DEF SinkIsSound, OwnsItsFile
<1>9. CASE UNCHANGED segs
  BY <1>1, <1>4, <1>8, <1>9, SinkMoves DEF SpoolInv
<1>10. CASE segs' = [segs EXCEPT ![s] = g]
  <2>1. FileIsSound(g)
    BY <1>2, <1>3 DEF FileIsSound
  <2> QED
    BY <1>1, <1>2, <1>3, <1>4, <1>8, <1>10, <2>1, FileStep DEF SpoolInv
<1> QED
  BY <1>1, <1>9, <1>10

LEMMA WriteRestInv == ASSUME SpoolInv, NEW p \in Procs, WriteRest(p) PROVE SpoolInv'
<1> DEFINE s == sink[p].seg
           r == sink[p].rec
           g == [segs[s] EXCEPT !.recs = Append(segs[s].recs, r), !.torn = 0,
                                !.bytes = segs[s].bytes - segs[s].torn + Size[r]]
           h == [sink[p] EXCEPT !.pc = "idle", !.rec = NoRec, !.size = sink[p].size + Size[r],
                                !.dirSize = sink[p].dirSize + Size[r]]
<1>1. /\ sink[p].pc = "write" /\ fate' = [fate EXCEPT ![r] = "captured"]
      /\ segs' = [segs EXCEPT ![s] = g] /\ sink' = [sink EXCEPT ![p] = h]
  BY DEF WriteRest, SpoolInv
<1>2. /\ sink[p] \in SinkStates /\ SinkIsSound(p) /\ s \in Segs /\ s[1] = p
      /\ s[2] < sink[p].next /\ segs[s] \in FileStates /\ FileIsSound(segs[s])
      /\ segs[s].life = "open" /\ r \in Records /\ Size[r] \in Nat /\ Size[r] > 0
      /\ segs[s].bytes = sink[p].size + segs[s].torn /\ sink[p].size + Size[r] <= SegmentBytes
      /\ segs[s].recs \in Seq(Records) /\ segs[s].torn \in Nat /\ sink[p].size \in Nat
  <2>1. /\ sink[p] \in SinkStates /\ SinkIsSound(p) /\ s \in Segs /\ r \in Records
    BY <1>1 DEF SpoolInv, SinkStates, SinkIsSound, OwnsItsFile
  <2>2. segs[s] \in FileStates /\ FileIsSound(segs[s]) /\ Size[r] \in Nat /\ Size[r] > 0
    BY SMTT(30), <2>1, RecordAssumption DEF SpoolInv
  <2> QED
    BY <1>1, <2>1, <2>2 DEF SinkStates, SinkIsSound, OwnsItsFile, FileStates
<1>3. /\ g \in FileStates /\ g.bytes = sink[p].size + Size[r] /\ g.recs = Append(segs[s].recs, r)
      /\ g.torn = 0 /\ g.life = "open"
  <2>1. /\ segs[s].bytes - segs[s].torn + Size[r] = sink[p].size + Size[r]
        /\ sink[p].size + Size[r] \in Nat /\ Append(segs[s].recs, r) \in Seq(Records)
    BY <1>2, AppendProperties
  <2> QED
    BY <1>2, <2>1 DEF FileStates
<1>4. /\ h \in SinkStates /\ h.pc = "idle" /\ h.rec = NoRec /\ h.seg = s
      /\ h.next = sink[p].next /\ h.size = sink[p].size + Size[r]
  <2>1. sink[p].size + Size[r] \in Nat /\ sink[p].dirSize + Size[r] \in Nat
    BY <1>2 DEF SinkStates
  <2> QED
    BY <1>2, <2>1 DEF SinkStates
<1> HIDE DEF g, h, s, r
<1>5. FileIsSound(g)
  BY <1>2, <1>3 DEF FileIsSound
<1>6. sink'[p] = h /\ segs'[s] = g /\ \A t \in Segs : t # s => segs'[t] = segs[t]
  BY <1>1, <1>2 DEF SpoolInv
<1>7. \A m \in sink[p].next..MaxSegments-1 : segs'[<<p, m>>] = segs[<<p, m>>]
  BY SMTT(30), <1>2, <1>6, SpoolAssumption DEF SinkStates, Segs
<1>8. SinkIsSound(p)'
  <2>1. h.size > 0 /\ h.size + 0 = h.size
    BY <1>2, <1>4
  <2>2. OwnsItsFile(p)'
    BY <1>2, <1>3, <1>4, <1>6, <2>1 DEF OwnsItsFile
  <2> QED
    BY <1>1, <1>2, <1>4, <1>6, <1>7, <2>2 DEF SinkIsSound
<1>9. /\ fate' \in [Records -> Fates] /\ \A x \in Records : x # r => fate'[x] = fate[x]
  BY <1>1, <1>2 DEF SpoolInv, Fates
<1>10. segs' \in [Segs -> FileStates] /\ \A t \in Segs : FileIsSound(segs'[t])
  BY <1>1, <1>3, <1>5, <1>6 DEF SpoolInv
<1>11. FilesGrow /\ Len(g.recs) \in DOMAIN g.recs /\ g.recs[Len(g.recs)] = r
  <2>1. /\ Len(g.recs) = Len(segs[s].recs) + 1 /\ Len(segs[s].recs) \in Nat
        /\ g.recs[Len(segs[s].recs) + 1] = r /\ DOMAIN g.recs = 1..Len(segs[s].recs) + 1
        /\ \A i \in 1..Len(segs[s].recs) : g.recs[i] = segs[s].recs[i]
    BY <1>2, <1>3, AppendProperties
  <2> QED
    BY SMTT(30), <1>6, <2>1 DEF FilesGrow
<1>12. CapturedIsWritten'
  <2> SUFFICES ASSUME NEW x \in Records, fate'[x] = "captured"
               PROVE  \E t \in Segs : \E i \in DOMAIN segs'[t].recs : segs'[t].recs[i] = x
    BY DEF CapturedIsWritten
  <2>1. CASE x = r
    BY <1>2, <1>6, <1>11, <2>1
  <2>2. CASE x # r
    BY <1>9, <1>10, <1>11, <2>2, WrittenStays DEF SpoolInv
  <2> QED
    BY <2>1, <2>2
<1>13. \A t \in Segs : t[1] # p => segs'[t] = segs[t]
  BY <1>2, <1>6
<1>14. \A x \in Records : x # sink[p].rec => fate'[x] = fate[x]
  BY <1>9 DEF r
<1> QED
  BY <1>1, <1>4, <1>8, <1>9, <1>10, <1>12, <1>13, <1>14, SinkStep

\* A sealed or abandoned segment and a new one: no other file changes.
LEMMA PlaceStep ==
  ASSUME SpoolInv, NEW p \in Procs, sink[p].pc = "place",
         sink[p].next < MaxSegments \/ segs' = segs,
         NEW h \in SinkStates, sink' = [sink EXCEPT ![p] = h],
         NEW g \in FileStates, FileIsSound(g), g.recs = <<>>,
         \/ UNCHANGED segs
         \/ segs' = [s \in Segs |-> IF s = sink[p].seg THEN Sealed(segs[s], sink[p].size)
                                    ELSE IF s = <<p, sink[p].next>> THEN g ELSE segs[s]],
         fate' \in [Records -> Fates], h.rec \in {NoRec, sink[p].rec},
         \A x \in Records : x # sink[p].rec => fate'[x] = fate[x],
         \A x \in Records : fate'[x] = "captured" => fate[x] = "captured",
         SinkIsSound(p)'
  PROVE  SpoolInv'
<1>1. /\ sink[p] \in SinkStates /\ SinkIsSound(p)
      /\ segs \in [Segs -> FileStates] /\ \A s \in Segs : FileIsSound(segs[s])
  BY DEF SpoolInv
<1>2. CASE UNCHANGED segs
  BY <1>1, <1>2, SinkMoves DEF SpoolInv
<1>3. CASE ~UNCHANGED segs
  <2> DEFINE cur == sink[p].seg
             new == <<p, sink[p].next>>
  <2>1. new \in Segs /\ segs[new] = NoFile /\ cur # new
    <3>1. new \in Segs /\ sink[p].next \in sink[p].next..MaxSegments-1
      BY SMTT(30), <1>1, <1>3, SpoolAssumption DEF SinkStates, Segs
    <3>2. cur # NoSeg => cur[2] # sink[p].next
      BY <1>1, <3>1, SpoolAssumption DEF SinkIsSound, OwnsItsFile
    <3> QED
      BY <1>1, <3>1, <3>2, NoSegIsNoSegment DEF SinkIsSound
  <2>2. cur \in Segs => cur[1] = p /\ segs[cur].torn = 0
    BY <1>1, NoSegIsNoSegment DEF SinkIsSound, OwnsItsFile
  <2>3. ASSUME NEW s \in Segs
        PROVE  /\ segs'[s] \in FileStates /\ FileIsSound(segs'[s])
               /\ segs'[s].recs = segs[s].recs /\ (s[1] # p => segs'[s] = segs[s])
    <3>1. CASE s = cur
      <4>1. segs'[s] = Sealed(segs[s], sink[p].size)
        BY <1>3, <3>1
      <4> QED
        BY <1>1, <2>2, <3>1, <4>1, SealedFile DEF FileIsSound
    <3>2. CASE s = new
      BY <1>3, <2>1, <3>2 DEF NoFile
    <3>3. CASE s # cur /\ s # new
      BY <1>1, <1>3, <3>3
    <3> QED
      BY <3>1, <3>2, <3>3
  <2>4. segs' \in [Segs -> FileStates]
    BY <1>3, <2>3
  <2>5. CapturedIsWritten'
    BY <2>3 DEF SpoolInv, CapturedIsWritten
  <2> QED
    BY <2>3, <2>4, <2>5, SinkStep
<1> QED
  BY <1>2, <1>3

LEMMA PlaceRecordInv == ASSUME SpoolInv, NEW p \in Procs, PlaceRecord(p) PROVE SpoolInv'
<1> DEFINE cur == sink[p].seg
           new == <<p, sink[p].next>>
           opened == [NoFile EXCEPT !.life = "open"]
<1>1. /\ sink[p] \in SinkStates /\ SinkIsSound(p) /\ sink[p].pc = "place" /\ UNCHANGED fate
      /\ sink[p].rec \in Records /\ Size[sink[p].rec] \in 1..MaxRecordBytes + 1
  BY RecordAssumption DEF PlaceRecord, SpoolInv, SinkStates, SinkIsSound
<1> HIDE DEF opened
<1>2. /\ opened \in FileStates /\ FileIsSound(opened) /\ opened.life = "open"
      /\ opened.recs = <<>> /\ opened.torn = 0 /\ opened.bytes = 0
  <2>1. opened = [life |-> "open", recs |-> <<>>, torn |-> 0, bytes |-> 0] /\ "open" \in Lives
    BY DEF NoFile, Lives, OnDisk, opened
  <2>2. <<>> \in Seq(Records)
    OBVIOUS
  <2> QED
    BY <2>1, <2>2, SpoolAssumption DEF FileStates, FileIsSound
<1>3. CASE cur # NoSeg /\ Fits(p)
  <2> DEFINE h == [sink[p] EXCEPT !.pc = "write"]
  <2>1. sink' = [sink EXCEPT ![p] = h] /\ UNCHANGED segs
    BY <1>3 DEF PlaceRecord, SpoolInv
  <2>2. /\ h \in SinkStates /\ h.pc = "write" /\ h.rec = sink[p].rec
        /\ h.seg = cur /\ h.next = sink[p].next /\ h.size = sink[p].size
    BY <1>1 DEF SinkStates
  <2> HIDE DEF h
  <2>3. sink'[p] = h
    BY <2>1 DEF SpoolInv
  <2>4. sink[p].size + Size[sink[p].rec] <= SegmentBytes
    BY <1>1, <1>3, SpoolAssumption, RecordAssumption DEF Fits
  <2>5. SinkIsSound(p)'
    BY <1>1, <1>3, <2>1, <2>2, <2>3, <2>4 DEF SinkIsSound, OwnsItsFile
  <2> QED
    BY <1>1, <1>2, <2>1, <2>2, <2>5, PlaceStep DEF SpoolInv
<1>4. CASE ~(cur # NoSeg /\ Fits(p))
  <2> DEFINE h == [sink[p] EXCEPT !.pc = "write", !.seg = new, !.next = sink[p].next + 1, !.size = 0]
  <2>1. /\ sink[p].next < MaxSegments /\ sink' = [sink EXCEPT ![p] = h]
        /\ segs' = [s \in Segs |-> CASE s = new -> opened
                                     [] s = cur -> Sealed(segs[s], sink[p].size)
                                     [] OTHER   -> segs[s]]
    BY <1>4 DEF PlaceRecord, SpoolInv, opened
  <2>2. new \in Segs /\ new # NoSeg /\ new[1] = p /\ new[2] = sink[p].next /\ sink[p].next \in Nat
    BY <1>1, <2>1, SpoolAssumption, NoSegIsNoSegment DEF SinkStates, Segs
  <2>3. /\ h \in SinkStates /\ h.pc = "write" /\ h.rec = sink[p].rec
        /\ h.seg = new /\ h.next = sink[p].next + 1 /\ h.size = 0
    <3>1. sink[p].next + 1 \in 0..MaxSegments
      BY <2>1, <2>2, SpoolAssumption
    <3> QED
      BY <1>1, <2>2, <3>1 DEF SinkStates
  <2>4. cur # new
    BY <1>1, <2>2 DEF SinkIsSound, OwnsItsFile
  <2>5. segs' = [s \in Segs |-> IF s = cur THEN Sealed(segs[s], sink[p].size)
                                ELSE IF s = new THEN opened ELSE segs[s]]
    BY <2>1, <2>4
  <2>6. segs'[new] = opened
    BY <2>2, <2>4, <2>5
  <2>7. \A m \in sink[p].next + 1..MaxSegments-1 : segs'[<<p, m>>] = NoFile
    <3> SUFFICES ASSUME NEW m \in sink[p].next + 1..MaxSegments-1 PROVE segs'[<<p, m>>] = NoFile
      OBVIOUS
    <3>1. <<p, m>> \in Segs /\ <<p, m>> # new /\ m \in sink[p].next..MaxSegments-1
      BY <2>2, SpoolAssumption DEF Segs
    <3>2. <<p, m>> # cur
      <4>1. cur # NoSeg => cur[2] < sink[p].next
        BY <1>1 DEF SinkIsSound, OwnsItsFile
      <4>2. <<p, m>>[2] = m /\ m > sink[p].next
        BY <2>2
      <4> QED
        BY <2>2, <3>1, <4>1, <4>2, NoSegIsNoSegment
    <3> QED
      BY <1>1, <2>5, <3>1, <3>2 DEF SinkIsSound
  <2> HIDE DEF h, new
  <2>8. sink'[p] = h
    BY <2>1 DEF SpoolInv
  <2>9. OwnsItsFile(p)'
    <3>1. 0 < Size[sink[p].rec] /\ 0 + Size[sink[p].rec] <= SegmentBytes
      BY <1>1, SpoolAssumption, RecordAssumption
    <3>2. new[2] < sink[p].next + 1
      BY <2>2
    <3> QED
      BY <1>2, <2>2, <2>3, <2>6, <2>8, <3>1, <3>2 DEF OwnsItsFile
  <2>10. SinkIsSound(p)'
    BY <1>1, <2>2, <2>3, <2>7, <2>8, <2>9 DEF SinkIsSound
  <2> QED
    BY <1>1, <1>2, <2>1, <2>3, <2>5, <2>10, PlaceStep DEF SpoolInv, new
<1> QED
  BY <1>3, <1>4

LEMMA PlaceFailsInv == ASSUME SpoolInv, NEW p \in Procs, PlaceFails(p) PROVE SpoolInv'
<1> DEFINE cur == sink[p].seg
           h(next) == [sink[p] EXCEPT !.pc = "idle", !.rec = NoRec, !.seg = NoSeg, !.next = next]
<1>1. /\ sink[p] \in SinkStates /\ SinkIsSound(p) /\ sink[p].pc = "place"
      /\ sink[p].rec \in Records /\ fate' = [fate EXCEPT ![sink[p].rec] = "failed"]
  BY RecordAssumption DEF PlaceFails, SpoolInv, SinkStates, SinkIsSound
<1>2. /\ fate' \in [Records -> Fates] /\ \A x \in Records : x # sink[p].rec => fate'[x] = fate[x]
      /\ \A x \in Records : fate'[x] = "captured" => fate[x] = "captured"
  BY <1>1 DEF SpoolInv, Fates
<1>3. NoFile \in FileStates /\ FileIsSound(NoFile) /\ NoFile.recs = <<>>
  <2>1. <<>> \in Seq(Records) /\ "absent" \in Lives
    BY DEF Lives
  <2> QED
    BY <2>1, SpoolAssumption DEF NoFile, FileStates, FileIsSound
<1>4. CASE /\ sink' = [sink EXCEPT ![p] = h(sink[p].next)]
           /\ UNCHANGED segs
  <2> DEFINE k == h(sink[p].next)
  <2>1. /\ k \in SinkStates /\ k.pc = "idle" /\ k.rec = NoRec /\ k.seg = NoSeg
        /\ k.next = sink[p].next
    BY <1>1 DEF SinkStates
  <2> HIDE DEF k
  <2>2. sink'[p] = k /\ sink' = [sink EXCEPT ![p] = k]
    BY <1>4 DEF SpoolInv, k
  <2>3. SinkIsSound(p)'
    BY <1>1, <1>4, <2>1, <2>2 DEF SinkIsSound, OwnsItsFile
  <2> QED
    BY <1>1, <1>2, <1>3, <1>4, <2>1, <2>2, <2>3, PlaceStep
<1>5. CASE /\ sink[p].next < MaxSegments
           /\ sink' = [sink EXCEPT ![p] = h(sink[p].next + 1)]
           /\ segs' = [s \in Segs |-> IF s = cur THEN Sealed(segs[s], sink[p].size) ELSE segs[s]]
  <2> DEFINE k == h(sink[p].next + 1)
             new == <<p, sink[p].next>>
  <2>1. sink[p].next + 1 \in 0..MaxSegments /\ new \in Segs /\ sink[p].next \in sink[p].next..MaxSegments-1
    BY <1>1, <1>5, SpoolAssumption DEF SinkStates, Segs
  <2>2. /\ k \in SinkStates /\ k.pc = "idle" /\ k.rec = NoRec /\ k.seg = NoSeg
        /\ k.next = sink[p].next + 1
    BY <1>1, <2>1 DEF SinkStates
  <2>3. segs[new] = NoFile
    BY <1>1, <2>1 DEF SinkIsSound
  <2>4. segs' = [s \in Segs |-> IF s = cur THEN Sealed(segs[s], sink[p].size)
                                ELSE IF s = new THEN NoFile ELSE segs[s]]
    BY <1>5, <2>3
  <2> HIDE DEF k
  <2>5. sink'[p] = k /\ sink' = [sink EXCEPT ![p] = k]
    BY <1>5 DEF SpoolInv, k
  <2>6. ASSUME NEW m \in sink[p].next + 1..MaxSegments-1 PROVE segs'[<<p, m>>] = NoFile
    <3>1. <<p, m>> \in Segs /\ m \in sink[p].next..MaxSegments-1
      BY <1>1, SpoolAssumption DEF Segs, SinkStates
    <3>2. cur # NoSeg => cur[2] < sink[p].next
      BY <1>1 DEF SinkIsSound, OwnsItsFile
    <3>3. <<p, m>> # cur
      BY <2>1, <3>1, <3>2, SpoolAssumption, NoSegIsNoSegment
    <3> QED
      BY <1>1, <1>5, <3>1, <3>3 DEF SinkIsSound
  <2>7. SinkIsSound(p)'
    BY <2>2, <2>5, <2>6 DEF SinkIsSound, OwnsItsFile
  <2> QED
    BY <1>1, <1>2, <1>3, <1>5, <2>2, <2>4, <2>5, <2>7, PlaceStep
<1> QED
  BY <1>4, <1>5 DEF PlaceFails, SpoolInv

\* The shipper takes sealed files only, which no sink has open.
LEMMA ShipperInv ==
  ASSUME SpoolInv, NEW s \in Segs, ShipperDelete(s) \/ ShipperQuarantine(s)
  PROVE  SpoolInv' /\ FilesGrow
<1>1. PICK life \in {"deleted", "rejected"} :
        segs[s].life = "jsonl" /\ segs' = [segs EXCEPT ![s].life = life] /\ UNCHANGED <<sink, fate>>
  BY DEF ShipperDelete, ShipperQuarantine
<1> DEFINE g == [segs[s] EXCEPT !.life = life]
<1>2. segs[s] \in FileStates /\ FileIsSound(segs[s])
  BY DEF SpoolInv
<1>3. /\ g \in FileStates /\ g.recs = segs[s].recs /\ g.bytes = segs[s].bytes /\ g.torn = segs[s].torn
      /\ g.life = life
  <2>1. life \in Lives
    BY DEF Lives, OnDisk
  <2> QED
    BY <1>2, <2>1 DEF FileStates
<1>4. FileIsSound(g)
  BY <1>1, <1>2, <1>3 DEF FileIsSound
<1>5. segs' = [segs EXCEPT ![s] = g]
  BY <1>1 DEF SpoolInv
<1> HIDE DEF g
<1>6. segs' \in [Segs -> FileStates] /\ segs'[s] = g /\ \A t \in Segs : t # s => segs'[t] = segs[t]
  BY <1>3, <1>5 DEF SpoolInv
<1>7. ASSUME NEW p \in Procs PROVE SinkIsSound(p)'
  <2>1. SinkIsSound(p) /\ sink[p] \in SinkStates
    BY DEF SpoolInv
  <2>2. sink[p].seg # s
    BY <1>1, <2>1, NoSegIsNoSegment DEF SinkIsSound, OwnsItsFile
  <2>3. OwnsItsFile(p)'
    BY <1>1, <1>6, <2>1, <2>2 DEF SinkIsSound, OwnsItsFile
  <2>4. ASSUME NEW n \in sink[p].next..MaxSegments-1, segs[<<p, n>>] = NoFile PROVE segs'[<<p, n>>] = NoFile
    <3>1. <<p, n>> \in Segs
      BY <2>1, SpoolAssumption DEF SinkStates, Segs
    <3> QED
      BY <1>1, <1>6, <2>4, <3>1 DEF NoFile
  <2> QED
    BY <1>1, <2>1, <2>3, <2>4 DEF SinkIsSound
<1>8. \A t \in Segs : segs'[t].recs = segs[t].recs /\ FileIsSound(segs'[t])
  BY <1>3, <1>4, <1>6 DEF SpoolInv
<1>9. CapturedIsWritten'
  BY <1>1, <1>8 DEF SpoolInv, CapturedIsWritten
<1>10. FilesGrow
  BY <1>8 DEF FilesGrow
<1> QED
  BY <1>1, <1>6, <1>7, <1>8, <1>9, <1>10 DEF SpoolInv, RecordsAreOwned

LEMMA ProducerInv == ASSUME SpoolInv, Producer PROVE SpoolInv'
<1>1. PICK p \in Procs : ProducerWorks(p) \/ ProducerFails(p)
  BY DEF Producer
<1> QED
  BY <1>1, StartInv, BeginAppendInv, ScanDirectoryInv, StatDirectoryInv, PlaceRecordInv,
     WriteSomeInv, WriteRestInv, CloseInv, ProducerCrashInv, PlaceFailsInv, WriteFailInv
     DEF ProducerWorks, ProducerFails

LEMMA SpoolStepInv == SpoolInv /\ [NextSpool]_spoolVars => SpoolInv'
<1>1. ASSUME SpoolInv, UNCHANGED spoolVars PROVE SpoolInv'
  BY <1>1 DEF spoolVars, SpoolInv, SinkIsSound, OwnsItsFile, RecordsAreOwned, CapturedIsWritten
<1> QED
  BY <1>1, ProducerInv, ShipperInv DEF NextSpool

---------------------------------------------------------------------------
\* A sink and its file agree, and no two sinks share a file or a record (SpoolInv).
THEOREM SpoolInvariant == SpoolSpec => []SpoolInv
BY SpoolInitInv, SpoolStepInv, PTL DEF SpoolSpec

\* FileCaptureSink._append: a record whose capture call returned is a complete line of a
\* file, and a sealed file ends with a complete line.
THEOREM CapturedRecordsAreWhole == SpoolSpec => []CapturedIsWhole
<1>1. SpoolInv => CapturedIsWhole
  BY DEF SpoolInv, FileIsSound, CapturedIsWhole, SealedIsComplete
<1> QED
  BY <1>1, SpoolInvariant, PTL

\* Processes, their sinks and the files of a spool keep to their types; a size is never negative.
THEOREM SpoolTypes == SpoolSpec => []SpoolTypeOK
<1>1. SpoolInv => SpoolTypeOK
  BY DEF SpoolInv, SpoolTypeOK, FileStates, Fates
<1> QED
  BY <1>1, SpoolInvariant, PTL

\* _open_segment rotates before the write that would cross segment_bytes.
THEOREM SegmentsAreBounded == SpoolSpec => []SegmentBound
<1>1. SpoolInv => SegmentBound
  BY DEF SpoolInv, FileIsSound, SegmentBound
<1> QED
  BY <1>1, SpoolInvariant, PTL

---------------------------------------------------------------------------
\* What a step of a process does to a file.

OwnedStep(s) ==
  /\ segs[s].bytes # segs'[s].bytes =>
       segs[s].life = "open" /\ sink[s[1]].pc = "write" /\ sink[s[1]].seg = s
  /\ segs[s].life = "open" /\ segs'[s].life = "deleted" => segs[s].bytes = 0

WritesNoRecord(s) ==
  /\ segs'[s].recs = segs[s].recs
  /\ \/ segs'[s].life = segs[s].life
     \/ segs[s].life = "open" /\ segs'[s].life = "jsonl"
     \/ segs[s].recs = <<>> /\ segs'[s].life \in {"open", "deleted"}

\* Sealing writes nothing, and removes only what is empty.
LEMMA SealingIsSafe ==
  ASSUME SpoolInv, NEW p \in Procs, sink[p].pc \in {"place", "idle"}, NEW s \in Segs, s = sink[p].seg,
         segs'[s] = Sealed(segs[s], sink[p].size)
  PROVE  OwnedStep(s) /\ WritesNoRecord(s)
<1>1. /\ segs[s] \in FileStates /\ SinkIsSound(p) /\ sink[p] \in SinkStates
  BY DEF SpoolInv
<1>2. /\ s # NoSeg /\ segs[s].life = "open" /\ segs[s].torn = 0 /\ segs[s].bytes = sink[p].size + 0
      /\ sink[p].size \in Nat /\ sink[p].size = 0 => segs[s].recs = <<>>
  BY <1>1, NoSegIsNoSegment DEF SinkIsSound, OwnsItsFile, SinkStates
<1>3. /\ segs'[s].life = IF sink[p].size = 0 THEN "deleted" ELSE "jsonl"
      /\ segs'[s].bytes = segs[s].bytes /\ segs'[s].recs = segs[s].recs
  BY <1>1, SealedFile
<1> QED
  BY <1>1, <1>2, <1>3 DEF OwnedStep, WritesNoRecord, SinkIsSound, OwnsItsFile

LEMMA ProcessWrites ==
  ASSUME SpoolInv, NEW p \in Procs, ProducerWorks(p) \/ ProducerFails(p), NEW s \in Segs
  PROVE  OwnedStep(s) /\ (WriteRest(p) \/ WritesNoRecord(s))
<1>1. /\ segs \in [Segs -> FileStates] /\ segs[s] \in FileStates
      /\ SinkIsSound(p) /\ sink[p] \in SinkStates
  BY DEF SpoolInv
<1>2. CASE segs'[s] = segs[s]
  BY <1>2 DEF OwnedStep, WritesNoRecord
<1>3. CASE WriteRest(p) \/ \E n \in 1..MaxRecordBytes : WriteSome(p, n)
  <2>1. /\ sink[p].pc = "write" /\ sink[p].seg \in Segs /\ sink[p].seg[1] = p
        /\ segs[sink[p].seg].life = "open"
    BY ZenonT(40), <1>1, <1>3, NoSegIsNoSegment DEF WriteRest, WriteSome, SinkIsSound, OwnsItsFile
  <2>2. CASE s # sink[p].seg
    BY <1>1, <1>2, <1>3, <2>2 DEF WriteRest, WriteSome
  <2>3. CASE s = sink[p].seg
    <3>1. segs'[s].life = "open" /\ (WriteRest(p) \/ segs'[s].recs = segs[s].recs)
      <4>1. ASSUME NEW n \in 1..MaxRecordBytes, WriteSome(p, n)
            PROVE  segs'[s] = [segs[s] EXCEPT !.torn = n, !.bytes = segs[s].bytes + n]
        BY <1>1, <2>3, <4>1 DEF WriteSome
      <4>2. ASSUME WriteRest(p)
            PROVE  \E recs, bytes : segs'[s] = [segs[s] EXCEPT !.recs = recs, !.torn = 0, !.bytes = bytes]
        BY <1>1, <2>3, <4>2 DEF WriteRest
      <4> QED
        BY ZenonT(40), <1>1, <1>3, <2>1, <2>3, <4>1, <4>2 DEF FileStates
    <3> QED
      BY SMTT(30), <2>1, <2>3, <3>1 DEF OwnedStep, WritesNoRecord
  <2> QED
    BY SMTT(30), <2>2, <2>3
<1>4. CASE WriteFail(p)
  <2>1. /\ sink[p].pc = "write" /\ sink[p].seg \in Segs /\ sink[p].seg[1] = p /\ sink[p].size \in Nat
        /\ segs[sink[p].seg].life = "open" /\ segs[sink[p].seg].torn \in Nat
        /\ segs[sink[p].seg].bytes = sink[p].size + segs[sink[p].seg].torn
        /\ sink[p].size = 0 => segs[sink[p].seg].recs = <<>>
    BY <1>1, <1>4, NoSegIsNoSegment DEF WriteFail, SinkIsSound, OwnsItsFile, SinkStates, FileStates
  <2>2. CASE s # sink[p].seg
    BY <1>1, <1>2, <1>4, <2>2 DEF WriteFail
  <2>3. CASE s = sink[p].seg
    <3>1. /\ segs'[s].bytes = segs[s].bytes /\ segs'[s].recs = segs[s].recs
          /\ segs'[s].life = IF sink[p].size + segs[s].torn = 0 THEN "deleted" ELSE segs[s].life
      BY <1>1, <1>4, <2>1, <2>3 DEF WriteFail, FileStates
    <3> QED
      BY <2>1, <2>3, <3>1 DEF OwnedStep, WritesNoRecord
  <2> QED
    BY <2>2, <2>3
<1>5. CASE Close(p)
  BY <1>1, <1>2, <1>5, SealingIsSafe DEF Close
<1>6. CASE PlaceFails(p)
  BY <1>1, <1>2, <1>6, SealingIsSafe DEF PlaceFails
<1>7. CASE PlaceRecord(p) /\ segs'[s] # segs[s]
  <2>1. /\ sink[p].next < MaxSegments /\ sink[p].pc = "place"
        /\ segs'[s] = CASE s = <<p, sink[p].next>> -> [NoFile EXCEPT !.life = "open"]
                        [] s = sink[p].seg -> Sealed(segs[s], sink[p].size)
                        [] OTHER   -> segs[s]
    BY <1>7 DEF PlaceRecord
  <2>2. CASE s = <<p, sink[p].next>>
    <3>1. segs'[s].recs = <<>> /\ segs'[s].life = "open" /\ segs'[s].bytes = 0
      <4>1. sink[p].next \in Nat /\ (sink[p].seg # NoSeg => sink[p].seg[2] < sink[p].next)
        BY <1>1, SpoolAssumption DEF SinkIsSound, OwnsItsFile, SinkStates
      <4>2. s # sink[p].seg
        BY <2>2, <4>1, NoSegIsNoSegment
      <4>3. segs'[s] = [NoFile EXCEPT !.life = "open"]
        BY <2>1, <2>2, <4>2
      <4> QED
        BY <4>3 DEF NoFile
    <3>2. segs[s] = NoFile
      BY <1>1, <2>1, <2>2, SpoolAssumption DEF SinkIsSound, SinkStates, Segs
    <3> QED
      BY <3>1, <3>2 DEF NoFile, OwnedStep, WritesNoRecord
  <2>3. CASE s # <<p, sink[p].next>>
    <3>1. s = sink[p].seg /\ segs'[s] = Sealed(segs[s], sink[p].size)
      BY <1>7, <2>1, <2>3
    <3> QED
      BY <2>1, <3>1, SealingIsSafe
  <2> QED
    BY <2>2, <2>3
<1>8. CASE UNCHANGED segs
  BY <1>2, <1>8
<1> QED
  BY ZenonT(40), <1>2, <1>3, <1>4, <1>5, <1>6, <1>7, <1>8
     DEF ProducerWorks, ProducerFails, Start, BeginAppend, ScanDirectory, StatDirectory, ProducerCrash

\* _write_all: a file grows only by its own sink, while it is open; a producer removes it
\* only while nothing is in it.
THEOREM SegmentsHaveOwners == SpoolSpec => SegmentsAreOwned
<1>1. ASSUME SpoolInv, [NextSpool]_spoolVars
      PROVE  [\A s \in Segs : OwnedStep(s)]_spoolVars
  <2>1. ASSUME NEW t \in Segs, ShipperDelete(t) \/ ShipperQuarantine(t), NEW s \in Segs PROVE OwnedStep(s)
    <3>1. /\ segs[t].life = "jsonl" /\ segs \in [Segs -> FileStates]
          /\ \E life \in Lives : segs' = [segs EXCEPT ![t].life = life]
      BY <1>1, <2>1 DEF ShipperDelete, ShipperQuarantine, SpoolInv, Lives, OnDisk
    <3>2. segs'[s].bytes = segs[s].bytes /\ (s # t => segs'[s] = segs[s])
      BY <3>1 DEF FileStates
    <3> QED
      BY <3>1, <3>2 DEF OwnedStep
  <2> QED
    BY <1>1, <2>1, ProcessWrites DEF NextSpool, Producer
<1> QED
  BY <1>1, SpoolInvariant, PTL DEF SpoolSpec, SegmentsAreOwned, OwnedStep

---------------------------------------------------------------------------
\* The quota, for one live process at a time.

\* The files that wait to be shipped.
Unshipped == {"open", "jsonl"}

Backlog == BytesWith(Unshipped)

\* What a sink knows of the directory: while it measures, all that waits is listed; after
\* that all of it is counted but what was written of the record in hand.
MeasureIsSound(p) ==
  LET h == sink[p]
  IN /\ h.pc = "stat" => \A s \in Segs : segs[s].life \in Unshipped => Path(s) \in h.listed
     /\ h.pc \in {"idle", "place"} => Backlog <= h.dirSize
     /\ h.pc = "write" => Backlog <= h.dirSize + segs[h.seg].torn
     /\ h.pc \in {"place", "write"} => h.dirSize + Size[h.rec] <= DirectoryBytes

QuotaInv ==
  /\ \A p, q \in Procs : sink[p].pc # "down" /\ sink[q].pc # "down" => p = q
  /\ Backlog <= DirectoryBytes
  /\ \A p \in Procs : MeasureIsSound(p)

\* No more than k places of one file are new.
LEMMA FewPlaces ==
  ASSUME NEW S, IsFiniteSet(S), NEW s, NEW b \in Nat, NEW k \in Nat,
         NEW T, T \subseteq S \cup ({s} \X (b + 1..b + k))
  PROVE  IsFiniteSet(T) /\ Cardinality(T) <= Cardinality(S) + k
<1> DEFINE new == {s} \X (b + 1..b + k)
<1>1. IsFiniteSet(b + 1..b + k) /\ Cardinality(b + 1..b + k) = k
  <2>1. b + 1 \in Int /\ b + k \in Int
    OBVIOUS
  <2>2. /\ IsFiniteSet(b + 1..b + k)
        /\ Cardinality(b + 1..b + k) = IF b + 1 > b + k THEN 0 ELSE (b + k) - (b + 1) + 1
    BY <2>1, FS_Interval
  <2> QED
    BY <2>2
<1>2. IsFiniteSet({s}) /\ Cardinality({s}) = 1
  BY FS_Singleton
<1>3. IsFiniteSet(new) /\ Cardinality(new) = k
  <2>1. IsFiniteSet(new) /\ Cardinality(new) = Cardinality({s}) * Cardinality(b + 1..b + k)
    BY <1>1, <1>2, FS_Product
  <2> QED
    BY <1>1, <1>2, <2>1
<1> HIDE DEF new
<1>4. /\ IsFiniteSet(S \cup new) /\ Cardinality(S \cup new) = Cardinality(S) + k - Cardinality(S \cap new)
  BY <1>3, FS_Union
<1>5. Cardinality(S \cap new) \in Nat /\ Cardinality(S) \in Nat /\ Cardinality(S \cup new) \in Nat
  <2>1. IsFiniteSet(S \cap new)
    BY FS_Intersection
  <2> QED
    BY <1>4, <2>1, FS_CardinalityType
<1>6. IsFiniteSet(T) /\ Cardinality(T) <= Cardinality(S \cup new)
  <2>1. T \in SUBSET (S \cup new)
    BY DEF new
  <2> QED
    BY <1>4, <2>1, FS_Subset
<1>7. Cardinality(T) \in Nat
  BY <1>6, FS_CardinalityType
<1> QED
  BY <1>4, <1>5, <1>6, <1>7

LEMMA BacklogMeans == SpoolInv => Backlog \in Nat
BY PlacesAreFinite DEF Backlog, BytesWith

\* What waits grows by what one file grows: the others do not, new ones are empty.
LEMMA BacklogGrows ==
  ASSUME SpoolInv, segs' \in [Segs -> FileStates], NEW s \in Segs, NEW k \in Nat,
         segs[s].life \in Unshipped, segs'[s].bytes <= segs[s].bytes + k,
         \A t \in Segs : t # s /\ segs'[t].life \in Unshipped =>
            segs'[t].bytes = 0 \/ (segs[t].life \in Unshipped /\ segs'[t].bytes = segs[t].bytes)
  PROVE  Backlog' \in Nat /\ Backlog' <= Backlog + k
<1> DEFINE old == {t \in Segs : segs[t].life \in Unshipped}
           new == {t \in Segs : segs'[t].life \in Unshipped}
           after == UNION {{t} \X (1..segs'[t].bytes) : t \in new}
<1>1. Backlog' = Cardinality(after)
  BY DEF Backlog, BytesWith, BytesOf
<1>2. IsFiniteSet(Places(old)) /\ Backlog = Cardinality(Places(old))
  <2>1. BytesOf(old) = Cardinality(Places(old)) /\ IsFiniteSet(Places(old))
    BY PlacesAreFinite
  <2> QED
    BY <2>1 DEF Backlog, BytesWith
<1>3. \A t \in Segs : segs[t].bytes \in Nat /\ segs'[t].bytes \in Nat
  BY DEF SpoolInv, FileStates
<1>4. after \subseteq Places(old) \cup ({s} \X (segs[s].bytes + 1..segs[s].bytes + k))
  <2> SUFFICES ASSUME NEW x \in after
               PROVE  x \in Places(old) \/ x \in {s} \X (segs[s].bytes + 1..segs[s].bytes + k)
    OBVIOUS
  <2>1. PICK t \in new : x \in {t} \X (1..segs'[t].bytes)
    OBVIOUS
  <2>2. PICK i \in 1..segs'[t].bytes : x = <<t, i>>
    BY <2>1
  <2>3. t \in Segs /\ segs'[t].life \in Unshipped
    OBVIOUS
  <2>4. CASE t # s
    <3>1. t \in old /\ i \in 1..segs[t].bytes
      BY <1>3, <2>2, <2>3, <2>4
    <3> QED
      BY <2>2, <3>1, PlacesMean
  <2>5. CASE t = s
    <3>1. s \in old
      OBVIOUS
    <3>2. i \in 1..segs[s].bytes \/ i \in segs[s].bytes + 1..segs[s].bytes + k
      BY <1>3, <2>2, <2>5
    <3> QED
      BY <2>2, <2>5, <3>1, <3>2, PlacesMean
  <2> QED
    BY <2>4, <2>5
<1> HIDE DEF old, new, after
<1>5. IsFiniteSet(after) /\ Cardinality(after) <= Cardinality(Places(old)) + k
  BY <1>2, <1>3, <1>4, FewPlaces
<1> QED
  BY <1>1, <1>2, <1>5, FS_CardinalityType

LEMMA BacklogShrinks ==
  ASSUME SpoolInv, segs' \in [Segs -> FileStates],
         \A t \in Segs : segs'[t].life \in Unshipped =>
            segs'[t].bytes = 0 \/ (segs[t].life \in Unshipped /\ segs'[t].bytes = segs[t].bytes)
  PROVE  Backlog' \in Nat /\ Backlog' <= Backlog
<1> DEFINE old == {t \in Segs : segs[t].life \in Unshipped}
           new == {t \in Segs : segs'[t].life \in Unshipped}
           after == UNION {{t} \X (1..segs'[t].bytes) : t \in new}
<1>1. Backlog' = Cardinality(after)
  BY DEF Backlog, BytesWith, BytesOf
<1>2. IsFiniteSet(Places(old)) /\ Backlog = Cardinality(Places(old))
  <2>1. BytesOf(old) = Cardinality(Places(old)) /\ IsFiniteSet(Places(old))
    BY PlacesAreFinite
  <2> QED
    BY <2>1 DEF Backlog, BytesWith
<1>3. after \subseteq Places(old)
  <2> SUFFICES ASSUME NEW x \in after PROVE x \in Places(old)
    OBVIOUS
  <2>1. PICK t \in new : x \in {t} \X (1..segs'[t].bytes)
    OBVIOUS
  <2>2. PICK i \in 1..segs'[t].bytes : x = <<t, i>>
    BY <2>1
  <2>3. t \in old /\ i \in 1..segs[t].bytes
    BY <2>2
  <2> QED
    BY <2>2, <2>3, PlacesMean
<1> HIDE DEF old, new, after
<1>4. IsFiniteSet(after) /\ Cardinality(after) <= Cardinality(Places(old))
  BY <1>2, <1>3, FS_Subset
<1> QED
  BY <1>1, <1>2, <1>4, FS_CardinalityType

\* While nothing on disk changes.
LEMMA BacklogStays == ASSUME SpoolInv, UNCHANGED segs PROVE Backlog' = Backlog /\ Backlog \in Nat
BY BacklogMeans DEF Backlog, BytesWith, BytesOf


\* What waits of a directory is among what was listed of it.
LEMMA BacklogIsListed ==
  ASSUME SpoolInv, NEW listed, \A s \in Segs : segs[s].life \in Unshipped => Path(s) \in listed
  PROVE  Backlog <= StatBytes(listed)
<1> DEFINE old == {t \in Segs : segs[t].life \in Unshipped}
           files == {t \in Segs : Path(t) \in listed}
<1>1. IsFiniteSet(Places(files)) /\ StatBytes(listed) = Cardinality(Places(files))
  <2>1. BytesOf(files) = Cardinality(Places(files)) /\ IsFiniteSet(Places(files))
    BY PlacesAreFinite
  <2> QED
    BY <2>1 DEF StatBytes
<1>2. Backlog = Cardinality(Places(old))
  <2>1. BytesOf(old) = Cardinality(Places(old))
    BY PlacesAreFinite
  <2> QED
    BY <2>1 DEF Backlog, BytesWith
<1>3. old \subseteq files
  OBVIOUS
<1> HIDE DEF old, files
<1>4. Places(old) \subseteq Places(files)
  BY <1>3, PlacesMean
<1> QED
  BY <1>1, <1>2, <1>4, FS_Subset

\* A step of the only process there is.
LEMMA QuotaStep ==
  ASSUME SpoolInv, QuotaInv, NEW p \in Procs, NEW h, sink' = [sink EXCEPT ![p] = h],
         sink[p].pc # "down" \/ \A q \in Procs : sink[q].pc = "down",
         Backlog' <= DirectoryBytes, MeasureIsSound(p)'
  PROVE  QuotaInv'
<1>1. sink'[p] = h /\ \A q \in Procs : q # p => sink'[q] = sink[q] /\ sink[q].pc = "down"
  BY DEF SpoolInv, QuotaInv
<1>2. ASSUME NEW q \in Procs, q # p PROVE MeasureIsSound(q)'
  <2>1. sink'[q] = sink[q] /\ sink[q].pc = "down"
    BY <1>1, <1>2
  <2> QED
    BY <2>1 DEF MeasureIsSound
<1>3. \A q, z \in Procs : sink'[q].pc # "down" /\ sink'[z].pc # "down" => q = z
  BY <1>1
<1> QED
  BY <1>2, <1>3 DEF QuotaInv

LEMMA QuotaInit == InitSpool => QuotaInv
<1> SUFFICES ASSUME InitSpool PROVE QuotaInv
  OBVIOUS
<1>1. NoSink.pc = "down" /\ NoSink.dirSize = 0
  BY DEF NoSink
<1>2. \A p \in Procs : sink[p] = NoSink
  BY DEF InitSpool
<1>3. \A s \in Segs : segs[s].life = "absent"
  BY DEF InitSpool, NoFile
<1>4. Backlog = 0
  <2>1. {s \in Segs : segs[s].life \in Unshipped} = {}
    BY <1>3 DEF Unshipped
  <2>2. BytesOf({}) = Cardinality({})
    BY DEF BytesOf
  <2> QED
    BY <2>1, <2>2, FS_EmptySet DEF Backlog, BytesWith
<1> QED
  BY <1>1, <1>2, <1>4, SpoolAssumption DEF QuotaInv, MeasureIsSound

LEMMA StartQuota ==
  ASSUME SpoolInv, QuotaInv, ~SharedSpool, NEW p \in Procs, Start(p) PROVE QuotaInv'
<1> DEFINE h == [NoSink EXCEPT !.pc = "scan"]
<1>1. /\ sink' = [sink EXCEPT ![p] = h] /\ UNCHANGED segs
      /\ \A q \in Procs : sink[q].pc = "down"
  BY DEF Start
<1>2. h.pc = "scan" /\ h.dirSize = 0
  BY DEF NoSink
<1> HIDE DEF h
<1>3. sink'[p] = h
  BY <1>1 DEF SpoolInv
<1>4. MeasureIsSound(p)' /\ Backlog' <= DirectoryBytes
  BY <1>1, <1>2, <1>3, BacklogStays DEF MeasureIsSound, QuotaInv
<1> QED
  BY <1>1, <1>4, QuotaStep

LEMMA ProducerCrashQuota == ASSUME SpoolInv, QuotaInv, NEW p \in Procs, ProducerCrash(p) PROVE QuotaInv'
<1>1. sink' = [sink EXCEPT ![p] = NoSink] /\ UNCHANGED segs /\ sink[p].pc # "down"
  BY DEF ProducerCrash
<1>2. NoSink.pc = "down" /\ NoSink.dirSize = 0
  BY DEF NoSink
<1>3. sink'[p] = NoSink
  BY <1>1 DEF SpoolInv
<1>4. MeasureIsSound(p)' /\ Backlog' <= DirectoryBytes
  BY <1>1, <1>2, <1>3, BacklogStays DEF MeasureIsSound, QuotaInv
<1> QED
  BY <1>1, <1>4, QuotaStep

LEMMA BeginAppendQuota ==
  ASSUME SpoolInv, QuotaInv, NEW p \in Procs, NEW r \in Records, BeginAppend(p, r) PROVE QuotaInv'
<1> DEFINE pc == IF sink[p].dirSize + Size[r] > DirectoryBytes THEN "scan" ELSE "place"
           h == [sink[p] EXCEPT !.rec = r, !.pc = pc]
<1>1. /\ sink[p].pc = "idle" /\ sink' = [sink EXCEPT ![p] = h] /\ UNCHANGED segs
  BY DEF BeginAppend, SpoolInv
<1>2. sink[p] \in SinkStates /\ MeasureIsSound(p) /\ Backlog <= DirectoryBytes
  BY DEF SpoolInv, QuotaInv
<1>3. Size[r] \in Nat /\ sink[p].dirSize \in Nat /\ DirectoryBytes \in Nat /\ Backlog <= sink[p].dirSize
  BY <1>1, <1>2, RecordAssumption, SpoolAssumption DEF MeasureIsSound, SinkStates
<1>4. pc = "scan" \/ (pc = "place" /\ sink[p].dirSize + Size[r] <= DirectoryBytes)
  BY <1>3
<1> HIDE DEF pc
<1>5. h.pc = pc /\ h.rec = r /\ h.dirSize = sink[p].dirSize
  BY <1>2 DEF SinkStates
<1> HIDE DEF h
<1>6. sink'[p] = h
  BY <1>1 DEF SpoolInv
<1>7. MeasureIsSound(p)' /\ Backlog' <= DirectoryBytes
  BY <1>1, <1>2, <1>3, <1>4, <1>5, <1>6, BacklogStays DEF MeasureIsSound
<1> QED
  BY <1>1, <1>7, QuotaStep

LEMMA ScanDirectoryQuota == ASSUME SpoolInv, QuotaInv, NEW p \in Procs, ScanDirectory(p) PROVE QuotaInv'
<1> DEFINE h == [sink[p] EXCEPT !.pc = "stat", !.listed = Listing]
<1>1. /\ sink[p].pc = "scan" /\ sink' = [sink EXCEPT ![p] = h] /\ UNCHANGED segs
  BY DEF ScanDirectory, SpoolInv
<1>2. sink[p] \in SinkStates /\ MeasureIsSound(p) /\ Backlog <= DirectoryBytes
  BY DEF SpoolInv, QuotaInv
<1>3. h.pc = "stat" /\ h.listed = Listing /\ h.dirSize = sink[p].dirSize
  BY <1>2 DEF SinkStates
<1> HIDE DEF h
<1>4. sink'[p] = h
  BY <1>1 DEF SpoolInv
<1>5. \A s \in Segs : segs'[s].life \in Unshipped => Path(s)' \in Listing
  BY <1>1 DEF Listing, Path, Unshipped, OnDisk
<1>6. MeasureIsSound(p)' /\ Backlog' <= DirectoryBytes
  BY <1>1, <1>2, <1>3, <1>4, <1>5, BacklogStays DEF MeasureIsSound
<1> QED
  BY <1>1, <1>6, QuotaStep

LEMMA StatDirectoryQuota == ASSUME SpoolInv, QuotaInv, NEW p \in Procs, StatDirectory(p) PROVE QuotaInv'
<1> DEFINE size == StatBytes(sink[p].listed)
           over == sink[p].rec # NoRec /\ size + Size[sink[p].rec] > DirectoryBytes
           pc == IF sink[p].rec = NoRec \/ over THEN "idle" ELSE "place"
           rec == IF over THEN NoRec ELSE sink[p].rec
           h == [sink[p] EXCEPT !.listed = {}, !.dirSize = size, !.pc = pc, !.rec = rec]
<1>1. /\ sink[p].pc = "stat" /\ sink' = [sink EXCEPT ![p] = h] /\ UNCHANGED segs
  BY DEF StatDirectory, SpoolInv
<1>2. sink[p] \in SinkStates /\ MeasureIsSound(p) /\ Backlog <= DirectoryBytes
  BY DEF SpoolInv, QuotaInv
<1>3. size \in Nat /\ Backlog <= size
  <2>1. \A s \in Segs : segs[s].life \in Unshipped => Path(s) \in sink[p].listed
    BY <1>1, <1>2 DEF MeasureIsSound
  <2> QED
    BY <2>1, SizesAreNumbers, BacklogIsListed
<1> HIDE DEF size
<1>4. pc = "idle" \/ (pc = "place" /\ rec = sink[p].rec /\ size + Size[rec] <= DirectoryBytes)
  <2>1. CASE sink[p].rec = NoRec \/ over
    BY <2>1
  <2>2. CASE sink[p].rec # NoRec /\ ~over
    <3>1. size + Size[sink[p].rec] \in Nat /\ DirectoryBytes \in Nat
      BY <1>2, <1>3, <2>2, RecordAssumption, SpoolAssumption DEF SinkStates
    <3> QED
      BY <2>2, <3>1
  <2> QED
    BY <2>1, <2>2
<1> HIDE DEF over, pc, rec
<1>5. h.pc = pc /\ h.rec = rec /\ h.dirSize = size
  BY <1>2 DEF SinkStates
<1> HIDE DEF h
<1>6. sink'[p] = h
  BY <1>1 DEF SpoolInv
<1>7. MeasureIsSound(p)' /\ Backlog' <= DirectoryBytes
  BY <1>1, <1>2, <1>3, <1>4, <1>5, <1>6, BacklogStays DEF MeasureIsSound
<1> QED
  BY <1>1, <1>7, QuotaStep

\* Sealing keeps the size of a file, and a new file is empty.
LEMMA PlaceQuota ==
  ASSUME SpoolInv, SpoolInv', QuotaInv, NEW p \in Procs,
         \/ UNCHANGED segs
         \/ \A s \in Segs : \/ segs'[s] = segs[s]
                            \/ segs'[s].bytes = 0
                            \/ /\ sink[p].seg # NoSeg /\ s = sink[p].seg
                               /\ segs'[s] = Sealed(segs[s], sink[p].size)
  PROVE  Backlog' \in Nat /\ Backlog' <= Backlog /\ Backlog \in Nat
<1>1. segs \in [Segs -> FileStates] /\ segs' \in [Segs -> FileStates] /\ SinkIsSound(p)
  BY DEF SpoolInv
<1>2. CASE UNCHANGED segs
  BY <1>2, BacklogStays
<1>3. CASE ~UNCHANGED segs
  <2>1. ASSUME NEW s \in Segs, segs'[s].life \in Unshipped
        PROVE  segs'[s].bytes = 0 \/ (segs[s].life \in Unshipped /\ segs'[s].bytes = segs[s].bytes)
    <3>1. CASE sink[p].seg # NoSeg /\ s = sink[p].seg /\ segs'[s] = Sealed(segs[s], sink[p].size)
      <4>1. segs[s].life = "open"
        BY <1>1, <3>1 DEF SinkIsSound, OwnsItsFile
      <4>2. segs'[s].bytes = segs[s].bytes
        BY <1>1, <3>1, SealedFile
      <4> QED
        BY <4>1, <4>2 DEF Unshipped
    <3> QED
      BY <1>3, <2>1, <3>1
  <2> QED
    BY <1>1, <2>1, BacklogShrinks, BacklogMeans
<1> QED
  BY <1>2, <1>3

LEMMA PlaceRecordQuota == ASSUME SpoolInv, QuotaInv, NEW p \in Procs, PlaceRecord(p) PROVE QuotaInv'
<1>1. /\ sink[p] \in SinkStates /\ MeasureIsSound(p) /\ SinkIsSound(p) /\ SpoolInv'
      /\ Backlog <= DirectoryBytes /\ sink[p].pc = "place" /\ Backlog <= sink[p].dirSize
      /\ sink[p].dirSize + Size[sink[p].rec] <= DirectoryBytes /\ sink[p].dirSize \in Nat
  BY PlaceRecordInv DEF SpoolInv, QuotaInv, PlaceRecord, MeasureIsSound, SinkStates
<1>2. PICK seg, next, size :
        sink' = [sink EXCEPT ![p] = [sink[p] EXCEPT !.pc = "write", !.seg = seg, !.next = next, !.size = size]]
  <2>1. CASE sink' = [sink EXCEPT ![p].pc = "write"]
    <3>1. sink' = [sink EXCEPT ![p] = [sink[p] EXCEPT !.pc = "write", !.seg = sink[p].seg,
                                                     !.next = sink[p].next, !.size = sink[p].size]]
      BY ZenonT(40), <1>1, <2>1 DEF SpoolInv, SinkStates
    <3> QED
      BY <3>1
  <2>2. CASE sink' = [sink EXCEPT ![p].pc = "write", ![p].seg = <<p, sink[p].next>>,
                           ![p].next = @ + 1, ![p].size = 0]
    <3>1. sink' = [sink EXCEPT ![p] = [sink[p] EXCEPT !.pc = "write", !.seg = <<p, sink[p].next>>,
                                                     !.next = sink[p].next + 1, !.size = 0]]
      BY <2>2 DEF SpoolInv
    <3> QED
      BY <3>1
  <2> QED
    BY <2>1, <2>2 DEF PlaceRecord
<1> DEFINE h == [sink[p] EXCEPT !.pc = "write", !.seg = seg, !.next = next, !.size = size]
<1>3. h.pc = "write" /\ h.seg = seg /\ h.rec = sink[p].rec /\ h.dirSize = sink[p].dirSize
  BY <1>1 DEF SinkStates
<1> HIDE DEF h
<1>4. sink'[p] = h
  BY <1>2 DEF SpoolInv, h
<1>5. Backlog' \in Nat /\ Backlog' <= Backlog /\ Backlog \in Nat
  <2>1. \/ UNCHANGED segs
        \/ \A s \in Segs : \/ segs'[s] = segs[s]
                           \/ segs'[s] = [NoFile EXCEPT !.life = "open"]
                           \/ /\ sink[p].seg # NoSeg /\ s = sink[p].seg
                              /\ segs'[s] = Sealed(segs[s], sink[p].size)
    BY NoSegIsNoSegment DEF PlaceRecord
  <2>2. [NoFile EXCEPT !.life = "open"].bytes = 0
    BY DEF NoFile
  <2> QED
    BY <1>1, <2>1, <2>2, PlaceQuota
<1>6. segs'[seg].torn \in Nat
  <2>1. SinkIsSound(p)' /\ segs' \in [Segs -> FileStates]
    BY <1>1 DEF SpoolInv
  <2>2. seg \in Segs
    BY <1>3, <1>4, <2>1 DEF SinkIsSound, OwnsItsFile
  <2> QED
    BY <2>1, <2>2 DEF FileStates
<1>7. MeasureIsSound(p)' /\ Backlog' <= DirectoryBytes
  BY <1>1, <1>3, <1>4, <1>5, <1>6, SpoolAssumption DEF MeasureIsSound
<1> QED
  BY <1>1, <1>2, <1>7, QuotaStep

LEMMA PlaceFailsQuota == ASSUME SpoolInv, QuotaInv, NEW p \in Procs, PlaceFails(p) PROVE QuotaInv'
<1>1. /\ sink[p] \in SinkStates /\ MeasureIsSound(p) /\ SinkIsSound(p) /\ SpoolInv'
      /\ Backlog <= DirectoryBytes /\ sink[p].pc = "place" /\ Backlog <= sink[p].dirSize
      /\ sink[p].dirSize \in Nat
  BY PlaceFailsInv DEF SpoolInv, QuotaInv, PlaceFails, MeasureIsSound, SinkStates
<1>2. PICK next :
        sink' = [sink EXCEPT ![p] = [sink[p] EXCEPT !.pc = "idle", !.rec = NoRec, !.seg = NoSeg, !.next = next]]
  BY ZenonT(40) DEF PlaceFails, SpoolInv
<1> DEFINE h == [sink[p] EXCEPT !.pc = "idle", !.rec = NoRec, !.seg = NoSeg, !.next = next]
<1>3. h.pc = "idle" /\ h.dirSize = sink[p].dirSize
  BY <1>1 DEF SinkStates
<1> HIDE DEF h
<1>4. sink'[p] = h
  BY <1>2 DEF SpoolInv, h
<1>5. Backlog' \in Nat /\ Backlog' <= Backlog /\ Backlog \in Nat
  <2>1. \/ UNCHANGED segs
        \/ \A s \in Segs : \/ segs'[s] = segs[s]
                           \/ /\ sink[p].seg # NoSeg /\ s = sink[p].seg
                              /\ segs'[s] = Sealed(segs[s], sink[p].size)
    BY NoSegIsNoSegment DEF PlaceFails
  <2> QED
    BY <1>1, <2>1, PlaceQuota
<1>6. MeasureIsSound(p)' /\ Backlog' <= DirectoryBytes
  BY <1>1, <1>3, <1>4, <1>5, SpoolAssumption DEF MeasureIsSound
<1> QED
  BY <1>1, <1>2, <1>6, QuotaStep

LEMMA CloseQuota == ASSUME SpoolInv, QuotaInv, NEW p \in Procs, Close(p) PROVE QuotaInv'
<1>1. /\ sink[p] \in SinkStates /\ MeasureIsSound(p) /\ SpoolInv'
      /\ Backlog <= DirectoryBytes /\ sink[p].pc = "idle" /\ Backlog <= sink[p].dirSize
      /\ sink[p].dirSize \in Nat
  BY CloseInv DEF SpoolInv, QuotaInv, Close, MeasureIsSound, SinkStates
<1> DEFINE h == [sink[p] EXCEPT !.seg = NoSeg]
<1>2. sink' = [sink EXCEPT ![p] = h] /\ h.pc = "idle" /\ h.dirSize = sink[p].dirSize
  BY <1>1 DEF Close, SpoolInv, SinkStates
<1> HIDE DEF h
<1>3. sink'[p] = h
  BY <1>2 DEF SpoolInv
<1>4. Backlog' \in Nat /\ Backlog' <= Backlog /\ Backlog \in Nat
  <2>1. \/ UNCHANGED segs
        \/ \A s \in Segs : \/ segs'[s] = segs[s]
                           \/ /\ sink[p].seg # NoSeg /\ s = sink[p].seg
                              /\ segs'[s] = Sealed(segs[s], sink[p].size)
    BY DEF Close, SpoolInv
  <2> QED
    BY <1>1, <2>1, PlaceQuota
<1>5. MeasureIsSound(p)' /\ Backlog' <= DirectoryBytes
  BY <1>1, <1>2, <1>3, <1>4, SpoolAssumption DEF MeasureIsSound
<1> QED
  BY <1>1, <1>2, <1>5, QuotaStep

LEMMA WriteSomeQuota ==
  ASSUME SpoolInv, QuotaInv, NEW p \in Procs, NEW n \in 1..MaxRecordBytes, WriteSome(p, n) PROVE QuotaInv'
<1> DEFINE s == sink[p].seg
           g == [segs[s] EXCEPT !.torn = n, !.bytes = segs[s].bytes + n]
<1>1. /\ sink[p].pc = "write" /\ segs[s].torn = 0 /\ n < Size[sink[p].rec]
      /\ sink' = [sink EXCEPT ![p] = sink[p]] /\ sink' = sink /\ SpoolInv'
  BY WriteSomeInv DEF WriteSome, SpoolInv
<1>2. /\ sink[p] \in SinkStates /\ MeasureIsSound(p) /\ s \in Segs /\ segs[s] \in FileStates
      /\ segs[s].life = "open" /\ sink[p].rec \in Records /\ Size[sink[p].rec] \in Nat /\ n \in Nat
  BY <1>1, RecordAssumption DEF SpoolInv, QuotaInv, SinkStates, SinkIsSound, OwnsItsFile
<1>3. segs' = [segs EXCEPT ![s] = g] /\ g.torn = n /\ g.bytes = segs[s].bytes + n
  <2>1. segs[s].bytes \in Nat /\ segs[s].bytes + n \in Nat
    BY <1>2 DEF FileStates
  <2> QED
    BY <1>2, <2>1 DEF WriteSome, SpoolInv, FileStates
<1> HIDE DEF g, s
<1>4. /\ segs' \in [Segs -> FileStates] /\ segs'[s] = g /\ \A t \in Segs : t # s => segs'[t] = segs[t]
  BY <1>1, <1>2, <1>3 DEF SpoolInv
<1>5. segs'[s].bytes <= segs[s].bytes + n
  BY <1>2, <1>3, <1>4 DEF FileStates
<1>6. Backlog' \in Nat /\ Backlog' <= Backlog + n /\ Backlog \in Nat
  <2>1. segs[s].life \in Unshipped
    BY <1>2 DEF Unshipped
  <2> QED
    BY <1>2, <1>4, <1>5, <2>1, BacklogGrows, BacklogMeans
<1>7. /\ Backlog <= sink[p].dirSize /\ sink[p].dirSize \in Nat
      /\ sink[p].dirSize + Size[sink[p].rec] <= DirectoryBytes
  <2>1. Backlog <= sink[p].dirSize + segs[s].torn
    BY <1>1, <1>2 DEF MeasureIsSound, s
  <2> QED
    BY <1>1, <1>2, <1>6, <2>1 DEF MeasureIsSound, SinkStates
<1>8. Backlog' <= DirectoryBytes /\ Backlog' <= sink[p].dirSize + n
  BY <1>1, <1>2, <1>6, <1>7, SpoolAssumption
<1>9. MeasureIsSound(p)'
  BY <1>1, <1>3, <1>4, <1>7, <1>8 DEF MeasureIsSound, s
<1> QED
  BY <1>1, <1>8, <1>9, QuotaStep

LEMMA WriteRestQuota == ASSUME SpoolInv, QuotaInv, NEW p \in Procs, WriteRest(p) PROVE QuotaInv'
<1> DEFINE s == sink[p].seg
           r == sink[p].rec
           g == [segs[s] EXCEPT !.recs = Append(segs[s].recs, r), !.torn = 0,
                                !.bytes = segs[s].bytes - segs[s].torn + Size[r]]
           h == [sink[p] EXCEPT !.pc = "idle", !.rec = NoRec, !.size = sink[p].size + Size[r],
                                !.dirSize = sink[p].dirSize + Size[r]]
<1>1. /\ sink[p].pc = "write" /\ segs' = [segs EXCEPT ![s] = g] /\ sink' = [sink EXCEPT ![p] = h]
      /\ SpoolInv'
  <2>1. SpoolInv'
    BY WriteRestInv
  <2>2. sink[p].pc = "write" /\ segs' = [segs EXCEPT ![s] = g]
    BY DEF WriteRest, SpoolInv
  <2>3. sink' = [sink EXCEPT ![p] = h]
    BY DEF WriteRest, SpoolInv
  <2> QED
    BY <2>1, <2>2, <2>3
<1>2. /\ sink[p] \in SinkStates /\ MeasureIsSound(p) /\ s \in Segs /\ segs[s] \in FileStates
      /\ segs[s].life = "open" /\ r \in Records /\ Size[r] \in Nat
      /\ segs[s].torn \in Nat /\ segs[s].torn < Size[r] /\ segs[s].bytes \in Nat
  <2>1. sink[p] \in SinkStates /\ MeasureIsSound(p) /\ SinkIsSound(p)
    BY DEF SpoolInv, QuotaInv
  <2>2. s \in Segs /\ segs[s].life = "open" /\ r \in Records /\ segs[s].torn < Size[r]
    BY <1>1, <2>1 DEF SinkStates, SinkIsSound, OwnsItsFile
  <2>3. Size[r] \in Nat /\ segs[s] \in FileStates
    BY <2>2, RecordAssumption DEF SpoolInv
  <2> QED
    BY <2>1, <2>2, <2>3 DEF FileStates
<1>3. PICK k \in Nat : k = Size[r] - segs[s].torn
  BY <1>2
<1>4. g.bytes = segs[s].bytes + k
  <2>1. segs[s].bytes - segs[s].torn + Size[r] = segs[s].bytes + k
    BY <1>2, <1>3
  <2> QED
    BY <1>2, <2>1 DEF FileStates
<1>5. h.pc = "idle" /\ h.dirSize = sink[p].dirSize + Size[r]
  BY <1>2 DEF SinkStates
<1> HIDE DEF g, h, s, r
<1>6. /\ segs' \in [Segs -> FileStates] /\ segs'[s] = g /\ \A t \in Segs : t # s => segs'[t] = segs[t]
  BY <1>1, <1>2 DEF SpoolInv
<1>7. Backlog' \in Nat /\ Backlog' <= Backlog + k /\ Backlog \in Nat
  <2>1. segs[s].life \in Unshipped
    BY <1>2 DEF Unshipped
  <2>2. segs'[s].bytes <= segs[s].bytes + k
    BY <1>2, <1>3, <1>4, <1>6
  <2> QED
    BY <1>2, <1>3, <1>6, <2>1, <2>2, BacklogGrows, BacklogMeans
<1>8. /\ Backlog <= sink[p].dirSize + segs[s].torn /\ sink[p].dirSize \in Nat
      /\ sink[p].dirSize + Size[r] <= DirectoryBytes
  BY <1>1, <1>2 DEF MeasureIsSound, SinkStates, s, r
<1>9. Backlog' <= h.dirSize /\ h.dirSize \in Nat /\ Backlog' <= DirectoryBytes
  BY <1>2, <1>3, <1>5, <1>7, <1>8, SpoolAssumption
<1>10. MeasureIsSound(p)'
  <2>1. sink'[p] = h
    BY <1>1 DEF SpoolInv
  <2> QED
    BY <1>5, <1>9, <2>1 DEF MeasureIsSound
<1> QED
  BY <1>1, <1>9, <1>10, QuotaStep

LEMMA WriteFailQuota == ASSUME SpoolInv, QuotaInv, NEW p \in Procs, WriteFail(p) PROVE QuotaInv'
<1> DEFINE s == sink[p].seg
           size == sink[p].size + segs[s].torn
           g == [segs[s] EXCEPT !.life = IF size = 0 THEN "deleted" ELSE segs[s].life]
           h == [sink[p] EXCEPT !.pc = "idle", !.rec = NoRec, !.seg = NoSeg, !.size = size,
                                !.dirSize = sink[p].dirSize + segs[s].torn]
<1>1. /\ sink[p].pc = "write" /\ segs' = [segs EXCEPT ![s] = g] /\ sink' = [sink EXCEPT ![p] = h]
      /\ SpoolInv'
  <2>1. SpoolInv'
    BY WriteFailInv
  <2> QED
    BY <2>1 DEF WriteFail, SpoolInv
<1>2. /\ sink[p] \in SinkStates /\ MeasureIsSound(p) /\ s \in Segs /\ segs[s] \in FileStates
      /\ segs[s].life = "open" /\ segs[s].torn \in Nat
  <2>1. sink[p] \in SinkStates /\ MeasureIsSound(p) /\ SinkIsSound(p)
    BY DEF SpoolInv, QuotaInv
  <2>2. s \in Segs /\ segs[s].life = "open"
    BY <1>1, <2>1 DEF SinkIsSound, OwnsItsFile
  <2> QED
    BY <2>1, <2>2 DEF SpoolInv, FileStates
<1>3. g.bytes = segs[s].bytes
  BY <1>2 DEF FileStates
<1>4. h.pc = "idle" /\ h.dirSize = sink[p].dirSize + segs[s].torn
  BY <1>2 DEF SinkStates
<1> HIDE DEF g, h, s
<1>5. /\ segs' \in [Segs -> FileStates] /\ segs'[s] = g /\ \A t \in Segs : t # s => segs'[t] = segs[t]
  BY <1>1, <1>2 DEF SpoolInv
<1>6. Backlog' \in Nat /\ Backlog' <= Backlog /\ Backlog \in Nat
  <2>1. \A t \in Segs : segs'[t].life \in Unshipped =>
           segs'[t].bytes = 0 \/ (segs[t].life \in Unshipped /\ segs'[t].bytes = segs[t].bytes)
    BY <1>2, <1>3, <1>5 DEF Unshipped
  <2> QED
    BY <1>5, <2>1, BacklogShrinks, BacklogMeans
<1>7. Backlog <= sink[p].dirSize + segs[s].torn /\ sink[p].dirSize \in Nat /\ Backlog <= DirectoryBytes
  BY <1>1, <1>2 DEF MeasureIsSound, SinkStates, QuotaInv, s
<1>8. Backlog' <= h.dirSize /\ h.dirSize \in Nat /\ Backlog' <= DirectoryBytes
  BY <1>2, <1>4, <1>6, <1>7, SpoolAssumption
<1>9. MeasureIsSound(p)'
  <2>1. sink'[p] = h
    BY <1>1 DEF SpoolInv
  <2> QED
    BY <1>4, <1>8, <2>1 DEF MeasureIsSound
<1> QED
  BY <1>1, <1>8, <1>9, QuotaStep

\* What the shipper takes away no longer waits, and the other names stay as listed.
LEMMA ShipperQuota ==
  ASSUME SpoolInv, QuotaInv, NEW s \in Segs, ShipperDelete(s) \/ ShipperQuarantine(s)
  PROVE  QuotaInv'
<1>1. PICK life \in {"deleted", "rejected"} :
        segs[s].life = "jsonl" /\ segs' = [segs EXCEPT ![s].life = life] /\ UNCHANGED sink
  BY DEF ShipperDelete, ShipperQuarantine
<1>2. segs \in [Segs -> FileStates] /\ segs' \in [Segs -> FileStates]
  BY ShipperInv DEF SpoolInv
<1>3. /\ segs'[s].life = life /\ \A t \in Segs : t # s => segs'[t] = segs[t]
      /\ \A t \in Segs : segs'[t].bytes = segs[t].bytes /\ segs'[t].torn = segs[t].torn
  BY <1>1, <1>2 DEF FileStates
<1>4. Backlog' \in Nat /\ Backlog' <= Backlog /\ Backlog \in Nat
  <2>1. \A t \in Segs : segs'[t].life \in Unshipped =>
           segs'[t].bytes = 0 \/ (segs[t].life \in Unshipped /\ segs'[t].bytes = segs[t].bytes)
    BY <1>1, <1>3 DEF Unshipped
  <2> QED
    BY <1>2, <2>1, BacklogShrinks, BacklogMeans
<1>5. ASSUME NEW p \in Procs PROVE MeasureIsSound(p)'
  <2>1. MeasureIsSound(p) /\ SinkIsSound(p) /\ sink'[p] = sink[p] /\ sink[p] \in SinkStates
    BY <1>1 DEF QuotaInv, SpoolInv
  <2>2. \A t \in Segs : segs'[t].life \in Unshipped => segs[t].life \in Unshipped /\ Path(t)' = Path(t)
    BY <1>1, <1>3 DEF Unshipped, Path
  <2>3. sink[p].pc = "write" => segs'[sink[p].seg].torn = segs[sink[p].seg].torn /\ segs[sink[p].seg].torn \in Nat
    BY <1>2, <1>3, <2>1 DEF SinkIsSound, OwnsItsFile, FileStates
  <2>4. sink[p].dirSize \in Nat
    BY <2>1 DEF SinkStates
  <2> QED
    BY <1>1, <1>4, <2>1, <2>2, <2>3, <2>4 DEF MeasureIsSound
<1>6. Backlog' <= DirectoryBytes
  BY <1>4, SpoolAssumption DEF QuotaInv
<1> QED
  BY <1>1, <1>5, <1>6 DEF QuotaInv

LEMMA QuotaStepInv ==
  ASSUME SpoolInv, QuotaInv, ~SharedSpool, [NextSpool]_spoolVars PROVE QuotaInv'
<1>1. CASE UNCHANGED spoolVars
  BY <1>1 DEF spoolVars, QuotaInv, MeasureIsSound, Backlog, BytesWith, BytesOf, Path
<1>2. CASE Producer
  <2>1. PICK p \in Procs : ProducerWorks(p) \/ ProducerFails(p)
    BY <1>2 DEF Producer
  <2> QED
    BY <2>1, StartQuota, BeginAppendQuota, ScanDirectoryQuota, StatDirectoryQuota, PlaceRecordQuota,
       WriteSomeQuota, WriteRestQuota, CloseQuota, ProducerCrashQuota, PlaceFailsQuota, WriteFailQuota
       DEF ProducerWorks, ProducerFails
<1> QED
  BY <1>1, <1>2, ShipperQuota DEF NextSpool

\* What one live process remembers of its directory covers what waits there (QuotaInv).
THEOREM QuotaInvariant == ASSUME ~SharedSpool PROVE SpoolSpec => []QuotaInv
<1>1. SpoolInv /\ QuotaInv /\ [NextSpool]_spoolVars => QuotaInv'
  BY QuotaStepInv
<1> QED
  BY <1>1, QuotaInit, SpoolInvariant, PTL DEF SpoolSpec

\* _append: with one live process, no file outgrows segment_bytes and what waits to be
\* shipped stays within directory_bytes.
THEOREM SpoolIsBounded == ASSUME ~SharedSpool PROVE SpoolSpec => []SpoolBounds
<1>1. SpoolInv /\ QuotaInv => SpoolBounds
  BY DEF SpoolInv, FileIsSound, QuotaInv, Backlog, Unshipped, SpoolBounds, SegmentBound, BacklogBound
<1> QED
  BY <1>1, QuotaInvariant, SpoolInvariant, PTL
===============================================================================
