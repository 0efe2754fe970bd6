---------------------------- MODULE SegmentShipper ----------------------------
(***************************************************************************)
(* The host shipper: SegmentShipper of shipper.py, which uploads the       *)
(* complete records of the spool's segments in batches, remembers the      *)
(* acknowledged prefix of each segment in a durable checkpoint, and        *)
(* removes or quarantines a sealed segment once all of it is acknowledged. *)
(*                                                                         *)
(* The shipper reads the files CaptureSpool writes while they are written, *)
(* and is a client of the handlers of CollectorReceipts; this module adds  *)
(* its own state and steps to theirs.  Offsets count complete records.     *)
(***************************************************************************)
EXTENDS CaptureSpool, CollectorReceipts

CONSTANTS
  NoConn,       \* no connection
  MaxAttempts,  \* max_attempts of one batch
  MaxBatches,   \* max_batches of one cycle
  MaxListed     \* MAX_SEGMENTS one scan of the directory may return

ASSUME ShipperAssumption ==
  /\ MaxAttempts \in Nat \ {0}
  /\ MaxBatches \in Nat \ {0}
  /\ MaxListed \in Nat
  /\ NoConn \notin Conns
  /\ Procs \subseteq Producers /\ Procs \subseteq Nat

VARIABLES
  ship,       \* the shipper process
  checkpoint  \* checkpoint[s]: the durable progress of segment s

shipVars == <<ship, checkpoint>>

\* _Progress: how many records of the segment are acknowledged, and whether
\* any of them was rejected.  A segment without an entry has made none.
Progress == [off : Nat, rej : BOOLEAN]
NoProgress == [off |-> 0, rej |-> FALSE]

NoPath == <<NoSeg, "absent">>

NoShip ==
  [pc |-> "down", stop |-> FALSE, mem |-> [s \in Segs |-> NoProgress],
   todo |-> {}, path |-> NoPath, batches |-> 0,
   chunk |-> <<>>, tries |-> 0, conn |-> NoConn]

\* mem: the checkpoint as loaded and updated by the cycle under way; todo: the
\* paths the cycle still has to visit; path: the one it is at, under the name
\* the scan returned; chunk: the batch being sent, in `tries' attempts so far.
ShipStates ==
  [pc : {"down", "idle", "scan", "next", "read", "send", "wait", "acked", "finish", "gone"},
   stop : BOOLEAN, mem : [Segs -> Progress],
   todo : SUBSET (Segs \X OnDisk), path : (Segs \X OnDisk) \cup {NoPath},
   batches : 0..MaxBatches, chunk : Seq(Records), tries : 0..MaxAttempts-1,
   conn : Conns \cup {NoConn}]

ShipperTypeOK ==
  /\ ship \in ShipStates
  /\ checkpoint \in [Segs -> Progress]

---------------------------------------------------------------------------
\* Faulty variant: the newest segment first.
Newest(paths) == CHOOSE a \in paths : \A b \in paths \ {a} :
  a[1][1] > b[1][1] \/ (a[1][1] = b[1][1] /\ a[1][2] > b[1][2])

\* Capture paths are visited in the order of their names.
Precedes(a, b) ==
  \/ a[1][1] < b[1][1]
  \/ a[1][1] = b[1][1] /\ a[1][2] < b[1][2]

First(paths) == CHOOSE a \in paths : \A b \in paths \ {a} : Precedes(a, b)

\* _read_chunk: the complete records after the offset, as many as a batch holds.
Chunk(s, off) ==
  LET recs == segs[s].recs
      last == IF Len(recs) - off < MaxBatchRecords THEN Len(recs) ELSE off + MaxBatchRecords
  IN SubSeq(recs, off + 1, last)

\* The batch id names the segment, the offsets and the body.
BatchRequest ==
  LET s == ship.path[1]
      off == ship.mem[s].off
  IN [id |-> <<s, off, ship.chunk>>, from |-> s[1], body |-> ship.chunk]

\* The cycle is over and the daemon waits for the next one.
AtRest == [ship EXCEPT !.pc = "idle", !.mem = NoShip.mem, !.todo = {}, !.path = NoPath,
                       !.batches = 0, !.chunk = <<>>, !.tries = 0, !.conn = NoConn]

---------------------------------------------------------------------------
\* Faulty variants of the actions below.

\* Only sealed segments are read.
ScanSealed ==
  LET found == ship.todo \cap Listing
      visible == {path \in found : path[2] = "jsonl"}
  IN /\ ship.pc = "scan"
     /\ ship' = IF Cardinality(found) > MaxListed THEN NoShip
                ELSE [ship EXCEPT !.pc = "next", !.todo = visible,
                        !.mem = [s \in Segs |-> IF \E path \in visible : path[1] = s
                                                THEN ship.mem[s] ELSE NoProgress]]
     /\ UNCHANGED checkpoint

\* The size of the segment at the time of the answer is acknowledged.
ReceiveAckSize ==
  LET s == ship.path[1]
      results == conn[ship.conn].results
      rejected == \E i \in DOMAIN results : results[i] # "accepted"
  IN /\ ship.pc = "wait"
     /\ Respond(ship.conn)
     /\ conn[ship.conn].answer = "ack"
     /\ ship' = [ship EXCEPT !.pc = "acked", !.batches = @ + 1,
                   !.mem[s] = [off |-> Len(segs[s].recs), rej |-> @.rej \/ rejected],
                   !.chunk = <<>>, !.tries = 0, !.conn = NoConn]
     /\ UNCHANGED checkpoint

\* A segment that ends with a complete record is taken for acknowledged.
DrainedOnDisk(s) == segs[s].torn = 0

\* The wrong segments are kept.
DisposeSwapped ==
  LET s == ship.path[1]
  IN /\ ship.pc = "finish"
     /\ ship.path[2] = "jsonl"
     /\ Len(segs[s].recs) = ship.mem[s].off /\ segs[s].torn = 0
     /\ IF ship.mem[s].rej THEN ShipperDelete(s) ELSE ShipperQuarantine(s)
     /\ ship' = [ship EXCEPT !.pc = "gone", !.mem[s] = NoProgress]
     /\ UNCHANGED checkpoint

---------------------------------------------------------------------------
InitShipper ==
  /\ ship = NoShip
  /\ checkpoint = NoShip.mem

Launch ==
  /\ ship.pc = "down"
  /\ ship' = [NoShip EXCEPT !.pc = "idle"]
  /\ UNCHANGED checkpoint

\* SIGTERM sets stop_event, which is looked at between steps.
RequestStop ==
  /\ ship.pc # "down"
  /\ ~ship.stop
  /\ ship' = [ship EXCEPT !.stop = TRUE]
  /\ UNCHANGED checkpoint

Exit ==
  /\ ship.pc = "idle"
  /\ ship.stop
  /\ ship' = NoShip
  /\ UNCHANGED checkpoint

\* A cycle loads the checkpoint and lists the directory ...
StartCycle ==
  /\ ship.pc = "idle"
  /\ ~ship.stop
  /\ ship' = [ship EXCEPT !.pc = "scan", !.mem = checkpoint, !.todo = Listing]
  /\ UNCHANGED checkpoint

\* ... then keeps the names that are still files.  A segment that is sealed in
\* between is not found under either name, and loses its entry like one that
\* is gone.  Too many files end the shipper.
ScanPaths ==
  LET found == ship.todo \cap Listing
      visible == {path \in found : path[2] # "rejected"}
  IN /\ ship.pc = "scan"
     /\ ship' = IF Cardinality(found) > MaxListed THEN NoShip
                ELSE [ship EXCEPT !.pc = "next", !.todo = visible,
                        !.mem = [s \in Segs |-> IF \E path \in visible : path[1] = s
                                                THEN ship.mem[s] ELSE NoProgress]]
     /\ UNCHANGED checkpoint

\* The next path is opened.  If the producer has sealed the segment since the
\* scan the path is gone: an OSError, which ends the cycle and saves nothing.
OpenPath ==
  LET path == First(ship.todo)
  IN /\ ship.pc = "next"
     /\ ship.todo # {}
     /\ ship.batches < MaxBatches
     /\ ship' = IF path \in Listing
                THEN [ship EXCEPT !.pc = "read", !.path = path, !.todo = @ \ {path}]
                ELSE AtRest
     /\ UNCHANGED checkpoint

\* The while loop of one segment: read a batch, or be done with the segment.
ReadChunk ==
  LET s == ship.path[1]
      chunk == Chunk(s, ship.mem[s].off)
  IN /\ ship.pc = "read"
     /\ ship' = IF ship.batches < MaxBatches /\ ~ship.stop /\ chunk # <<>>
                THEN [ship EXCEPT !.pc = "send", !.chunk = chunk, !.tries = 0]
                ELSE [ship EXCEPT !.pc = "finish"]
     /\ UNCHANGED checkpoint

---------------------------------------------------------------------------
\* _send: bounded attempts to deliver one batch.

SendBatch(c) ==
  /\ ship.pc = "send"
  /\ BatchRequest \in Requests
  /\ Arrive(c, BatchRequest)
  /\ ship' = [ship EXCEPT !.pc = "wait", !.conn = c]
  /\ UNCHANGED checkpoint

\* After a retryable failure: another attempt, or the end of the cycle, which
\* saves the progress made.
RetryOrGiveUp ==
  IF ship.tries + 1 < MaxAttempts /\ ~ship.stop
  THEN /\ ship' = [ship EXCEPT !.pc = "send", !.tries = @ + 1, !.conn = NoConn]
       /\ UNCHANGED checkpoint
  ELSE /\ ship' = AtRest
       /\ checkpoint' = ship.mem

\* The collector cannot be reached, ...
SendFails ==
  /\ ship.pc = "send"
  /\ RetryOrGiveUp

\* ... the connection breaks before an answer, ...
ConnectionBroken ==
  /\ ship.pc = "wait"
  /\ conn[ship.conn] = Quiet
  /\ RetryOrGiveUp

\* ... or the answer is late: the handler goes on without its client.
RequestTimeout ==
  /\ ship.pc = "wait"
  /\ conn[ship.conn] # Quiet
  /\ RetryOrGiveUp

\* A refusal is retried or, when it is not retryable, ends the shipper.
ReceiveRefusal ==
  LET answer == conn[ship.conn].answer
  IN /\ ship.pc = "wait"
     /\ Respond(ship.conn)
     /\ answer # "ack"
     /\ IF answer \in {"busy", "unavailable"} THEN RetryOrGiveUp
        ELSE ship' = NoShip /\ checkpoint' = ship.mem

\* The acknowledgement is checked against the batch and counted, ...
ReceiveAck ==
  LET s == ship.path[1]
      results == conn[ship.conn].results
      rejected == \E i \in DOMAIN results : results[i] # "accepted"
  IN /\ ship.pc = "wait"
     /\ Respond(ship.conn)
     /\ conn[ship.conn].answer = "ack"
     /\ Len(results) = Len(ship.chunk)
     /\ ship' = [ship EXCEPT !.pc = "acked", !.batches = @ + 1,
                   !.mem[s] = [off |-> @.off + Len(ship.chunk), rej |-> @.rej \/ rejected],
                   !.chunk = <<>>, !.tries = 0, !.conn = NoConn]
     /\ UNCHANGED checkpoint

\* ... and the checkpoint is replaced atomically.
SaveAck ==
  /\ ship.pc = "acked"
  /\ ship' = [ship EXCEPT !.pc = "read"]
  /\ checkpoint' = ship.mem

---------------------------------------------------------------------------
\* The end of a segment, and of a cycle.

Drained(s) == Len(segs[s].recs) = ship.mem[s].off /\ segs[s].torn = 0

\* A segment that was sealed when it was listed and is acknowledged to its
\* last byte is removed, or renamed if any of its records was rejected.
DisposeSegment ==
  LET s == ship.path[1]
  IN /\ ship.pc = "finish"
     /\ ship.path[2] = "jsonl"
     /\ Drained(s)
     /\ IF ship.mem[s].rej THEN ShipperQuarantine(s) ELSE ShipperDelete(s)
     /\ ship' = [ship EXCEPT !.pc = "gone", !.mem[s] = NoProgress]
     /\ UNCHANGED checkpoint

\* Its entry leaves the checkpoint only afterwards.
SaveDisposal ==
  /\ ship.pc = "gone"
  /\ ship' = [ship EXCEPT !.pc = "next", !.path = NoPath]
  /\ checkpoint' = ship.mem

KeepSegment ==
  LET s == ship.path[1]
  IN /\ ship.pc = "finish"
     /\ ship.path[2] = "open" \/ ~Drained(s)
     /\ ship' = [ship EXCEPT !.pc = "next", !.path = NoPath]
     /\ UNCHANGED checkpoint

EndCycle ==
  /\ ship.pc = "next"
  /\ ship.todo = {} \/ ship.batches = MaxBatches
  /\ ship' = AtRest
  /\ checkpoint' = ship.mem

\* An OSError on a segment or on the checkpoint ends the cycle unsaved.
SpoolIoError ==
  /\ ship.pc \in {"scan", "next", "read", "acked", "finish", "gone"}
  /\ ship' = AtRest
  /\ UNCHANGED checkpoint

ShipperCrash ==
  /\ ship.pc # "down"
  /\ ship' = NoShip
  /\ UNCHANGED checkpoint

===============================================================================
