--------------------------- MODULE CollectorReceipts ---------------------------
(***************************************************************************)
(* The collector: the /v1/ingest handlers of collector.py, the durable     *)
(* receipts of collector_receipts.py and the evidence their processor      *)
(* stores, one storage transaction per record.                             *)
(*                                                                         *)
(* Handlers run concurrently.  Each serves one connection and is a chain   *)
(* of database transactions with every other handler in between; a client  *)
(* that stopped waiting does not stop its handler.  process() holds the    *)
(* lock of the receipt's row while the batch is applied, through a         *)
(* connection of its own: if that breaks, the row is free and the handler  *)
(* goes on applying records without knowing.                               *)
(***************************************************************************)
EXTENDS CaptureRecords, FiniteSets

CONSTANTS
  Conns,           \* connections: requests the server may hold at once
  BatchIds,        \* values of x-verdict-batch-id
  Producers,       \* values of x-verdict-producer-id
  NoReq,           \* no request
  MaxInFlight,     \* max_in_flight of the admission gate
  MaxBatchRecords, \* MAX_BATCH_RECORDS
  AttemptCap       \* bound: attempt_count is not counted beyond this

ASSUME CollectorAssumption ==
  /\ MaxInFlight \in Nat \ {0}
  /\ MaxBatchRecords \in Nat \ {0}
  /\ AttemptCap \in Nat \ {0}

\* A request of an authorized client: the batch id, the producer id, the body.
Requests == [id : BatchIds, from : Producers, body : Seq(Records) \ {<<>>}]

ASSUME NoReqAssumption == NoReq \notin Requests

VARIABLES
  server,   \* the collector process
  conn,     \* conn[c]: the request on connection c and its handler
  receipts, \* the collector_receipts table, by batch id
  evidence  \* evidence[e]: the record central storage holds of identity e

collectorVars == <<server, conn, receipts, evidence>>

Outcomes ==
  {"accepted", "invalid_record", "unsupported_record_kind", "evidence_conflict"}

Answers == {"ack", "busy", "batch_conflict", "batch_boundary", "unavailable"}

Quiet ==
  [pc |-> "idle", req |-> NoReq, row |-> FALSE, results |-> <<>>, answer |-> "none"]

ConnStates ==
  [pc : {"idle", "sent", "pending", "lock", "process", "reply"},
   req : Requests \cup {NoReq}, row : BOOLEAN, results : Seq(Outcomes),
   answer : Answers \cup {"none"}]

Receipts ==
  [from : Producers, body : Seq(Records) \ {<<>>}, state : {"pending", "completed"},
   attempts : 0..AttemptCap, response : Seq(Outcomes)]

CollectorTypeOK ==
  /\ server \in {"up", "closing", "down"}
  /\ conn \in [Conns -> ConnStates]
  /\ \A c \in Conns : conn[c].pc # "idle" => conn[c].req \in Requests
  /\ DOMAIN receipts \subseteq BatchIds
  /\ \A b \in DOMAIN receipts : receipts[b] \in Receipts
  /\ evidence \in [Identities -> Records \cup {NoRec}]

---------------------------------------------------------------------------
\* The admission gate counts the handlers between enter and leave.
Active == {c \in Conns : conn[c].pc \in {"pending", "lock", "process"}}

\* SELECT ... FOR UPDATE NOWAIT fails while another handler holds the row.
Locked(b) == \E c \in Conns : conn[c].row /\ conn[c].req.id = b

Answered(h, answer, results) ==
  [h EXCEPT !.pc = "reply", !.row = FALSE, !.answer = answer, !.results = results]

Refused(h, answer) == Answered(h, answer, <<>>)

Counted(n) == IF n < AttemptCap THEN n + 1 ELSE n

Stored(r) == evidence[Identity[r]] = r

\* Faulty variants: an outcome acknowledgements do not know, evidence that is
\* replaced, and a conflict of a record with itself.
JudgeUnknown(r) ==
  CASE r \in Malformed   -> "invalid_record"
    [] r \in Unsupported -> "unsupported"
    [] OTHER             -> "accepted"

JudgeReplaces(r) ==
  CASE r \in Malformed   -> "invalid_record"
    [] r \in Unsupported -> "unsupported_record_kind"
    [] OTHER             -> "accepted"

JudgeOnce(r) ==
  CASE r \in Malformed                   -> "invalid_record"
    [] r \in Unsupported                 -> "unsupported_record_kind"
    [] evidence[Identity[r]] # NoRec     -> "evidence_conflict"
    [] OTHER                             -> "accepted"

\* What _apply decides for one record: it must decode, be of a known kind,
\* and agree with the evidence already stored under its identity.
Judge(r) ==
  CASE r \in Malformed                          -> "invalid_record"
    [] r \in Unsupported                        -> "unsupported_record_kind"
    [] evidence[Identity[r]] \notin {NoRec, r}  -> "evidence_conflict"
    [] OTHER                                    -> "accepted"

---------------------------------------------------------------------------
\* Faulty variants of the actions below.

\* A batch that is sent again starts a new receipt.
EnsurePendingAgain(c) ==
  LET req == conn[c].req
      new == [from |-> req.from, body |-> req.body, state |-> "pending",
              attempts |-> 0, response |-> <<>>]
  IN /\ conn[c].pc = "pending"
     /\ receipts' = [b \in DOMAIN receipts \cup {req.id} |->
                       IF b = req.id THEN new ELSE receipts[b]]
     /\ conn' = [conn EXCEPT ![c].pc = "lock"]
     /\ UNCHANGED <<server, evidence>>

\* A receipt answers for any payload.
LockAnyPayload(c) ==
  LET req == conn[c].req
  IN /\ conn[c].pc = "lock"
     /\ conn' = [conn EXCEPT ![c] =
          IF Locked(req.id) THEN Refused(@, "busy")
          ELSE IF receipts[req.id].state = "completed"
          THEN Answered(@, "ack", receipts[req.id].response)
          ELSE [@ EXCEPT !.pc = "process", !.row = TRUE]]
     /\ UNCHANGED <<server, receipts, evidence>>

\* The row is read without a lock.
LockUnlocked(c) ==
  LET req == conn[c].req
      receipt == receipts[req.id]
  IN /\ conn[c].pc = "lock"
     /\ conn' = [conn EXCEPT ![c] =
          IF receipt.from # req.from \/ receipt.body # req.body
          THEN Refused(@, "batch_conflict")
          ELSE IF receipt.state = "completed"
          THEN Answered(@, "ack", receipt.response)
          ELSE [@ EXCEPT !.pc = "process", !.row = TRUE]]
     /\ UNCHANGED <<server, receipts, evidence>>

\* A record is acknowledged without being stored.
ApplyUnstored(c) ==
  LET body == conn[c].req.body
  IN /\ conn[c].pc = "process"
     /\ Len(conn[c].results) < Len(body)
     /\ conn' = [conn EXCEPT ![c].results = Append(@, Judge(body[Len(@) + 1]))]
     /\ UNCHANGED <<server, receipts, evidence>>

\* A receipt is completed before the whole batch is applied.
CompleteEarly(c) ==
  LET id == conn[c].req.id
      results == conn[c].results
  IN /\ conn[c].row
     /\ receipts' = [receipts EXCEPT ![id].state = "completed", ![id].response = results,
                                     ![id].attempts = Counted(@)]
     /\ conn' = [conn EXCEPT ![c] = Answered(@, "ack", results)]
     /\ UNCHANGED <<server, evidence>>

\* Only a handler that still holds its row can fail.
RollBackOwner(c) ==
  /\ conn[c].row
  /\ conn' = [conn EXCEPT ![c] = Refused(@, "unavailable")]
  /\ UNCHANGED <<server, receipts, evidence>>

---------------------------------------------------------------------------
InitCollector ==
  /\ server = "up"
  /\ conn = [c \in Conns |-> Quiet]
  /\ receipts = [b \in {} |-> {}]
  /\ evidence = [e \in Identities |-> NoRec]

\* A client sends a request; it reaches the server some time later.
Arrive(c, req) ==
  /\ conn[c] = Quiet
  /\ server # "down"
  /\ conn' = [conn EXCEPT ![c].pc = "sent", ![c].req = req]
  /\ UNCHANGED <<server, receipts, evidence>>

\* The connection breaks before the body is complete, which may be after the
\* gate: it is entered before the body is read.
Lose(c) ==
  /\ conn[c].pc \in {"sent", "pending"}
  /\ conn' = [conn EXCEPT ![c] = Quiet]
  /\ UNCHANGED <<server, receipts, evidence>>

\* admission.enter, once the headers are there.
Admit(c) ==
  /\ conn[c].pc = "sent"
  /\ conn' = [conn EXCEPT ![c] =
       IF server # "up" \/ Cardinality(Active) >= MaxInFlight
       THEN Refused(@, "busy")
       ELSE [@ EXCEPT !.pc = "pending"]]
  /\ UNCHANGED <<server, receipts, evidence>>

Bounded(c) == Len(conn[c].req.body) <= MaxBatchRecords

\* _batch_lines finds too many records in the body.
RefuseBody(c) ==
  /\ conn[c].pc = "pending"
  /\ ~Bounded(c)
  /\ conn' = [conn EXCEPT ![c] = Refused(@, "batch_boundary")]
  /\ UNCHANGED <<server, receipts, evidence>>

\* _ensure_pending: a transaction of its own, so that the receipt exists
\* whatever becomes of the batch.
EnsurePending(c) ==
  LET req == conn[c].req
      new == [from |-> req.from, body |-> req.body, state |-> "pending",
              attempts |-> 0, response |-> <<>>]
  IN /\ conn[c].pc = "pending"
     /\ Bounded(c)
     /\ receipts' = [b \in DOMAIN receipts \cup {req.id} |->
                       IF b \in DOMAIN receipts THEN receipts[b] ELSE new]
     /\ conn' = [conn EXCEPT ![c].pc = "lock"]
     /\ UNCHANGED <<server, evidence>>

\* The database pool is exhausted, or a statement is cancelled.
PoolBusy(c) ==
  /\ conn[c].pc \in {"pending", "lock"}
  /\ Bounded(c)
  /\ conn' = [conn EXCEPT ![c] = Refused(@, "busy")]
  /\ UNCHANGED <<server, receipts, evidence>>

\* The receipt's row is locked, or the lock is refused; a receipt of another
\* payload is a conflict and a completed one answers again what it answered.
Lock(c) ==
  LET req == conn[c].req
      receipt == receipts[req.id]
  IN /\ conn[c].pc = "lock"
     /\ conn' = [conn EXCEPT ![c] =
          IF Locked(req.id) THEN Refused(@, "busy")
          ELSE IF receipt.from # req.from \/ receipt.body # req.body
          THEN Refused(@, "batch_conflict")
          ELSE IF receipt.state = "completed"
          THEN Answered(@, "ack", receipt.response)
          ELSE [@ EXCEPT !.pc = "process", !.row = TRUE]]
     /\ UNCHANGED <<server, receipts, evidence>>

\* The database drops the connection that holds the row.
LoseRow(c) ==
  /\ conn[c].row
  /\ conn' = [conn EXCEPT ![c].row = FALSE]
  /\ UNCHANGED <<server, receipts, evidence>>

\* One record of the batch is judged and, if accepted, stored: a transaction
\* of the storage's own, which stays committed if the batch fails later.
Apply(c) ==
  LET body == conn[c].req.body
      r == body[Len(conn[c].results) + 1]
  IN /\ conn[c].pc = "process"
     /\ Len(conn[c].results) < Len(body)
     /\ conn' = [conn EXCEPT ![c].results = Append(@, Judge(r))]
     /\ evidence' = IF Judge(r) = "accepted"
                    THEN [evidence EXCEPT ![Identity[r]] = r] ELSE evidence
     /\ UNCHANGED <<server, receipts>>

\* The receipt's transaction commits the attempt, and the response if the
\* whole batch was applied.  The commit may succeed without the handler
\* learning of it.
Complete(c) ==
  LET id == conn[c].req.id
      results == conn[c].results
  IN /\ conn[c].row
     /\ Len(results) = Len(conn[c].req.body)
     /\ receipts' = [receipts EXCEPT ![id].state = "completed", ![id].response = results,
                                     ![id].attempts = Counted(@)]
     /\ \/ conn' = [conn EXCEPT ![c] = Answered(@, "ack", results)]
        \/ conn' = [conn EXCEPT ![c] = Refused(@, "unavailable")]
     /\ UNCHANGED <<server, evidence>>

\* The processor raises: storage is unavailable or the batch deadline has
\* passed.  The attempt is committed and the receipt stays pending.
ProcessorFails(c) ==
  /\ conn[c].row
  /\ receipts' = [receipts EXCEPT ![conn[c].req.id].attempts = Counted(@)]
  /\ conn' = [conn EXCEPT ![c] = Refused(@, "unavailable")]
  /\ UNCHANGED <<server, evidence>>

\* The receipt's transaction does not commit; the attempt leaves no trace.
RollBack(c) ==
  /\ conn[c].pc = "process"
  /\ conn' = [conn EXCEPT ![c] = Refused(@, "unavailable")]
  /\ UNCHANGED <<server, receipts, evidence>>

\* The response leaves: its client reads it, or is gone.
Respond(c) ==
  /\ conn[c].pc = "reply"
  /\ conn' = [conn EXCEPT ![c] = Quiet]
  /\ UNCHANGED <<server, receipts, evidence>>

---------------------------------------------------------------------------
\* The collector process.

\* Every handler dies; open transactions roll back, which frees their rows.
CollectorCrash ==
  /\ server # "down"
  /\ server' = "down"
  /\ conn' = [c \in Conns |-> Quiet]
  /\ UNCHANGED <<receipts, evidence>>

\* close_and_wait: no request is admitted, those inside are waited for.
BeginShutdown ==
  /\ server = "up"
  /\ server' = "closing"
  /\ UNCHANGED <<conn, receipts, evidence>>

EndShutdown ==
  /\ server = "closing"
  /\ Active = {}
  /\ server' = "down"
  /\ conn' = [c \in Conns |-> Quiet]
  /\ UNCHANGED <<receipts, evidence>>

CollectorStart ==
  /\ server = "down"
  /\ server' = "up"
  /\ UNCHANGED <<conn, receipts, evidence>>

---------------------------------------------------------------------------
Handler(c) ==
  \/ Admit(c) \/ RefuseBody(c) \/ EnsurePending(c) \/ PoolBusy(c) \/ Lock(c) \/ LoseRow(c)
  \/ Apply(c) \/ Complete(c) \/ ProcessorFails(c) \/ RollBack(c)

Server ==
  \/ \E c \in Conns : Handler(c)
  \/ CollectorCrash \/ BeginShutdown \/ EndShutdown \/ CollectorStart

---------------------------------------------------------------------------
\* Any client may send any request at any time.
CollectorNext ==
  \/ \E c \in Conns : \E req \in Requests : Arrive(c, req)
  \/ \E c \in Conns : Lose(c) \/ Respond(c)
  \/ Server

CollectorSpec == InitCollector /\ [][CollectorNext]_collectorVars

---------------------------------------------------------------------------
\* Properties.

\* An acknowledgement repeats a completed receipt of exactly that request:
\* every client that retries the batch reads the same response.
AckIsReceipt ==
  \A c \in Conns : conn[c].answer = "ack" =>
     /\ conn[c].req.id \in DOMAIN receipts
     /\ LET receipt == receipts[conn[c].req.id]
        IN /\ receipt.state = "completed"
           /\ receipt.from = conn[c].req.from /\ receipt.body = conn[c].req.body
           /\ receipt.response = conn[c].results

\* What a receipt calls accepted is what storage holds, record by record,
\* whoever else processed that or another batch meanwhile.
AcceptedIsStored ==
  \A b \in DOMAIN receipts : receipts[b].state = "completed" =>
     \A i \in DOMAIN receipts[b].response :
        receipts[b].response[i] = "accepted" => Stored(receipts[b].body[i])

\* A record is refused as a conflict only if storage holds another record
\* under its identity: a retry never conflicts with its own first attempt.
ConflictIsReal ==
  \A b \in DOMAIN receipts : \A i \in DOMAIN receipts[b].response :
     receipts[b].response[i] = "evidence_conflict" =>
        evidence[Identity[receipts[b].body[i]]] \notin {NoRec, receipts[b].body[i]}

\* What _validate_receipt demands whenever a receipt is read: a completed one
\* has counted an attempt and holds one result per record, a pending one
\* holds none.
ReceiptIsValid ==
  \A b \in DOMAIN receipts :
     IF receipts[b].state = "completed"
     THEN receipts[b].attempts > 0 /\ Len(receipts[b].response) = Len(receipts[b].body)
     ELSE receipts[b].response = <<>>

\* A completed receipt never changes again, and stored evidence is never
\* replaced: whatever was once acknowledged stays true.
Keeps ==
  /\ \A b \in DOMAIN receipts : receipts[b].state = "completed" =>
        b \in DOMAIN receipts' /\ receipts'[b] = receipts[b]
  /\ \A e \in Identities : evidence[e] # NoRec => evidence'[e] = evidence[e]

Durable == [][Keeps]_<<receipts, evidence>>

\* One handler at a time owns a receipt.
OneOwner ==
  \A c, d \in Conns : conn[c].row /\ conn[d].row /\ c # d =>
     conn[c].req.id # conn[d].req.id

===============================================================================
