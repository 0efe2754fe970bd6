---------------------------- MODULE CaptureRecords ----------------------------
(***************************************************************************)
(* What the capture pipeline carries: redacted records, and how central    *)
(* storage will judge each of them.                                        *)
(*                                                                         *)
(* A record is an atom.  The pipeline tells records apart by their size,   *)
(* by the evidence they are about and by whether the collector can decode  *)
(* them; nothing else of their content is ever looked at on the way.       *)
(*                                                                         *)
(* Two different records about one identity are records of one agent       *)
(* event, which storage never replaces.  The id of a trace or a span is    *)
(* drawn afresh for one record (ADR-011), as storage would replace it.     *)
(***************************************************************************)
EXTENDS Integers, Sequences

CONSTANTS
  Records,        \* capture records an application may produce
  NoRec,          \* no record
  Size,           \* bytes of a record's line, its newline included
  MaxRecordBytes, \* MAX_RECORD_BYTES, which bounds the line without its newline
  Identities,     \* the traces, spans and agent events records are about
  Identity,       \* the one each record is about
  Malformed,      \* records decode_capture_record raises ValueError for
  Unsupported     \* records of a kind this collector does not know

ASSUME RecordAssumption ==
  /\ NoRec \notin Records
  /\ MaxRecordBytes \in Nat
  /\ Size \in [Records -> 1..MaxRecordBytes + 1]
  /\ Identity \in [Records -> Identities]
  /\ Malformed \subseteq Records
  /\ Unsupported \subseteq Records \ Malformed

===============================================================================
