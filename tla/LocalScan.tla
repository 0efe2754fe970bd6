------------------------------- MODULE LocalScan -------------------------------
(***************************************************************************)
(* The capture of one local agent history file (telemetry/local_agents.py, *)
(* local_source_revision.py and the transactions of storage/sqlite.py and  *)
(* storage/postgres.py).                                                   *)
(*                                                                         *)
(* An agent appends records to its history file and may rewrite it.        *)
(* Several scanners (the worker, the dashboard, its setup, the command     *)
(* line) claim the file, parse it, store its evidence with the revision of *)
(* the file, and record the outcome.                                       *)
(***************************************************************************)
EXTENDS Integers, Sequences, FiniteSets, SequencesExt

CONSTANTS
  Contents,    \* what a record says
  End,         \* what completes a record, or a newline after it
  Scanners,
  NoRevision,      \* the revision of a source imported before revisions were kept
  Limit,       \* _MAX_STORED_EVENTS - 1, the events stored of a file
  MaxBytes,    \* bound: the length of the file
  MaxRewrites, \* bound: how often it is rewritten
  MaxClaims    \* bound: scans begun

ASSUME ScanAssumption ==
  /\ End \notin Contents
  /\ {Limit, MaxBytes, MaxRewrites, MaxClaims} \subseteq Nat
  /\ Limit > 0

VARIABLES
  file,     \* the history file, byte by byte
  rewrites, \* how often it has been rewritten
  source,   \* the evidence of its run, and the revision it was stored with
  attempt,  \* the row of local_source_scan_attempts
  scan      \* scan[s]: what scanner s is doing

scanVars == <<file, rewrites, source, attempt, scan>>

\* A record is a byte that says something and End, which completes its JSON: with its
\* newline, or without it while the record is the last.  End after End adds no record:
\* it is the newline of a record that was complete without it, or a blank line.
Bytes == Contents \cup {End}
IsHistory(f) == \A i \in 1..Len(f) - 1 : f[i] # End => f[i + 1] = End
Histories == {f \in UNION {[1..n -> Bytes] : n \in 0..MaxBytes} : IsHistory(f)}

ASSUME NoRevisionAssumption == NoRevision \notin Histories

Partial(f) == f # <<>> /\ Last(f) # End

\* _records: a record is read when its JSON is complete, although the newline of the
\* last one may be missing; the unfinished last one is left out.
Parsed(f) ==
  LET upTo[i \in 0..Len(f)] ==
        IF i = 0 THEN <<>>
        ELSE IF f[i] # End /\ i < Len(f) THEN Append(upTo[i - 1], f[i])
        ELSE upTo[i - 1]
  IN upTo[Len(f)]

\* _bundle: the events of a file that are stored, and the marker that there are more.
Kept(f) == SubSeq(Parsed(f), 1, IF Len(Parsed(f)) < Limit THEN Len(Parsed(f)) ELSE Limit)
Limited(f) == Len(Parsed(f)) > Limit

Outcomes == {"failed", "stored"}
NoOutcome == "none"
Resting == [pc |-> "idle", parsed |-> NoRevision, generation |-> 0, outcome |-> NoOutcome]

ScanTypeOK ==
  /\ file \in Histories /\ rewrites \in 0..MaxRewrites
  /\ source.revision \in Histories \cup {NoRevision} /\ source.events \in Seq(Contents)
  /\ source.limited \in BOOLEAN
  /\ attempt.generation \in 0..MaxClaims /\ attempt.outcome \in Outcomes \cup {NoOutcome}
  /\ attempt.accepted \in Histories \cup {NoRevision}
  /\ \A s \in Scanners : scan[s].parsed \in Histories \cup {NoRevision}
                         /\ scan[s].generation <= attempt.generation

\* Nothing is known of the file, or what an earlier version has imported of it.
ScanInit ==
  /\ file = <<>> /\ rewrites = 0
  /\ \E old \in {<<>>} \cup [1..1 -> Contents] :
       source = [revision |-> NoRevision, events |-> old, limited |-> FALSE]
  /\ attempt = [generation |-> 0, outcome |-> NoOutcome, accepted |-> NoRevision]
  /\ scan = [s \in Scanners |-> Resting]

---------------------------------------------------------------------------
\* The agent completes the record it has begun before it begins another, writes the
\* newline of a record with it or later, and leaves blank lines at most when it writes
\* the file anew.

AppendByte(x) ==
  /\ Len(file) < MaxBytes
  /\ Partial(file) => x = End
  /\ x = End => Partial(file) \/ Partial(Front(file))
  /\ file' = Append(file, x)
  /\ UNCHANGED <<rewrites, source, attempt, scan>>

RewriteFile ==
  /\ rewrites < MaxRewrites
  /\ \E f \in Histories \ {file} : ~Partial(f) /\ file' = f
  /\ rewrites' = rewrites + 1
  /\ UNCHANGED <<source, attempt, scan>>

---------------------------------------------------------------------------
\* A scanner.

\* claim_local_scan_attempt
Claim(s) ==
  /\ scan[s].pc = "idle" /\ attempt.generation < MaxClaims
  /\ attempt' = [generation |-> attempt.generation + 1, outcome |-> NoOutcome, accepted |-> NoRevision]
  /\ scan' = [scan EXCEPT ![s] = [Resting EXCEPT !.pc = "parse", !.generation = attempt.generation + 1]]
  /\ UNCHANGED <<file, rewrites, source>>

Parse(s) ==
  /\ scan[s].pc = "parse" /\ Parsed(file) # <<>>
  /\ scan' = [scan EXCEPT ![s].pc = "store", ![s].parsed = file]
  /\ UNCHANGED <<file, rewrites, source, attempt>>

\* The file cannot be read or has no records, the scan is cancelled, or storage fails.
GiveUp(s) ==
  /\ scan[s].pc \in {"parse", "store"}
  /\ scan' = [scan EXCEPT ![s].pc = "finish", ![s].parsed = NoRevision, ![s].outcome = "failed"]
  /\ UNCHANGED <<file, rewrites, source, attempt>>

\* verify_source_revision: the file extends the revision that is stored or is larger
\* and all its events are, and it is still what was parsed.
IsRewritten(f) == source.revision # NoRevision /\ ~IsPrefix(source.revision, f)
Verified(f) ==
  /\ IsRewritten(f) =>
       /\ Len(f) > Len(source.revision)
       /\ \A g \in {source.revision, f} : ~Partial(g) /\ ~Limited(g)
  /\ file = f

\* verify_retained_local_evidence
RetainsEvidence(f) == IsPrefix(source.events, Kept(f))

\* A faulty variant: only what a source without revision has imported must be retained.
ReplacesRewritten(f) ==
  /\ Verified(f)
  /\ (source.revision = NoRevision) => RetainsEvidence(f)

\* What is known of the source lets it be replaced by the file as it was parsed.
Replaces(f) ==
  /\ Verified(f)
  /\ (source.revision = NoRevision \/ IsRewritten(f)) => RetainsEvidence(f)

\* merge_agent_event: events are told apart by their place in the file.
Merges(f) == \A i \in DOMAIN source.events \cap DOMAIN Kept(f) : source.events[i] = Kept(f)[i]
Merged(f) == Kept(f) \o SubSeq(source.events, Len(Kept(f)) + 1, Len(source.events))

\* _store_agent_capture, one transaction.
StoreCapture(s) ==
  LET f == scan[s].parsed
      accepted == Replaces(f) /\ Merges(f)
  IN /\ scan[s].pc = "store"
     /\ source' = IF accepted
                  THEN [revision |-> f, events |-> Merged(f), limited |-> Limited(f)]
                  ELSE source
     /\ scan' = [scan EXCEPT ![s].pc = "finish",
                             ![s].parsed = IF accepted THEN f ELSE NoRevision,
                             ![s].outcome = IF accepted THEN "stored" ELSE "failed"]
     /\ UNCHANGED <<file, rewrites, attempt>>

\* The row of the attempt as scanner s records it.
Outcome(s) ==
  [attempt EXCEPT !.outcome = scan[s].outcome, !.accepted = scan[s].parsed]

\* A faulty variant: the outcome is recorded whoever has claimed the file meanwhile.
FinishAnyway(s) ==
  /\ scan[s].pc = "finish"
  /\ attempt' = Outcome(s)
  /\ scan' = [scan EXCEPT ![s] = Resting]
  /\ UNCHANGED <<file, rewrites, source>>

\* finish_local_scan_attempt
Finish(s) ==
  /\ scan[s].pc = "finish"
  /\ attempt' = IF scan[s].generation = attempt.generation THEN Outcome(s) ELSE attempt
  /\ scan' = [scan EXCEPT ![s] = Resting]
  /\ UNCHANGED <<file, rewrites, source>>

ScannerDies(s) ==
  /\ scan[s].pc # "idle"
  /\ scan' = [scan EXCEPT ![s] = Resting]
  /\ UNCHANGED <<file, rewrites, source, attempt>>

---------------------------------------------------------------------------
ScanNext ==
  \/ \E x \in Bytes : AppendByte(x)
  \/ RewriteFile
  \/ \E s \in Scanners :
       Claim(s) \/ Parse(s) \/ GiveUp(s) \/ StoreCapture(s) \/ Finish(s) \/ ScannerDies(s)

---------------------------------------------------------------------------
\* Properties.

\* The evidence of a source is that of the revision it is stored with and nothing that
\* an earlier revision said besides, although files are rewritten while they are
\* scanned and scans overtake each other.  A recorded acceptance was stored, and what
\* it stored is still there.
EvidenceIsTheSource ==
  /\ source.revision # NoRevision =>
       source.events = Kept(source.revision) /\ source.limited = Limited(source.revision)
  /\ attempt.accepted # NoRevision =>
       /\ source.revision # NoRevision
       /\ Len(attempt.accepted) <= Len(source.revision)
       /\ IsPrefix(Kept(attempt.accepted), source.events)

\* "Prove a rewrite or beta bootstrap extends every retained real fact"
\* (local_source_revision.py): evidence is never lost or replaced.  And what an attempt
\* came to is not changed by the scan of an earlier attempt.
KeptAndDecided ==
  [][ /\ IsPrefix(source.events, source'.events)
      /\ attempt.outcome # NoOutcome => attempt' = attempt \/ attempt'.generation > attempt.generation
    ]_scanVars

==============================================================================
