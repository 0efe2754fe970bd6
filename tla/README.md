# Verdict: specifications and proofs

TLA+ models of [Verdict](../src/README.md), the TLC configurations that check
them, and TLAPS proofs about them. Paths below are relative to
`src/packages/verdict/src/verdict/` (the cluster registry is in
`src/packages/verdict_eval/src/verdict_eval/`); ADRs are under `src/docs/adrs/`.

Verdict records what AI agents do (sessions, runs, turns, tool calls, model
calls), stores it, and analyses it. Most of its code converts or aggregates
data. The hard behaviour is where several processes, threads or clients meet:
what was captured must neither be lost nor be stored in two versions, what a
worker has sent must not be sent again, and what was activated must be what was
checked; a call that is paid for must not be made twice. The models follow a record
from its capture to what is concluded from it:

```
 agent run, model calls ──► batches, traces   history file of a local agent
 (AgentStream, ModelStreams) │                  │ (LocalScan)
                     ┌───────┘                  │
                     ▼                          │
 application ──► FileCaptureSink ──► spool directory ──► SegmentShipper ──► collector ─┐
 (BufferedStorage)  (CaptureSpool)  .open/.jsonl/.rejected (SegmentShipper) (CollectorReceipts)
     │                                                                                 ▼
     └───────────────────────────────────────────────────────────────────────────► storage
                                                                                       │
             ┌──────────────── worker and dashboard ──────────────────────────────────┤
             ▼                                ▼                                        ▼
   notification delivery queue        drift monitors                       cluster registry
   (DeliveryQueue, WorkerService)     (MonitorRegistry)                    (ClusterRegistry)
   notices of failures                deterministic analysis               paid judgments
   (IssueNotices)                     (AnalysisRuns)                       (PaidCalls, TurnJudgments)
```

## 1. Inventory

### Modelled

| Component | State | Operations | What is hard | What makes it correct |
| --- | --- | --- | --- | --- |
| Capture spool, `agent_transport.py` | segments (file, suffix), the sink's current segment, sizes it remembers | capture, rotate, seal, measure the directory, close, restart, fork | torn writes, failed renames, a process that dies with its segment open, a forked child, a shipper that removes or renames files during a measurement | limits hold; captured records stay written; sealed segments are whole; nobody touches another process's segment |
| Collector, `collector.py`, `collector_receipts.py` | admission gate, handlers, `collector_receipts`, evidence | ingest, receipt transactions, apply each record, shutdown | handlers of one batch overlap; the session that holds the receipt row ends while the handler goes on; commits whose answer is lost; a batch that fails half way | an acknowledgement is true, is the same for every retry, and stays true |
| Host shipper, `shipper.py` | checkpoint, the cycle in progress | scan, read, send, retry, acknowledge, dispose, stop | sealing between listing and opening; timeouts whose handler continues; crashes between acknowledgement, checkpoint and removal | removes only what is stored; the checkpoint never runs ahead; order of capture is kept; the backlog drains |
| Asynchronous buffer, `storage/buffered.py` | queue, worker thread, lifecycle lock, write lock | write, read, exists, maintenance, judge guard, flush, close | synchronous fallback overtakes the queue; callers wait for the worker with the lock in their hands; a flush that times out; an inner storage that raises | it implements deferred writes; reads see what was accepted; no call hangs |
| Notification delivery, `delivery_queue.py`, `storage/*` | intents, attempts, what was delivered where | insert, probe, block, finish an attempt, replay, rebind | the destination is edited between check and send; a replay races the drain; two drains send one intent | bounded attempts; a settled intent stays settled; what was not reviewed is not sent |
| Worker cycle, `service.py`, `dashboard/worker_status.py`, `dashboard/control_*.py` | cycle guard, due times, cycle status, alert and schedule documents | poll, drain, begin, analyse, finish; edit, replay, rebind | two workers; a lost database session frees the guard; crashes between sending and recording | one cycle at a time while no guard is lost; an interrupted cycle is run again; obligations settle |
| Monitor policies, `monitoring.py`, `monitor_inputs.py`, `dashboard/monitor_routes.py`, `storage/*` | policies, snapshots, intents | preview, prepare, activate, retire, advance | activations race; the worker and the dashboard compute the next snapshot from the same head; evidence arrives late | one active policy; cohorts are disjoint and their boundaries immutable; what is reported is notified |
| Cluster registry, `cluster_registry.py`, `dashboard/cluster_lab.py`, `storage/*` | versions, identities, validations, pointer, events | fit, validate, activate, roll back | operators race on the generation of the pointer; fits race on identities | moves are linked and validated; active identities are those of the active version |
| Deterministic analysis, `dashboard/analysis_service.py`, `storage/*` | evidence revision, verified revision of each analysis, the current one | build, look up, save, verify | computations overlap with each other and with captures; inputs recur; a slow computation finishes last | an analysis shown as fresh is the one of the evidence as it is |
| Issue notices, `dashboard/issue_notices.py` | notices, rechecks, the cursor of a scan | scan page by page, review, attach a recheck | evidence arrives, also late, and goes between two pages; scans overlap | a scan that ends has skipped nothing that was there when it began |
| Paid calls, `dashboard/scoped_evaluation.py`, `dashboard/day_explanation.py`, `dashboard/evidence_explanation.py`, `dashboard/control_plane.py` | approvals, saved results, explanations, the guard | approve, cancel, run at once, run what is scheduled, explain | a caller stops, or loses its guard, between reservation, call and record; evidence changes meanwhile | an approval pays once; nothing is paid for twice unless a result was lost |
| Turn judgments, `dashboard/evaluator_lab.py`, `agent_judgment.py`, `storage/*` | turn, judgment, the guard of the turn | plan, guard, read again, ask, save | the turn changes while it is judged; judges overlap when the guard is lost | an answer about the turn as it is stays its judgment |
| Agent run API and evidence merge, `agent.py`, `normalized_evidence.py`, `storage/*` | run, turns, their counters, failure latch; the stored run | enter, turn, event, model call, exit; merge a batch | a capture fails in one thread while others number and emit; a model call outlives its turn; batches arrive again | what is captured has no hole within a context; merging loses nothing and never goes back |
| Streamed model calls, `instrumentors/openai.py`, `instrumentors/base.py`, `client.py` | the wrapper of a stream, the manager around it, the client | call, read, close, leave, initialize, shut down | one task reads while another closes and the block is left by an exception; the cleanup of a manager fails after the iteration; the client goes meanwhile | a call has one trace at most, and it tells of the failure that happened |
| Local capture, `telemetry/local_agents.py`, `local_source_revision.py`, `storage/*` | history file, source revision, evidence, scan attempts | append, rewrite, claim, parse, verify and store, finish | the file changes during a scan; a superseded scan finishes late; imports older than revisions | evidence is that of the file; it is kept when the file grows; the latest claim decides |

Components interact through shared state only: the sink and the shipper through
the directory, the shipper and the collector through one HTTP request at a time,
all others through rows of the storage or, within a process, through locks.

### Not modelled

| Component | Why |
| --- | --- |
| Offline import, `agent_transport.py` | one process applies one file, with the storage operations of the collector and without receipts |
| Control documents other than alert, schedule, approvals, results and explanations | settings, proposals, reviews, case sets and experiments are appended under an expected revision as those are; no modelled component reads them |
| Evaluation of traces, experiments, calibration | trace judgments are made by one process under one lock; costs and agreement are arithmetic |
| Patches of provider SDKs, redaction, capture schema, pricing | installation of wrappers and conversions of data that no model looks at |
| Streams of the other providers, synchronous streams | the same protocol of finalization as `ModelStreams` |
| Dashboard projections, read ports | read-only |
| SQL of the adapters, `storage/*` | statements appear as the atomic steps of the modules that use them |

Every component, with its status, and every hazard, with the line it bites at,
is listed in `PROJECT.json`.

## 2. Modules

| Module | What it is |
| --- | --- |
| `CaptureRecords` | records: size, identity of the evidence, whether they decode and are supported |
| `CaptureSpool` | producers and the spool directory |
| `CollectorReceipts` | HTTP handlers, receipts, storage, the collector process |
| `SegmentShipper` | extends both: the shipper's own state and steps |
| `CaptureDelivery` | the composition, its fairness, its safety and liveness properties |
| `DurableHandoff` | the abstract promise of ADR-012 that `CaptureDelivery` implements |
| `BufferedStorage` | threads, the queue, its worker and the two locks |
| `DeferredWrites` | the abstract promise of a write buffer that `BufferedStorage` implements |
| `DeliveryQueue` | the table of intents, one operation per transaction |
| `WorkerService` | extends it: worker processes, the dashboard, guard, cycle, documents |
| `PaidCalls` | callers of providers, their guard and the documents they reserve and record in |
| `TurnJudgments` | evaluations of one turn in several processes |
| `AnalysisRuns` | computations of the analysis, revisions, the current pointer |
| `IssueNotices` | scans for failures, notices, rechecks |
| `MonitorRegistry` | policies, snapshot chains, evidence, runs and activations |
| `ClusterRegistry` | versions, identities, the pointer, operators |
| `AgentStream` | the contexts of an agent run, its batches and their merge |
| `ModelStreams` | the wrappers of streamed model calls and the client they belong to |
| `LocalScan` | a history file, its scanners and what is stored of it |
| `CollectorProofs` | theorems about `CollectorReceipts` |
| `SpoolProofs` | theorems about `CaptureSpool` |
| `DeliveryProofs` | theorems about `CaptureDelivery`, from those of the two, and its refinement |
| `BufferProofs` | theorems about `BufferedStorage`, and its refinement |
| `QueueProofs` | theorems about `DeliveryQueue` and `WorkerService` |
| `EvaluationProofs` | theorems about `TurnJudgments`, `PaidCalls`, `AnalysisRuns`, `IssueNotices` and `MCCycle` |
| `RegistryProofs` | theorems about `MonitorRegistry`, `ClusterRegistry` and `MCRegistries` |
| `StreamProofs` | theorems about `ModelStreams`, `AgentStream`, `LocalScan` and `MCCapture` |
| `MC...` | constants for TLC; `MCCapture`, `MCRegistries` and `MCCycle` put components side by side that share nothing |

### Correspondence

*CaptureSpool.* `segs[s]` is one file for its whole life: `<producer>-<sequence>`
is `s`, the suffix is `life`, the bytes are the complete records `recs` and the
`torn` bytes of an unfinished one. `sink[p]` is the `FileCaptureSink` of process
`p`: `seg`/`size` are `_current_path`/`_current_size`, `dirSize` is
`_directory_size`, `next` is `_next_sequence`, and `pc` says where `_append` is.
An append is a sequence of steps because another process, the shipper, can act
between them: `BeginAppend` (first quota check), `ScanDirectory` and
`StatDirectory` (the two halves of `_current_directory_size`), `PlaceRecord`
(rotation), `WriteSome`/`WriteRest` (the `os.write` loop), `WriteFail` and
`PlaceFails` (the `except` clause). The lock of the sink is implied: a process
has one `pc`. A producer id is drawn afresh by every process and after a fork,
so a restarted or forked process is another member of `Procs`.

*CollectorReceipts.* `conn[c]` is a request and its handler. The steps are those
between which another handler or a failure can act: `Admit`
(`_AdmissionGate.enter`), `RefuseBody` (`_batch_lines`), `EnsurePending` (a
transaction of its own), `Lock` (`SELECT ... FOR UPDATE NOWAIT` with what follows
from the row read), `Apply` (one record, one storage transaction), and `Complete`,
`ProcessorFails` or `RollBack` (the end of the receipt's transaction). `row` says
whether the handler's session still holds the row; `LoseRow` ends the session
while the handler goes on applying records, which uses other connections.
`receipts` is the table by batch id, `evidence` what central storage holds of
each identity.

*SegmentShipper.* `ship` is the process: `mem` the `_Progress` map of the cycle,
`todo` the paths still to visit, `chunk` the batch being sent, `tries` the
attempts so far, `stop` the event the signal handler sets. `checkpoint` is the
state file, which is replaced atomically. A batch id is derived in the code from
segment, offsets and a hash of the body; here it is that triple.

*BufferedStorage.* `queue` holds writes, barriers and the shutdown marker; a
barrier is the event one call waits for, and that of `None` when the call has timed
out. `lifecycle` is the thread in the lifecycle lock; the write lock is `Alone`
together with `inside`, the threads inside the inner storage. A call goes `Lock`,
then `Put` (with the synchronous fallback when the queue is full) or `PutBarrier`
and the wait for it, then `Enter`/`Leave` around the inner call; `close` continues
with `PutShutdown` and `Join`. The worker's `Take` and `StopTaking` collect a batch,
`ApplyStarts`/`ApplyEnds` apply one write, `ReachBarrier` releases a caller,
`Drain` is `_drain_remaining`. `Line` is what stands in line in the batch and the queue,
and `TurnedAway` the write of a call that found the queue full: what `DeferredWrites`
speaks of. Operations appear by the way they take (`Ops`).

*DeliveryQueue and WorkerService.* An intent is its notification and the `chain` of
alert revisions under which it was created and rebound. Times are an order: `line`
is the queue of intents that are due, and time passing is an action. Each operation
of `DeliveryQueue` is one transaction; `WorkerService` calls them. `st[p].pc` says
where a process is in `poll_cycle` or `run_cycle`; between `Prepare` (destination
checked), `Send` and `Record` everything may happen, the loss of the guard included.
`accepted` (what receivers got) and `lost` are history the code does not have;
properties refer to them.

*PaidCalls.* `caller[c]` is a process in `run_scheduled_once` (kind `scheduled`),
`execute_scoped` (`direct`), or `run_day_explanation` and `run_explanation`
(`explained`). Of a scheduled call, `Pick` and `Preflight` come before the guard;
`CheckApproval`, `ReserveApproval` (the append that consumes the approval) and
`RecordApproval` are its steps under it, with `Look` (`_saved_result`), `Call`,
`Recheck` and `StoreResult` of `_execute_scoped_locked` between. An explanation is
reserved (`ReserveAnswer`) and stored (`StoreAnswer`) under its own document. A plan
stands for the fingerprint of a preview. `Stops` and `GuardIsLost` may fall between any
two steps. `spent` is history: it counts the calls the provider has been paid for.

*TurnJudgments.* The steps of a judge are those of the loop body of
`_execute_turn_evaluation`: `PlansTurn` (the confirmed plan), `TakesTurn`
(`agent_turn_judge_guard`), `ReadsTurn`, `AsksJudge` and `WritesVerdict`
(`save_agent_turn_judgment_if_current`, with `Writable` for
`turn_judgment_write_decision`). `answered` is history.

*AnalysisRuns.* `inputs[r]` is the input fingerprint of the evidence at revision `r`;
fingerprints may recur, revisions do not. `verified` is the `verified_revision` of each
analysis stored, `current` the pointer. `Builds` reads evidence and revision in one
snapshot, `LooksUp`, `SavesAnalysis` and `VerifiesAnalysis` are the transactions of
`run_analysis`, each with the trigger that moves the pointer.

*IssueNotices.* A step of `ScanPage` is one page with its commit; `at` and `id` are
the cursor, `kind` says whether events or runs are scanned. `Recorded` and `Withdraw`
change the evidence between pages. `owes` is history: what was there when the scan
began and still is.

*MonitorRegistry.* `chain[p]` is the sequence of snapshots of a policy, each a
manifest with the comparison that follows from it, identified by its content.
`run[r]` is `advance_monitor`, executed by the worker and the dashboard: `Compare`
reads, `Save` succeeds the head it read, `Yield` and `Attach` are what a loser of
that race does about the notification intent. An activation reads, prepares a
prospective start, reads again and activates: `Check`, `Prepare`, `Reread`,
`Activate`. `happened` and `arrived` order units by event time and by storage.

*ClusterRegistry.* `registry` are the versions, `identities` the clusters that
outlive them, `pointer` the active version with its generation, `moves` its events.
`op[o]` is one operator: a fit reads the pointer, matches the clusters of that
version and stores (`FitBegins`, `FitMatches`, `FitStores`); an activation or a
rollback reads the pointer, validates and moves it (`MoveAsked`, `MoveValidates`,
`MovePointer`).

*AgentStream.* `agent` is the `AgentRunContext`, `turns` the `_TurnState` of each
turn, `ctx[c]` a thread or task. `_event` takes a sequence number under the turn's
lock (`ReadSequence`) and a number of the run under the run's (`TakeNumber`);
`_emit` is `CheckFailed`, `BuildBatch` (the records copied), `Capture` or
`CaptureFails`, and `Latch`. `stream` are the batches captured; `Deliver` merges one
into `central`, any batch delivered before again included.

*ModelStreams.* `call[c]` is the wrapper of one stream (`_finalize_on_iteration` is
`gate`) with who is at it: the generator `_async_gen` (`reader`), an `aclose`
(`closer`) and a block of `async with` around the stream, or around the manager that
made it (`scope`). All run in one event loop; a step ends where a coroutine waits, so
a reader goes `ReadsOn`, then `EventArrives` or `ReadingEnds`, and a block `LeavesStream`,
then `StreamLeft`. `Disabled` is the `_disabled` of the instrumentor of the client
the call was made under. `traces` are the traces handed over for capture, `failed` is
history.

*LocalScan.* `file` is a history file byte by byte, with one byte per record and
one (`End`) that completes it, so that a scanner may meet a torn last record. A scan is `Claim`
(generation), `Parse`, `StoreCapture` (verification of the revision and the
transaction that stores, merges or replaces) and `Finish` (which the generation of the
claim must allow). A source of an import without revision has `NoRevision`.

## 3. Runs

| Run | Question | Bounds | Distinct states |
| --- | --- | --- | --- |
| `spool_single` | do the byte limits hold for one process at a time? | 4 records of 1 and 2 bytes (the second one more than `MAX_RECORD_BYTES`, its newline), segments of 3, a directory of 5, 3 segments each for a process and its successor | 1.27 M |
| `capture` | is what is captured whole, in a spool, of an agent run, of model calls, of a history file? | spool: 3 records, 2 live processes, 2 segments each; run: 2 contexts, 1 turn, 2 events; calls: 1 stream, 2 clients; file: 6 bytes, 2 events stored, 1 rewrite, 2 claims, 2 scanners | 1.2 M |
| `spool_quota` | is the directory bound hard? (no, see Findings) | as `spool_single` | – |
| `receipts` | do receipts, acknowledgements and storage agree? | 3 connections, 2 admitted, 2 batch ids, 5 requests that repeat, overlap, conflict and exceed the record bound | 816 k |
| `delivery_overlap` | is anything removed, or counted, before it is stored? | 2 records, 2 connections, 2 handlers at once, batches of 2 | 1.3 M |
| `delivery_order` | are records stored in order, is the pipeline a durable handoff? | 2 records, 2 segments, batches of 1, 2 attempts | 494 k |
| `liveness` | does everything captured get judged, and is only the right segment quarantined? | 2 records, one undecodable, one batch per cycle | 114 k |
| `liveness_orphans` | does delivery recover from handlers left behind? | 1 record, 2 connections, 1 handler admitted | 94 k |
| `buffer` | is the buffer a faithful queue that never hangs? | 2 threads with 2 calls each, 3 writes, one of which raises, a queue of 2, batches of 2 | 140 k |
| `notify` | what is sent, paid for, concluded and noticed, how often, and what is said of it? | service: 1 notification, 2 URLs, 2 workers and the dashboard, any 2 events; paid calls: 2 callers, 1 approval, 2 plans, 2 requests, 1 mishap; judgments: 2 judges, 3 versions of a turn, 2 losses; analyses: 2 computations, 2 inputs, 4 revisions; notices: 1 scan, 5 pieces of evidence, pages of 1, 1 recheck | 815 k |
| `notify_progress` | do obligations settle and interrupted cycles run again? | 2 notifications, 1 URL, 1 worker, 1 send per drain, 1 event | 211 k |
| `registries` | are monitors and cluster versions kept straight by racing users? | 2 policies, 2 units, cohorts of 1, worker and 1 dashboard run, 2 requests; 2 versions, 2 keys, 1 identity, 2 operators, 3 moves | 1.07 M |

Why these bounds are enough to be interesting. A record of two bytes can be torn
once; a segment of three holds two records or one and a torn byte; a directory
of five is full after two segments. Three connections are the handler that lost
its row, the one that took it over, and a conflicting client. Batches of two
records over a segment that grows give a retry under a new batch id that
overlaps the first. One batch per cycle makes the order of segments and the
progress across cycles matter, and an undecodable record of two gets its segment
quarantined. Conflicts of records about one identity are the subject of `receipts`.
The two liveness runs have one segment, which may be sealed or left open; with two
segments (397 k states) `liveness` has been run once, with the same result. No record is
rejected in `delivery_overlap`: what happens to rejected ones is the matter of `liveness`
and of `receipts`.

A queue of two is full while a barrier waits, with the third write falling back to
its caller. Two events of the worker are, for instance, a lost guard and an edit
between the check of a destination and its post, or a replay and a restart; any three
have been run once for the service alone (11 M states) with the same result. Cohorts of one unit
close at every step, so two units give a chain of which both runs compute the
second link. Three moves are an activation, another, and a rollback to the first. A
file of six bytes holds a record more than is stored, or as many and half of one. Two events of
a run are enough for one context to number and another to capture first; a run of
two turns and one event (3.5 M states) has been run once. Two clients are one that is shut
down under a stream and its successor. Calls share nothing but the client.

An approval and two requests are enough for a scheduled, a direct and an explaining
call of one plan to meet; the mishap is a caller that stops, or a guard that is lost,
between any two of their steps, and the second plan makes the first one stale. Three
versions of a turn with two judges are a fast judge of a newer version and a slow one
of an older. Four revisions of two inputs let an input come back while an analysis of
it is under way. The evidence for notices are a failed event from before the
activation, two failed events and a failed run of one time, and a later pass; with
pages of one every two of them are divided by a page.

`capture`, `registries` and `notify` check several components that share nothing in
one run; each is explored while the others rest in their initial states.

`CHECK_DEADLOCK FALSE` is stated in all of them because the bounds let a system
stop: all records captured, all process incarnations, calls or events used up. That
no operation of the buffer is stuck is `CallsReturn`.

What the properties mean is said above each in the modules. In short:

- *Limits.* `SpoolBounds` (of a segment, and of what waits to be shipped).
- *No loss on the host.* `CaptureIsWhole` (what was captured is written, what was
  sealed complete), `SegmentsAreOwned` (a producer touches only its own
  segments and unlinks only files without records), `StreamIsWhole` (no gap in what one
  context captured, and batches merge into what was captured however often older ones
  are delivered again),
  `CallsAreTraced`.
- *Receipts.* `AckIsReceipt`, `AcceptedIsStored`, `ConflictIsReal`,
  `ReceiptIsValid`, `OneOwner`, `Durable`.
- *Delivery.* `DeletedIsStored`, `CheckpointSound`, `QuarantineJustified`,
  `DeliveredInOrder`, and `HandoffSpec`, the refinement of `DurableHandoff`.
- *Storage.* `InnerIsGuarded`, `ReadsSeeAccepted`, `DeferredSpec` (the refinement of
  `DeferredWrites`), `EvidenceIsTheSource`, `KeptAndDecided`.
- *Notification.* `SentAsIntended`, `TablesAreSound` (with the bound on attempts),
  `SettledForGood`, `StatusIsHonest`, `ScannedIsNoticed`.
- *Analysis.* `CohortsAreSound`, `ReportedIsNotified`, `RetiredForGood`,
  `PointerIsSound`, `FreshIsCurrent`.
- *Judgments.* `PaidAsApproved`, `JudgmentIsKept`.
- *Progress.* `SealedDrains`, `CapturedIsJudged`, `CallsReturn`, `AcceptedIsApplied`,
  `ObligationsSettle`, `CyclesFinish`.

### Bounds that are not in the code

`MaxSegments` (segments a process opens), `AttemptCap` (the attempt count
saturates; only zero or not matters), `MaxCalls` (operations of a thread),
`MaxEvents` (edits, replays, rebinds, restarts, failures and lost guards),
`MaxVersions` and `MaxMoves` (of the cluster registry), `MaxTurns` and `MaxStream`
(turns and events of a run), `MaxClients` (calls of `init`), `MaxBytes`, `MaxRewrites` and `MaxClaims` (length of a
history file, rewrites, scans), `MaxPlans`, `MaxRequests` and `MaxMishaps` (versions
of the evidence, requests, crashes and lost guards of paid calls), `MaxEdits` and
`MaxLosses` (of a turn), `MaxRevisions` (of the analysed evidence), and the finite
sets of records, batch ids,
connections, units and so on. A record is torn at most once (`WriteSome`).
`MaxListed` is the code's `MAX_SEGMENTS`; no run lists more files than that.
`SendBudget`, `MaxAttempts`, `Target`, `MaxIdentities`, `Limit`, `MaxQueue`,
`BatchSize`, `PageSize` and `MaxRechecks` are constants of the code with small values.

### Fairness

*The pipeline.* `FairSpec` of `CaptureDelivery` assumes weak fairness of the shipper's
steps, of each handler's steps, of each response and of the collector's restart or the
end of its shutdown, and that from some time on every step is one of `Works`: a step
that a system without failures takes. `Works` is the next-state relation without
crashes, lost connections, refused statements, timeouts, I/O errors and stop requests.
(It is not "no failure step": a failure may have the same effect as a regular step,
as an I/O error at the end of a cycle that has nothing to save, and excluding that
effect would exclude every behaviour.)

- The shipper is a daemon with an endless loop (`run_cycles`) that a service
  manager restarts. Of its alternatives only those that are not failures are
  fair; which of them is enabled is decided by its `pc`.
- Handlers run in threads that end by themselves: every statement has a
  timeout and a batch a deadline. A handler that lost its row cannot complete;
  it fails at its commit, so `RollBack` is progress there and a fault elsewhere.
- "From some time on" is the usual assumption of eventual recovery. No weaker
  one suffices: a shipper that times out on every request delivers nothing. A
  timeout is a fault here even though a handler may legally run for longer than
  the shipper waits; that handlers are eventually fast enough is an assumption
  about the deployment, not something the code ensures.
- Producers are not fair. An application that stops capturing, or dies with its
  segment open, is no failure of the pipeline, and `CapturedIsJudged` covers the
  segment nobody will seal.

*The buffer.* Weak fairness of the worker thread and of every thread inside a call: a
thread that can go on does, and calls of the inner storage return. Nothing is assumed
of `FlushTimeout`, and no lock is fair. Threads make finitely many calls, so
`CallsReturn` does not say that a thread gets the lock against others that keep
calling; it says that nobody waits for somebody who waits for him.

*The worker.* Weak fairness of each worker's steps, of polling, of the dashboard's
second step and of time. No event is fair; at most `MaxEvents` of them happen, so
faults and edits cease, which is eventual recovery again. `Send` may be refused every
time: `ObligationsSettle` holds because attempts are bounded.

The other specifications state safety only, and no fairness.

### Findings

`spool_quota`: `CaptureQuotaExceeded` calls the limit of the directory a hard
bound. When the shipper renames a rejected segment between the listing and the
`stat` of a measurement, `_current_directory_size` takes the missing name for a
removed file, remembers too small a size, and the sink writes beyond the bound.
What waits to be shipped stays within it all the same (`BacklogBound`).

## 4. Proofs

The theorems hold for every value of the constants that the named assumptions of the
modules admit: any number of processes, connections, threads, files, policies and so
on. The assumptions say that records have sizes, identities and kinds, that limits are
natural numbers, positive where the code checks that, that a value that stands
for "none" is not one of the others, and that the processes of one spool are finitely
many. TLC evaluates them on every run.

Every safety property of a passing run is a theorem. Most are theorems about the
component they belong to. The runs `capture`, `notify` and `registries` put components side
by side; `CaptureHasParts`, `CycleHasParts` and the first steps of `RegistriesAreSafe`
show that each then does what it does alone, and so `CaptureIsSafe`, `CycleIsSafe` and
`RegistriesAreSafe` carry the theorems to the specifications these runs check.

| Module | Theorem | States |
| --- | --- | --- |
| `SpoolProofs` | `SegmentsHaveOwners` | `SegmentsAreOwned` |
| | `CapturedRecordsAreWhole` | the part of `CaptureIsWhole` that is about the spool |
| | `SpoolIsBounded` | `SpoolBounds`, unless processes share the directory (`~SharedSpool`) |
| `CollectorProofs` | `CollectorTypes` | `CollectorTypeOK` |
| | `AcknowledgementsAreReceipts` | `AckIsReceipt` |
| | `AcceptedRecordsAreStored` | `AcceptedIsStored` |
| | `ConflictsAreReal` | `ConflictIsReal` |
| | `ReceiptsAreValid` | `ReceiptIsValid` |
| | `ReceiptsHaveOneOwner` | `OneOwner` |
| | `ReceiptsAndEvidenceLast` | `Durable` |
| `DeliveryProofs` | `DeletedSegmentsAreStored` | `DeletedIsStored` |
| | `CheckpointsAreSound` | `CheckpointSound` |
| | `QuarantinesAreJustified` | `QuarantineJustified` |
| | `DeliveryIsASpool` | `SpoolSpec`: a spool that is shipped takes the steps of a spool |
| | `DeliveryIsBounded` | `SpoolBounds` while the shipper works, unless processes share the directory |
| | `CaptureIsAHandoff` | `HandoffSpec`, the refinement of `DurableHandoff` |
| | `StorageIsInOrder` | `DeliveredInOrder` |
| | `NothingCapturedIsLost` | the safety of that abstraction: what was captured is on the host or stored |
| `BufferProofs` | `CallersEnterOneByOne` | `InnerIsGuarded` |
| | `ReadsComeAfterWrites` | `ReadsSeeAccepted` |
| | `BufferDefersWrites` | `DeferredSpec`, the refinement of `DeferredWrites` |
| `QueueProofs` | `NotificationsAreSentAsIntended` | `SentAsIntended` |
| | `StatusesAreHonest` | `StatusIsHonest` |
| | `SettledStaysSettled` | `SettledForGood` |
| | `AttemptsAreBounded` | the part of `TablesAreSound` that is about attempts |
| `EvaluationProofs` | `JudgmentsAreKept` | `JudgmentIsKept` |
| | `CallsArePaidAsApproved` | `PaidAsApproved` |
| | `FreshAnalysesAreCurrent` | `FreshIsCurrent` |
| | `ScansNoticeFailures` | `ScannedIsNoticed` |
| | `NoticesTypes` | the part of `TablesAreSound` that is about notices and their rechecks |
| | `TablesStaySound` | `TablesAreSound` |
| | `CycleIsSafe` | the properties of `notify`, from `SentAsIntended` on |
| `RegistryProofs` | `CohortsStaySound` | `CohortsAreSound` |
| | `ReportedAlertsAreNotified` | `ReportedIsNotified` |
| | `RetirementIsForGood` | `RetiredForGood` |
| | `PointerStaysSound` | `PointerIsSound` |
| | `RegistriesAreSafe` | the properties of `registries` |
| `StreamProofs` | `CallsHaveOneTrace` | `CallsAreTraced` |
| | `RunsAreWhole` | `StreamIsWhole` |
| | `EvidenceIsSound` | `EvidenceIsTheSource` |
| | `EvidenceIsKept` | `KeptAndDecided` |
| | `CaptureStaysWhole` | `CaptureIsWhole` |
| | `CaptureIsSafe` | the other properties of `capture` |

The other listed theorems (`...Invariant`) state the inductive invariants. Each proof has
one step per action, and lemmas for what many of them share: what a step of one
process does to the others, and what the operators of the model return.

### The inductive invariants

None of the properties is inductive as it stands. What has to be known besides:

*Spool (`SpoolInv`).* A sink has its own file open, with the size it remembers and no
torn byte unless it is writing (`OwnsItsFile`); the sequence numbers it has not used have
no file; no two sinks have one record in hand. So the shipper, which takes sealed files,
never meets a file being written, and a record captured is whole.

*Quota (`QuotaInv`).* The sink adds up what it writes and measures the directory only when that
estimate runs out, while the shipper takes files away. Hence the estimate may be too large but
not too small: what waits is at most the remembered size, or that and the torn bytes of the
record in hand, whose whole size was weighed before (`MeasureIsSound`). Between listing and
`stat`, all that waits is among the names listed; the shipper only makes it less, and the
process that measures writes nothing meanwhile. Two live processes of one directory each count
their own writes only, therefore `~SharedSpool`; one process after the other is covered, and
nothing is claimed of what two may leave waiting. `BytesOf` counts the bytes of files as places
in them, so that a write adds as many as it writes at most (`FewPlaces`), which needs no
induction.

*Collector (`CollectorInv`).* A completed receipt is right because the results its
handler gathered one by one were right when it completed, also in a handler that has
lost its row (`HandlerInv`, `JustifiedResults`). They stay right because evidence is
only added (`JustifiedStable`). `Complete` writes the receipt without reading it again,
and overwrites no completed one because nobody else has the row (`OneOwner`).

*Delivery (`DeliveryInv`).* The two invariants before carry over, since each step of
the composition is a step of one part or leaves it alone. What joins them: what the
shipper counts, in memory or in the checkpoint, was judged by the collector, and is
marked if some of it was refused (`ProgressIsSound`); the batch in flight is the part of
its segment that follows (`IsChunk`); the handler whose answer is awaited works on that
batch or is gone (`Awaits`). Files only grow and evidence is only added, so none of it can
turn false behind the shipper's back. For the refinement, whatever any handler
still works on is on the host or stored (`BatchesAreHome`); otherwise a
handler the shipper has given up could deliver a record after its release.

*Order of storage (`OrderInv`, on top of `DeliveryInv`).* A sink writes the last segment it
has named (`OpenIsLast`), so a segment with another behind it gets no more records
(`FilesClose`), and once everything in it is judged it stays so. A cycle loses sight of a file
that is sealed after it was listed, but then nothing behind that file was listed. Hence
whatever precedes a path the cycle still has to visit is judged, or on the list, or being visited
(`TodoIsSound`), as long as the cycle may send more; a cycle that stops in the middle of a
segment sends nothing of a later one (`VisitIsSound`). A batch follows judged records only
(`Follows`), and does so for as long as a handler works on it, also for a client that gave
up. Since records are unique (`RecordsAreUnique`), storing a batch from the front keeps the order.

*Buffer (`BufferInv`).* The place of each thread tells whether it holds the lifecycle lock
(`CallerIsSound`). A barrier is the last thing queued as long as its caller waits, because
a thread that wanted to queue behind it would need the lock the caller holds; hence queue
and batch are empty when a read goes on (`BarrierIsLast`). The shutdown marker is
the last thing queued, and when `close` returns from the join the worker is gone
(`EndIsSound`). For the refinement, what waits are the writes of the batch and then those
of the queue, with the markers among them (`Line`); the lemmas about `Tagged` say what
appending, taking and cancelling an item does to the line. That a write is applied once
needs more than the refinement mapping sees: a write that no caller has brought yet is
neither in the line nor applied, and each of them stands at one place only (`Once`).

*Queue and worker (`QueueInv`).* An intent has one successor at most and keeps its
endpoint once it has one (`RowSound`); what a process has listed is stored and bound as it
was (`Listing`), whoever else changes rows. While no guard is lost, more holds: only the
holder is at work, and the rows it is to send are as listed (`HolderInv`). This
is where the theorem says less after a loss, as the property does.

*Judgments and paid calls (`JudgmentInv`, `CallsInv`).* Both are countings. The answers
about a version, with those who are about to ask, are one and one more for each loss of a
guard; who will ask is decided by where each judge stands, and by whether the holder of
the guard is at it (`Settled`, `Provided`). An approval is left by one caller, so calls made for it
and callers behind its reservation are one together (`ApprovalsAreCounted`).

*Analysis and notices (`AnalysisInv`, `NoticesInv`).* A computation has the input of the revision
it will claim, so what is verified for a revision is its input. What a scan owes is
noticed unless it lies ahead of the cursor; this needs that evidence of one kind
is ordered by time and name, and that a page takes the least. The rechecks of a notice are
bounded because those that are gone make room before one is attached (`RechecksInv`).

*Monitors and clusters (`MonitorInv`, `ClusterInv`).* What a run is to save succeeds the head it
read, and saving requires that the head is still there. A request's policy is the
candidate it was, or another activation has come first (`Eligible`). An operator has seen the pointer as it
is, unless the generation has moved on; a version to be stored is new, and two operators
never store one of the same name.

*Model calls and runs (`WrapperInv`, `StreamInv`).* A wrapper knows of every failure until it
is finalized, and a manager finalizes it when the block is left and not before. In a run,
no two events have a number in common, and those of one context are numbered as it made
them; who takes the next number of a turn holds its lock; a turn has one owner;
until a failure is known each context has captured all its events but the one on its way,
and one that goes on to the sink still has (`CapturedInOrder`). What storage has is what the batches
it got tell together, and they tell of one outcome at most.

*Local histories (`ScanInv`).* A file that replaces what is stored has all the stored events,
for one of two reasons: it begins with the stored revision, and more bytes mean more
records (`ParsedGrows`, `KeptGrows`), or it is a rewrite and was compared with the events.
So the merge of events adds none to those of the file (`ReplacesMeans`), and what any
scanner was told is stored remains so (`IsStored`). Two scanners at work have different generations, and
the one with the latest has recorded nothing yet, so nothing recorded is overwritten.

### What is only model-checked

- Liveness: `SealedDrains`, `CapturedIsJudged`, `CallsReturn`, `AcceptedIsApplied`,
  `ObligationsSettle`, `CyclesFinish`. The prover has no rule for fairness.
- That `DirectoryBound` fails: the run `spool_quota` shows it, and what is proved instead is the
  bound on what waits (`SpoolBounds`).

## 5. What the models leave out

*Records and the pipeline*

- Contents of records: only size (of the line: `MAX_RECORD_BYTES` bounds it without its
  newline, so a line may have one byte more), identity, decodability and kind matter. Two
  records of one identity are two versions of an agent event, which storage never
  replaces; ids of traces and spans are unique per record (ADR-011), since storage
  would replace those.
- Measurement stats all listed files in one step. Disposals can fall between the
  listing and the stats, not between two stats.
- The shipper has one collector; pointing it at another one, a spool file that
  lost acknowledged bytes in a host crash (the prefix hash), and more files than
  `MAX_SEGMENTS` are hazards without a property. Each stops the shipper for good.
- Authorization and header checks end a request before it has any effect; reading a
  receipt and the health endpoints have none.
- A receipt statement that is cancelled by its timeout answers `busy` or `unavailable`,
  depending on where it was; the model has `unavailable` at completion. The shipper
  retries both alike.
- Evidence is not removed. Retention deletes it later, on purpose.
- The text order of segment names is the order of numbers up to sequence 999999.

*Buffer*

- The counters of `telemetry_snapshot`, which decide nothing.
- `agent_turn_judge_guard` enters the inner storage without a lock, although
  `buffered.py` (about line 141) says that there is never more than one thread inside
  it. `InnerAlone` excepts it, and reads during a guard are possible in the model.

*Notification and worker*

- The list of a drain is not limited for unbound intents (the code lists 100), and
  intents of one notification become due together.
- All outcomes of a finished cycle are one; what an analysis finds is a choice.
- A run requested on the schedule page (`schedule_run` of
  `dashboard/control_routes.py`) takes the cycle guard and does what a cycle does:
  capture, monitor, analysis, notices, approved evaluation. It appears as a worker
  that runs once. The presence heartbeat is not modelled.

*Analyses and notices*

- An evidence revision that is absent and revision 0, the one before any capture, are one
  value (`Unrevised`), and the error when a result of the same run is already stored
  with another content.
- The content of an analysis, and pointers of stores that are older than the pointer.
  Failed attempts, which have no revision and an analysis each, are one.
- The states `acknowledged` and `dismissed` of a notice are one, `reviewed`; nothing
  distinguishes them later. The schedule is active. Which events have failed is a
  constant.

*Paid calls and judgments*

- One configuration of one evaluator. Prices, limits and keys are choices of the steps
  that check them, and a plan does not recur: evidence that changes does not change
  back. Likewise versions of a turn.
- A plan is one call, as the code demands (`max_calls`).
- Deferring an approval without a key changes nothing in the store.

*Monitors and clusters*

- Units that wait for an evaluator, the choice of the historical cohorts, and the
  statistics. A reference that is insufficient refuses an activation, as
  `EndRequest` does.
- Semantic and hybrid strategies with their identities, assignments of traces,
  renaming, times of validation. A refit is a fit.
- What a validation looks at besides the clusters: the candidates and their digest, and
  the limits. A version that passed passes again, as with the explicit strategy; a
  digest that has changed refuses the move, as an operator who stops does.

*Agent runs*

- Runs that are not sampled capture nothing; nested runs; spans of `trace.py`; the
  capture of the trace of a model call on its own when the run's capture has
  failed; the fork of a process inside a run. A business outcome on the latest turn
  is an event like others.
- Storage merges texts, token counts and traces field by field in the way it merges
  statuses; only these are modelled, with the identity and the numbers of events.
- Batches are stored in the order of capture and again later, but not one ahead of an
  earlier one: `replace_agent_capture` of the buffer is a synchronous write behind a
  barrier, so a full queue makes none overtake, and the spool is shipped in order.
- Between contexts a gap is possible, as `StreamIsWhole` says: an event on its way
  when the capture of another fails.

*Model calls*

- Synchronous streams, in which threads take the place of tasks, and those of the other
  providers; calls without a stream. What is read of texts, tokens and costs.
- A manager that several tasks enter at once, or that is made under one client and
  entered under another. Reservation of correlation ids.
- A trace counts as soon as it is handed over. Inside an agent run that is not sampled,
  `persist_trace` (`base.py:117`) drops it, also that of a failed call: `CallsAreTraced`
  speaks of calls outside such a run.
- Whether the trace handed over is stored is a matter of the sink, the buffer or the
  storage, which have their own models.

*Local histories*

- The formats of the agents, archives (`.zst`) that replace a file, files beyond
  the limits of parsing, facts of recent activity and projections of the tail,
  automatic turns, the upgrade of texts of legacy imports. One file holds one turn.
- A verification reads the file at one moment. Agents leave blank lines only in
  a rewrite, and a rewrite leaves complete records. A record is one byte and the `End`
  that completes its JSON, with its newline or, while it is the last one, without; a
  second `End` is the newline that comes later, or a blank line.

## 6. Plan

What is left, in this order.

1. `SegmentShipper`: a changed destination and lost file tails; `AgentStream` with two
   turns in a regular run.
2. More of the adapters: retention, and the trace judgments.
