---------------------------- MODULE BufferedStorage ----------------------------
(***************************************************************************)
(* BufferedStorage of storage/buffered.py: writes are queued for one       *)
(* worker thread, while every other operation first waits until the worker *)
(* has passed a barrier behind the writes queued so far.                   *)
(*                                                                         *)
(* Two locks: the lifecycle lock, which callers hold from the check that   *)
(* the buffer is open to the end of their operation, waiting included, and *)
(* which the worker never takes; and the write lock around each call of    *)
(* the inner storage.  A call of the inner storage ends by itself; for a   *)
(* write in Rejected it raises.  The counters are left out: no decision    *)
(* depends on them.                                                        *)
(***************************************************************************)
EXTENDS Integers, Sequences, FiniteSets, SequencesExt

CONSTANTS
  Callers,    \* application threads
  Writes,     \* writes, each submitted once
  Rejected,   \* writes the inner storage raises for
  None,       \* no write, no thread, nothing queued
  MaxQueue,   \* max_queue
  BatchSize,  \* batch_size
  MaxCalls    \* bound: operations per caller

VARIABLES
  queue,     \* what the worker has not taken yet
  worker,    \* the worker thread
  caller,    \* caller[c]: the operation thread c is in
  lifecycle, \* the thread that holds the lifecycle lock
  inside,    \* the threads inside the inner storage
  closed,    \* has close() begun?
  done       \* writes the inner storage was called with, in order

vars == <<queue, worker, caller, lifecycle, inside, closed, done>>

\* A barrier carries the event of one call; an event nobody waits for any more,
\* because its call has timed out, is that of None.
Write(w) == [kind |-> "write", of |-> w]
Barrier(c) == [kind |-> "barrier", of |-> c]
Shutdown == [kind |-> "shutdown", of |-> None]

Items == {Write(w) : w \in Writes} \cup {Barrier(c) : c \in Callers \cup {None}}
         \cup {Shutdown}

\* The worker thread.
Worker == "worker"

ASSUME BufferAssumption ==
  /\ Rejected \subseteq Writes
  /\ None \notin Writes \cup Callers /\ None \notin Items
  /\ Worker \notin Callers \cup {None}
  /\ MaxQueue \in Nat \ {0} /\ BatchSize \in Nat \ {0} /\ MaxCalls \in Nat

\* trace_exists, the reads, the synchronous writes, agent_turn_judge_guard, and
\* the rest by name.
Ops == {"write", "exists", "read", "maintain", "guard", "flush", "close"}

CallerStates ==
  [pc : {"idle", "lock", "put", "barrier", "wait", "enter", "inside", "sentinel",
         "join", "return"},
   op : Ops, w : Writes \cup {None}, calls : 0..MaxCalls]

\* batch: taken, not yet applied; mark: the barrier behind the batch; last: the
\* shutdown marker was taken.
WorkerStates ==
  [pc : {"take", "apply", "drain", "gone"}, batch : Seq(Writes),
   mark : Items \cup {None}, last : BOOLEAN]

TypeOK ==
  /\ queue \in Seq(Items) /\ Len(queue) <= MaxQueue
  /\ worker \in WorkerStates /\ Len(worker.batch) <= BatchSize
  /\ caller \in [Callers -> CallerStates]
  /\ lifecycle \in Callers \cup {None}
  /\ inside \subseteq Callers \cup {Worker}
  /\ closed \in BOOLEAN
  /\ done \in Seq(Writes)

---------------------------------------------------------------------------
\* What stands in line to be applied: the writes, and None for the markers among them.
Tag(item) == IF item.kind = "write" THEN item.of ELSE None

Tagged(items) == [i \in DOMAIN items |-> Tag(items[i])]

Line ==
  worker.batch \o (IF worker.mark = None THEN <<>> ELSE <<None>>) \o Tagged(queue)

Full == Len(queue) >= MaxQueue

\* The inner storage's guard of a judge call takes none of the two locks.
Guards == {c \in Callers : caller[c].op = "guard"}

\* The write lock is free.
Alone == inside \subseteq Guards

Goes(c, pc) == caller' = [caller EXCEPT ![c].pc = pc]

\* The operation ends and the lifecycle lock, if held, is released.
Returns(c) ==
  /\ caller' = [caller EXCEPT ![c].pc = "idle", ![c].op = "flush", ![c].w = None]
  /\ lifecycle' = IF lifecycle = c THEN None ELSE lifecycle

Init ==
  /\ queue = <<>>
  /\ worker = [pc |-> "take", batch |-> <<>>, mark |-> None, last |-> FALSE]
  /\ caller = [c \in Callers |-> [pc |-> "idle", op |-> "flush", w |-> None, calls |-> 0]]
  /\ lifecycle = None
  /\ inside = {}
  /\ closed = FALSE
  /\ done = <<>>

---------------------------------------------------------------------------
\* Callers.

Fresh(w) ==
  /\ w \notin ToSet(done) \cup ToSet(Line)
  /\ \A c \in Callers : caller[c].w # w

Begin(c, op, w) ==
  /\ caller[c].pc = "idle" /\ caller[c].calls < MaxCalls
  /\ IF op \in {"write", "maintain"} THEN w \in Writes /\ Fresh(w) ELSE w = None
  /\ caller' = [caller EXCEPT ![c] = [pc |-> IF op = "guard" THEN "inside" ELSE "lock",
                                      op |-> op, w |-> w, calls |-> @.calls + 1]]
  /\ inside' = IF op = "guard" THEN inside \cup {c} ELSE inside
  /\ UNCHANGED <<queue, worker, lifecycle, closed, done>>

\* The lifecycle lock is taken.  A closed buffer refuses the operation, or has
\* nothing to do; close() refuses all later operations before it drains.
Lock(c) ==
  LET op == caller[c].op
  IN /\ caller[c].pc = "lock"
     /\ lifecycle = None
     /\ IF closed
        THEN Returns(c) /\ UNCHANGED closed
        ELSE /\ lifecycle' = c
             /\ closed' = (op = "close")
             /\ Goes(c, CASE op = "write"  -> "put"
                          [] op = "exists" -> "enter"
                          [] OTHER         -> "barrier")
     /\ UNCHANGED <<queue, worker, inside, done>>

\* A faulty variant: the lifecycle lock is released before the write is applied.
PutReleases(c) ==
  /\ caller[c].pc = "put"
  /\ IF Full
     THEN Goes(c, "enter") /\ lifecycle' = None /\ UNCHANGED queue
     ELSE queue' = Append(queue, Write(caller[c].w)) /\ Returns(c)
  /\ UNCHANGED <<worker, inside, closed, done>>

\* _enqueue: a write that does not fit is applied by its caller.
Put(c) ==
  /\ caller[c].pc = "put"
  /\ IF Full
     THEN Goes(c, "enter") /\ UNCHANGED <<queue, lifecycle>>
     ELSE queue' = Append(queue, Write(caller[c].w)) /\ Returns(c)
  /\ UNCHANGED <<worker, inside, closed, done>>

\* _flush_locked: the barrier waits for room in the queue, ...
PutBarrier(c) ==
  /\ caller[c].pc = "barrier"
  /\ ~Full
  /\ queue' = Append(queue, Barrier(c))
  /\ Goes(c, "wait")
  /\ UNCHANGED <<worker, lifecycle, inside, closed, done>>

\* ... and either wait may time out, which only flush() asks for.
FlushTimeout(c) ==
  LET Forget(item) == IF item = Barrier(c) THEN Barrier(None) ELSE item
  IN /\ caller[c].op = "flush"
     /\ caller[c].pc = "wait" \/ (caller[c].pc = "barrier" /\ Full)
     /\ queue' = [i \in DOMAIN queue |-> Forget(queue[i])]
     /\ worker' = [worker EXCEPT !.mark = Forget(@)]
     /\ Returns(c)
     /\ UNCHANGED <<inside, closed, done>>

\* The inner storage is called under the write lock ...
Enter(c) ==
  /\ caller[c].pc = "enter"
  /\ Alone
  /\ inside' = inside \cup {c}
  /\ Goes(c, "inside")
  /\ UNCHANGED <<queue, worker, lifecycle, closed, done>>

\* ... and returns or raises.
Leave(c) ==
  /\ caller[c].pc = "inside"
  /\ inside' = inside \ {c}
  /\ done' = IF caller[c].w = None THEN done ELSE Append(done, caller[c].w)
  /\ Goes(c, "return")
  /\ UNCHANGED <<queue, worker, lifecycle, closed>>

Return(c) ==
  /\ caller[c].pc = "return"
  /\ Returns(c)
  /\ UNCHANGED <<queue, worker, inside, closed, done>>

\* close(), after its flush.
PutShutdown(c) ==
  /\ caller[c].pc = "sentinel"
  /\ ~Full
  /\ queue' = Append(queue, Shutdown)
  /\ Goes(c, "join")
  /\ UNCHANGED <<worker, lifecycle, inside, closed, done>>

\* The worker is joined, and the inner storage closed without the write lock.
Join(c) ==
  /\ caller[c].pc = "join"
  /\ worker.pc = "gone"
  /\ inside' = inside \cup {c}
  /\ Goes(c, "inside")
  /\ UNCHANGED <<queue, worker, lifecycle, closed, done>>

---------------------------------------------------------------------------
\* The worker.

\* What the worker holds after it took an item.
Taken(item) ==
  CASE item.kind = "write"    -> [worker EXCEPT !.batch = Append(@, item.of)]
    [] item.kind = "barrier"  -> [worker EXCEPT !.mark = item]
    [] item.kind = "shutdown" -> [worker EXCEPT !.last = TRUE]

\* It takes writes up to a batch, up to a barrier, or up to the shutdown marker.
BatchEnds == worker.mark # None \/ worker.last \/ Len(worker.batch) = BatchSize

Take ==
  /\ worker.pc = "take"
  /\ ~BatchEnds
  /\ queue # <<>>
  /\ queue' = Tail(queue)
  /\ worker' = Taken(Head(queue))
  /\ UNCHANGED <<caller, lifecycle, inside, closed, done>>

\* It stops when there is no more to take, but not empty-handed.
StopTaking ==
  /\ worker.pc = "take"
  /\ BatchEnds \/ (queue = <<>> /\ worker.batch # <<>>)
  /\ worker' = [worker EXCEPT !.pc = "apply"]
  /\ UNCHANGED <<queue, caller, lifecycle, inside, closed, done>>

\* A faulty variant: the worker applies its batch without the write lock.
ApplyUnlocked ==
  /\ worker.pc = "apply"
  /\ worker.batch # <<>>
  /\ Worker \notin inside
  /\ inside' = inside \cup {Worker}
  /\ UNCHANGED <<queue, worker, caller, lifecycle, closed, done>>

ApplyStarts ==
  /\ worker.pc = "apply"
  /\ worker.batch # <<>>
  /\ Worker \notin inside
  /\ Alone
  /\ inside' = inside \cup {Worker}
  /\ UNCHANGED <<queue, worker, caller, lifecycle, closed, done>>

\* A faulty variant: an exception of the inner storage ends the worker.
ApplyOrDie ==
  /\ Worker \in inside
  /\ inside' = inside \ {Worker}
  /\ done' = Append(done, Head(worker.batch))
  /\ worker' = [worker EXCEPT !.batch = Tail(@),
                              !.pc = IF Head(worker.batch) \in Rejected THEN "gone" ELSE @]
  /\ UNCHANGED <<queue, caller, lifecycle, closed>>

\* _execute: an exception of the inner storage is counted, no more.
ApplyEnds ==
  /\ Worker \in inside
  /\ inside' = inside \ {Worker}
  /\ done' = Append(done, Head(worker.batch))
  /\ worker' = [worker EXCEPT !.batch = Tail(@)]
  /\ UNCHANGED <<queue, caller, lifecycle, closed>>

\* A faulty variant: the barrier is passed on when taken, before the batch is applied.
ReachBarrierEarly ==
  LET c == worker.mark.of
      next == CASE caller[c].op = "flush" -> "return"
                [] caller[c].op = "close" -> "sentinel"
                [] OTHER                  -> "enter"
  IN /\ worker.pc = "apply"
     /\ worker.mark # None
     /\ worker' = [worker EXCEPT !.mark = None]
     /\ IF c = None THEN UNCHANGED caller ELSE Goes(c, next)
     /\ UNCHANGED <<queue, lifecycle, inside, closed, done>>

\* The barrier behind the batch is reached; its caller goes on.
ReachBarrier ==
  LET c == worker.mark.of
      next == CASE caller[c].op = "flush" -> "return"
                [] caller[c].op = "close" -> "sentinel"
                [] OTHER                  -> "enter"
  IN /\ worker.pc = "apply"
     /\ worker.batch = <<>>
     /\ worker.mark # None
     /\ worker' = [worker EXCEPT !.mark = None]
     /\ IF c = None THEN UNCHANGED caller ELSE Goes(c, next)
     /\ UNCHANGED <<queue, lifecycle, inside, closed, done>>

\* A faulty variant: the shutdown marker behind a batch is forgotten.
BatchDoneForgets ==
  /\ worker.pc = "apply"
  /\ worker.batch = <<>>
  /\ worker.mark = None
  /\ worker' = [worker EXCEPT !.pc = "take", !.last = FALSE]
  /\ UNCHANGED <<queue, caller, lifecycle, inside, closed, done>>

BatchDone ==
  /\ worker.pc = "apply"
  /\ worker.batch = <<>>
  /\ worker.mark = None
  /\ worker' = [worker EXCEPT !.pc = IF worker.last THEN "drain" ELSE "take"]
  /\ UNCHANGED <<queue, caller, lifecycle, inside, closed, done>>

\* _drain_remaining, one item at a time, until the queue is empty.
Drain ==
  /\ worker.pc = "drain"
  /\ IF queue = <<>>
     THEN worker' = [worker EXCEPT !.pc = "gone"] /\ UNCHANGED queue
     ELSE worker' = [Taken(Head(queue)) EXCEPT !.pc = "apply"] /\ queue' = Tail(queue)
  /\ UNCHANGED <<caller, lifecycle, inside, closed, done>>

---------------------------------------------------------------------------
CallerProgress(c) ==
  \/ Lock(c) \/ Put(c) \/ PutBarrier(c) \/ Enter(c) \/ Leave(c) \/ Return(c)
  \/ PutShutdown(c) \/ Join(c)

WorkerProgress ==
  Take \/ StopTaking \/ ApplyStarts \/ ApplyEnds \/ ReachBarrier \/ BatchDone \/ Drain

Next ==
  \/ \E c \in Callers :
        \/ \E op \in Ops, w \in Writes \cup {None} : Begin(c, op, w)
        \/ FlushTimeout(c)
        \/ CallerProgress(c)
  \/ WorkerProgress

Spec == Init /\ [][Next]_vars

\* Threads that can go on do.  Nothing is assumed of FlushTimeout, and no lock
\* is fair: a thread gets one only when it stays free.
FairSpec ==
  Spec /\ WF_vars(WorkerProgress) /\ \A c \in Callers : WF_vars(CallerProgress(c))

---------------------------------------------------------------------------
\* Properties.

\* There is never more than one thread inside inner at a time, close(), which
\* takes no write lock, included; the guard of a judge call is the exception.
InnerAlone == Cardinality(inside \ Guards) <= 1

\* The state keeps to its types, and inner to its callers one by one.
InnerIsGuarded == TypeOK /\ InnerAlone

\* A read, or a synchronous write, that has passed its barrier sees every write
\* accepted so far, however the queue was emptied and refilled meanwhile.
ReadsSeeAccepted ==
  \A c \in Callers :
     (/\ caller[c].pc \in {"enter", "inside", "sentinel"}
      /\ caller[c].op \in {"read", "maintain", "close"}) => Line = <<>>

\* The write of a call that found the queue full and applies it itself.
TurnedAway ==
  {caller[c].w : c \in {d \in Callers : caller[d].op = "write"
                                        /\ caller[d].pc \in {"enter", "inside"}}}

\* The buffer is a faithful queue in front of the inner storage: every write is
\* applied once, and in the order accepted unless it found the queue full;
\* none is lost at close and nothing is applied after it.
Deferred == INSTANCE DeferredWrites WITH
  line       <- Line,
  turnedAway <- TurnedAway,
  closed     <- closed /\ lifecycle = None,
  Mark       <- None,
  Capacity   <- MaxQueue

DeferredSpec == Deferred!Spec

\* No operation hangs, although callers wait for the worker and for each other
\* with locks in their hands.
CallsReturn == \A c \in Callers : caller[c].pc # "idle" ~> caller[c].pc = "idle"

\* An accepted write reaches the inner storage without further calls, also
\* behind a write that raises.
AcceptedIsApplied ==
  \A w \in Writes : w \in ToSet(Line) ~> w \in ToSet(done)

===========================================================================
