------------------------------ MODULE AgentStream ------------------------------
(***************************************************************************)
(* The capture of one sampled agent run (agent.py) and the merge of its    *)
(* batches in storage (normalized_evidence.py, and the transaction of      *)
(* storage/sqlite.py and storage/postgres.py that writes them).            *)
(*                                                                         *)
(* Several contexts (threads, tasks) record one run: they open turns or    *)
(* inherit one, record events, and make model calls, whose traces may be   *)
(* finished after turn and run have ended.  Each emission is a batch with  *)
(* the run and the turn as they are then.  The batches captured reach      *)
(* storage in that order, but some of them more than once (CaptureSpool    *)
(* and SegmentShipper).                                                    *)
(***************************************************************************)
EXTENDS Integers, Sequences, FiniteSets, SequencesExt

CONSTANTS
  Contexts,
  Owner,     \* the context that enters and exits the run
  Terminal,  \* statuses an execution ends with
  MaxTurns,  \* bound: turns
  MaxStream  \* bound: events

Unknown == "unknown"
Absent == "absent"

ASSUME StreamAssumption ==
  /\ Owner \in Contexts /\ MaxTurns \in Nat /\ MaxStream \in Nat
  /\ {Unknown, Absent} \cap Terminal = {}

Statuses == Terminal \cup {Unknown}
NoTurn == 0

VARIABLES
  agent,      \* the AgentRunContext
  turns,      \* the _TurnState of every turn, in order
  ctx,        \* ctx[c]: what context c is doing
  stream,     \* batches captured, in order
  central,    \* what storage has of the run
  delivered   \* batches of the stream that have reached storage

producerVars == <<agent, turns, ctx, stream>>
centralVars == <<central, delivered>>
streamVars == <<producerVars, centralVars>>

\* An event is the nth of its context; seq and num are the two numbers it gets.
NoEvent == [by |-> Owner, nth |-> 0, turn |-> NoTurn, seq |-> 0, num |-> 0]
NoBatch == [run |-> Unknown, turn |-> NoTurn, status |-> Unknown, event |-> NoEvent]

\* active: the turn the context is in, its own or inherited; call: the turn of the
\* model call it has under way.
IdleContext ==
  [pc |-> "idle", active |-> NoTurn, owns |-> FALSE, call |-> NoTurn, made |-> 0, batch |-> NoBatch]

StreamTypeOK ==
  /\ agent \in [entered : BOOLEAN, open : BOOLEAN, status : Statuses, failed : BOOLEAN, numbers : Nat]
  /\ \A t \in DOMAIN turns : turns[t] \in [status : Statuses, next : Nat, locked : BOOLEAN]
  /\ \A c \in Contexts : {ctx[c].active, ctx[c].call, ctx[c].batch.turn} \subseteq {NoTurn} \cup DOMAIN turns
  /\ central.run \in Statuses \cup {Absent} /\ central.refused \in BOOLEAN
  /\ delivered \in 0..Len(stream)

StreamInit ==
  /\ agent = [entered |-> FALSE, open |-> FALSE, status |-> Unknown, failed |-> FALSE, numbers |-> 0]
  /\ turns = <<>>
  /\ ctx = [c \in Contexts |-> IdleContext]
  /\ stream = <<>>
  /\ central = [run |-> Absent, turns |-> [t \in 1..MaxTurns |-> Absent], events |-> {}, refused |-> FALSE]
  /\ delivered = 0

---------------------------------------------------------------------------
At(c, pc) == ctx[c].pc = pc
Free(c) == At(c, "idle") /\ agent.entered

\* A context begins to emit the run, and a turn.
Emits(c, t) == [ctx[c] EXCEPT !.pc = "emit", !.batch.turn = t]

\* AgentRunContext.__enter__ and __exit__
EnterRun ==
  /\ ~agent.entered
  /\ agent' = [agent EXCEPT !.entered = TRUE, !.open = TRUE]
  /\ ctx' = [ctx EXCEPT ![Owner] = Emits(Owner, NoTurn)]
  /\ UNCHANGED <<turns, stream, centralVars>>

ExitRun(status) ==
  /\ Free(Owner) /\ agent.open /\ ctx[Owner].active = NoTurn
  /\ agent' = [agent EXCEPT !.status = status]
  /\ ctx' = [ctx EXCEPT ![Owner] = Emits(Owner, NoTurn)]
  /\ UNCHANGED <<turns, stream, centralVars>>

\* turn(), which an open run allows, and later TurnContext.__enter__
AskTurn(c) ==
  /\ Free(c) /\ agent.open /\ ctx[c].active = NoTurn
  /\ Len(turns) < MaxTurns
  /\ ctx' = [ctx EXCEPT ![c].pc = "turn"]
  /\ UNCHANGED <<agent, turns, stream, centralVars>>

EnterTurn(c) ==
  /\ At(c, "turn") /\ Len(turns) < MaxTurns
  /\ turns' = Append(turns, [status |-> Unknown, next |-> 0, locked |-> FALSE])
  /\ ctx' = [ctx EXCEPT ![c] = [Emits(c, Len(turns) + 1) EXCEPT !.active = Len(turns) + 1, !.owns = TRUE]]
  /\ UNCHANGED <<agent, stream, centralVars>>

ExitTurn(c, status) ==
  LET t == ctx[c].active
  IN /\ Free(c) /\ ctx[c].owns
     /\ turns' = [turns EXCEPT ![t].status = status]
     /\ ctx' = [ctx EXCEPT ![c] = [Emits(c, t) EXCEPT !.active = NoTurn, !.owns = FALSE]]
     /\ UNCHANGED <<agent, stream, centralVars>>

\* A task or thread begins with the context of another.
Inherit(c, d) ==
  /\ Free(c) /\ c # Owner /\ ctx[c].active = NoTurn /\ ctx[c].call = NoTurn
  /\ Free(d) /\ ctx[d].owns
  /\ ctx' = [ctx EXCEPT ![c].active = ctx[d].active]
  /\ UNCHANGED <<agent, turns, stream, centralVars>>

\* apply_routing_context: a provider call begins in a turn that is under way.
StartCall(c) ==
  LET t == ctx[c].active
  IN /\ Free(c) /\ agent.open /\ ctx[c].call = NoTurn
     /\ t # NoTurn /\ turns[t].status = Unknown
     /\ ctx' = [ctx EXCEPT ![c].call = t]
     /\ UNCHANGED <<agent, turns, stream, centralVars>>

---------------------------------------------------------------------------
\* Events.

MadeSoFar == MapThenSumSet(LAMBDA c : ctx[c].made, Contexts)

\* An event of a turn is made, to be numbered; call is what is still under way.
Makes(c, t, call) ==
  /\ Free(c) /\ MadeSoFar < MaxStream
  /\ LET nth == ctx[c].made + 1
         e == [NoEvent EXCEPT !.by = c, !.nth = nth, !.turn = t]
     IN ctx' = [ctx EXCEPT ![c] = [@ EXCEPT !.pc = "number", !.made = nth, !.call = call,
                                            !.batch = [NoBatch EXCEPT !.turn = t, !.event = e]]]
  /\ UNCHANGED <<agent, turns, stream, centralVars>>

\* Tools and the record_ methods require the active turn, ...
Record(c) ==
  /\ ctx[c].active # NoTurn /\ turns[ctx[c].active].status = Unknown
  /\ Makes(c, ctx[c].active, ctx[c].call)

\* ... capture_model_trace only that its call began in a turn.
FinishCall(c) == ctx[c].call # NoTurn /\ Makes(c, ctx[c].call, NoTurn)

\* _event: under the lock of the turn the event gets the next number of the turn ...
ReadSequence(c) ==
  LET t == ctx[c].batch.turn
  IN /\ At(c, "number")
     /\ ~turns[t].locked
     /\ turns' = [turns EXCEPT ![t].locked = TRUE]
     /\ ctx' = [ctx EXCEPT ![c] = [@ EXCEPT !.pc = "numbering", !.batch.event.seq = turns[t].next]]
     /\ UNCHANGED <<agent, stream, centralVars>>

\* ... and, with another lock, that of the run; then emit() is called.
TakeNumber(c) ==
  LET t == ctx[c].batch.turn
  IN /\ At(c, "numbering")
     /\ agent' = [agent EXCEPT !.numbers = @ + 1]
     /\ turns' = [turns EXCEPT ![t] = [@ EXCEPT !.next = ctx[c].batch.event.seq + 1, !.locked = FALSE]]
     /\ ctx' = [ctx EXCEPT ![c] = [@ EXCEPT !.pc = "emit", !.batch.event.num = agent.numbers]]
     /\ UNCHANGED <<stream, centralVars>>

---------------------------------------------------------------------------
\* _emit

\* The emission is over; that of the end of the run closes it.
Emitted(c) == [ctx EXCEPT ![c] = [@ EXCEPT !.pc = "idle", !.batch = NoBatch]]
Closing(c) == c = Owner /\ agent.status # Unknown /\ ctx[c].batch.turn = NoTurn

\* The turn as it is now is handed over.  After a failure nothing is captured any more.
CheckFailed(c) ==
  LET t == ctx[c].batch.turn
      now == IF t = NoTurn THEN Unknown ELSE turns[t].status IN
  /\ At(c, "emit")
  /\ IF agent.failed
     THEN /\ ctx' = Emitted(c)
          /\ agent' = [agent EXCEPT !.open = @ /\ ~Closing(c)]
     ELSE /\ ctx' = [ctx EXCEPT ![c] = [@ EXCEPT !.pc = "build", !.batch.status = now]]
          /\ UNCHANGED agent
  /\ UNCHANGED <<turns, stream, centralVars>>

BuildBatch(c) ==
  /\ At(c, "build")
  /\ ctx' = [ctx EXCEPT ![c] = [@ EXCEPT !.pc = "sink", !.batch.run = agent.status]]
  /\ UNCHANGED <<agent, turns, stream, centralVars>>

Capture(c) ==
  /\ At(c, "sink")
  /\ stream' = Append(stream, ctx[c].batch)
  /\ ctx' = Emitted(c)
  /\ agent' = [agent EXCEPT !.open = @ /\ ~Closing(c)]
  /\ UNCHANGED <<turns, centralVars>>

\* The sink raises, whether it has captured the batch or not.
CaptureFails(c) ==
  /\ At(c, "sink")
  /\ stream' \in {stream, Append(stream, ctx[c].batch)}
  /\ ctx' = [ctx EXCEPT ![c].pc = "failing"]
  /\ UNCHANGED <<agent, turns, centralVars>>

\* A faulty variant: the failure is that of one batch.
LatchNothing(c) ==
  /\ At(c, "failing")
  /\ agent' = [agent EXCEPT !.open = @ /\ ~Closing(c)]
  /\ ctx' = Emitted(c)
  /\ UNCHANGED <<turns, stream, centralVars>>

Latch(c) ==
  /\ At(c, "failing")
  /\ agent' = [agent EXCEPT !.failed = TRUE, !.open = @ /\ ~Closing(c)]
  /\ ctx' = Emitted(c)
  /\ UNCHANGED <<turns, stream, centralVars>>

---------------------------------------------------------------------------
\* Storage.

\* _advance_status of a row that exists, or the incoming status.
Advanced(current, incoming) ==
  IF current \in {Absent, Unknown} THEN incoming ELSE current

\* A terminal status cannot be replaced by another, ...
StatusConflict(current, incoming) ==
  current \in Terminal /\ incoming \in Terminal /\ current # incoming

\* ... an event neither by another nor by one with a number it has.
EventConflict(e) ==
  \E f \in central.events : f # e /\
    \/ <<f.by, f.nth>> = <<e.by, e.nth>>
    \/ <<f.turn, f.seq>> = <<e.turn, e.seq>>
    \/ f.num = e.num

\* _write_normalized_bundle, in one transaction.
Stores(b) ==
  LET conflict == \/ StatusConflict(central.run, b.run)
                  \/ b.turn # NoTurn /\ StatusConflict(central.turns[b.turn], b.status)
                  \/ b.event # NoEvent /\ EventConflict(b.event)
  IN central' =
       IF conflict THEN [central EXCEPT !.refused = TRUE]
       ELSE [central EXCEPT
               !.run = Advanced(@, b.run),
               !.turns = [t \in 1..MaxTurns |-> IF t = b.turn THEN Advanced(@[t], b.status) ELSE @[t]],
               !.events = @ \cup ({b.event} \ {NoEvent})]

\* The next batch, or one of those that were delivered before.
Deliver(k) ==
  /\ k <= Len(stream) /\ k <= delivered + 1
  /\ Stores(stream[k])
  /\ delivered' = IF k > delivered THEN k ELSE delivered
  /\ UNCHANGED producerVars

---------------------------------------------------------------------------
Emit(c) == CheckFailed(c) \/ BuildBatch(c) \/ Capture(c) \/ CaptureFails(c) \/ Latch(c)

StreamNext ==
  \/ EnterRun \/ \E status \in Terminal : ExitRun(status)
  \/ \E c \in Contexts :
       \/ AskTurn(c) \/ EnterTurn(c) \/ \E status \in Terminal : ExitTurn(c, status)
       \/ \E d \in Contexts : Inherit(c, d)
       \/ StartCall(c) \/ Record(c) \/ FinishCall(c) \/ ReadSequence(c) \/ TakeNumber(c)
       \/ Emit(c)
  \/ \E k \in DOMAIN stream : Deliver(k)

---------------------------------------------------------------------------
\* Properties.

CapturedEvents == {stream[k].event : k \in DOMAIN stream} \ {NoEvent}

\* "The normalized Agent stream cannot resume after an ambiguous append: doing so
\* could persist a sequence gap" (instrumentors/base.py).  What is captured of the
\* events of one context has no gap, and if no other context made any, neither have
\* the numbers.  (Between contexts, an event on its way when that of another fails
\* does leave one.)
NoGapOfOne ==
  \A e \in CapturedEvents :
    /\ \A n \in 1..e.nth - 1 : \E f \in CapturedEvents : f.by = e.by /\ f.nth = n /\ f.num < e.num
    /\ (\A c \in Contexts \ {e.by} : ctx[c].made = 0) => 0..e.num \subseteq {f.num : f \in CapturedEvents}

\* Batches are delivered again, and later ones may carry an older view of run and turn.
\* Storage refuses none, and has what the batches say together: the end of run and
\* turn if one of them tells it, and all events.
StreamMerges ==
  LET got == {stream[k] : k \in 1..delivered}
      Known(told, status) == IF told = {} THEN status = Absent
                             ELSE status = IF told \subseteq {Unknown} THEN Unknown
                                           ELSE CHOOSE s \in told : s # Unknown
  IN /\ ~central.refused
     /\ Known({b.run : b \in got}, central.run)
     /\ \A t \in 1..MaxTurns : Known({b.status : b \in {x \in got : x.turn = t}}, central.turns[t])
     /\ central.events = {b.event : b \in got} \ {NoEvent}

\* A run is captured without holes, and stored as it was captured.
StreamIsWhole == NoGapOfOne /\ StreamMerges

==============================================================================
