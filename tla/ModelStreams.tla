----------------------------- MODULE ModelStreams -----------------------------
(***************************************************************************)
(* The traces of streamed model calls: the asynchronous wrappers of        *)
(* instrumentors/openai.py for streams of responses and for the helper     *)
(* managers of the SDK, decide_persist of instrumentors/base.py, and the   *)
(* client that installs and disables them (client.py).  Streams of chat    *)
(* completions differ in that no event tells of a failure.                 *)
(*                                                                         *)
(* Everything runs in one event loop: a step ends where a coroutine waits. *)
(* One task may read a stream, another close it, and the block that holds  *)
(* it may be left, by an exception or not, while either waits.             *)
(***************************************************************************)
EXTENDS Integers, Sequences

CONSTANTS
  Calls,      \* model calls
  MaxClients  \* bound: how often init() is called

ASSUME ClientAssumption == MaxClients \in Nat

VARIABLES
  client,  \* the client's number, and whether it has been shut down since
  call,    \* call[c]: the stream wrapper of call c and who is at it
  traces,  \* traces[c]: whether it is an error, of every trace of c handed over for capture
  failed   \* history: whether anything has failed that the trace has to tell

wrapperVars == <<client, call, traces, failed>>

\* managed: entered through a manager, which took it for active.  gate:
\* _finalize_on_iteration.  instrumented: as computed when the manager is left.
NotCalled ==
  [pc |-> "new", client |-> 0, managed |-> FALSE, active |-> FALSE, gate |-> TRUE, error |-> FALSE,
   finalized |-> FALSE, reader |-> "new", closer |-> "none", scope |-> "none", instrumented |-> FALSE]

WrapperTypeOK ==
  /\ client \in [number : 0..MaxClients, up : BOOLEAN]
  /\ \A c \in Calls :
       /\ DOMAIN call[c] = DOMAIN NotCalled /\ call[c].client \in 0..client.number
       /\ call[c].pc \in {"new", "asked", "open", "over"}
       /\ call[c].reader \in {"new", "waits", "between", "ended"}
       /\ call[c].closer \in {"none", "closing", "done"}
       /\ call[c].scope \in {"none", "in", "leaving", "left"}
  /\ traces \in [Calls -> Seq(BOOLEAN)] /\ failed \in [Calls -> BOOLEAN]

WrapperInit ==
  /\ client = [number |-> 0, up |-> FALSE]
  /\ call = [c \in Calls |-> NotCalled]
  /\ traces = [c \in Calls |-> <<>>]
  /\ failed = [c \in Calls |-> FALSE]

---------------------------------------------------------------------------
\* init and shutdown.  A shutdown disables its instrumentors for good.

Initialize ==
  /\ ~client.up /\ client.number < MaxClients
  /\ client' = [number |-> client.number + 1, up |-> TRUE]
  /\ UNCHANGED <<call, traces, failed>>

Shutdown ==
  /\ client.up
  /\ client' = [client EXCEPT !.up = FALSE]
  /\ UNCHANGED <<call, traces, failed>>

Disabled(c) == ~client.up \/ client.number # call[c].client

---------------------------------------------------------------------------
\* decide_persist: errors are always captured, other calls if they are sampled.
Captures(c, error) ==
  traces' \in {[traces EXCEPT ![c] = Append(@, error)]} \cup (IF error THEN {} ELSE {traces})

\* _finalize, once, with what is known of the stream by then.
Finalize(c, new) ==
  /\ call' = [call EXCEPT ![c] = [new EXCEPT !.finalized = TRUE]]
  /\ IF call[c].finalized \/ Disabled(c) THEN UNCHANGED traces ELSE Captures(c, new.error)

\* A faulty variant: the end of an iteration is that of the stream.
FinalizeUngated(c, new) == Finalize(c, new)

\* The end of an iteration finalizes unless a manager will.
FinalizeIfGated(c, new) ==
  IF call[c].gate THEN Finalize(c, new) ELSE call' = [call EXCEPT ![c] = new] /\ UNCHANGED traces

\* What fails has to be told if the stream is not finalized, or will be by its manager.
Fails(c, failure) ==
  failed' = [failed EXCEPT ![c] = @ \/ (failure /\ IF call[c].managed THEN call[c].scope # "left"
                                                   ELSE ~call[c].finalized)]

---------------------------------------------------------------------------
\* The call.  A stream is asked for directly, or by a manager that is entered.

CallBegins(c) ==
  /\ call[c].pc = "new" /\ client.up
  /\ \E managed \in BOOLEAN :
       call' = [call EXCEPT ![c] = [@ EXCEPT !.pc = "asked", !.client = client.number, !.managed = managed]]
  /\ UNCHANGED <<client, traces, failed>>

\* It fails or is cancelled.  If no request has been sent nothing is captured.
CallFails(c) ==
  /\ call[c].pc = "asked"
  /\ call' = [call EXCEPT ![c].pc = "over"]
  /\ IF Disabled(c) THEN UNCHANGED <<traces, failed>>
     ELSE \/ UNCHANGED <<traces, failed>>
          \/ Captures(c, TRUE) /\ Fails(c, TRUE)
  /\ UNCHANGED client

\* The manager closes the gate, unless the client is gone.
CallAnswers(c) ==
  LET managed == call[c].managed
  IN /\ call[c].pc = "asked"
     /\ call' = [call EXCEPT ![c] =
                  [@ EXCEPT !.pc = "open", !.scope = IF managed THEN "in" ELSE "none",
                            !.active = managed /\ ~Disabled(c), !.gate = ~managed \/ Disabled(c)]]
     /\ UNCHANGED <<client, traces, failed>>

---------------------------------------------------------------------------
\* The reader: _async_gen.

ReadsOn(c) ==
  /\ call[c].pc = "open" /\ call[c].reader \in {"new", "between"}
  /\ call' = [call EXCEPT ![c].reader = "waits"]
  /\ UNCHANGED <<client, traces, failed>>

\* _on_chunk: an event may tell that the response has failed.
EventArrives(c) ==
  /\ call[c].reader = "waits"
  /\ \E failure \in BOOLEAN :
       /\ call' = [call EXCEPT ![c].reader = "between", ![c].error = @ \/ (failure /\ ~Disabled(c))]
       /\ Fails(c, failure /\ ~Disabled(c))
  /\ UNCHANGED <<client, traces>>

\* The stream ends, or fails, or the task is cancelled.
ReadingEnds(c) ==
  /\ call[c].reader = "waits"
  /\ \E failure \in BOOLEAN :
       /\ FinalizeIfGated(c, [call[c] EXCEPT !.reader = "ended", !.error = @ \/ failure])
       /\ Fails(c, failure)
  /\ UNCHANGED client

\* A generator that has begun is closed by its reader, or by the event loop.
ReaderDropped(c) ==
  /\ call[c].reader = "between"
  /\ FinalizeIfGated(c, [call[c] EXCEPT !.reader = "ended"])
  /\ UNCHANGED <<client, failed>>

---------------------------------------------------------------------------
\* aclose.  The application does not get at the wrapper of a managed stream: the
\* stream of the SDK around it closes the response.

CloseBegins(c) ==
  /\ call[c].pc = "open" /\ ~call[c].managed /\ call[c].closer = "none"
  /\ call' = [call EXCEPT ![c].closer = "closing"]
  /\ UNCHANGED <<client, traces, failed>>

CloseEnds(c) ==
  /\ call[c].closer = "closing"
  /\ \E failure \in BOOLEAN :
       /\ Finalize(c, [call[c] EXCEPT !.closer = "done", !.error = @ \/ failure])
       /\ Fails(c, failure)
  /\ UNCHANGED client

---------------------------------------------------------------------------
\* The block of `async with', around the stream or around the manager.

EntersStream(c) ==
  /\ call[c].pc = "open" /\ ~call[c].managed /\ call[c].scope = "none"
  /\ call' = [call EXCEPT ![c].scope = "in"]
  /\ UNCHANGED <<client, traces, failed>>

LeavesStream(c) ==
  /\ call[c].scope = "in" /\ ~call[c].managed
  /\ \E failure \in BOOLEAN :
       /\ call' = [call EXCEPT ![c].scope = "leaving", ![c].error = @ \/ failure]
       /\ Fails(c, failure)
  /\ UNCHANGED <<client, traces>>

StreamLeft(c) ==
  /\ call[c].scope = "leaving" /\ ~call[c].managed
  /\ \E failure \in BOOLEAN :
       /\ Finalize(c, [call[c] EXCEPT !.scope = "left", !.error = @ \/ failure])
       /\ Fails(c, failure)
  /\ UNCHANGED client

\* Of a manager that is entered again before it is left the innermost block is left
\* first, and its entry (_entries.pop) is that of the stream.
LeavesManager(c) ==
  LET instrumented == call[c].active /\ ~Disabled(c)
  IN /\ call[c].scope = "in" /\ call[c].managed
     /\ \E failure \in BOOLEAN :
          /\ call' = [call EXCEPT ![c].scope = "leaving", ![c].instrumented = instrumented,
                                  ![c].error = @ \/ (failure /\ instrumented)]
          /\ Fails(c, failure)
     /\ UNCHANGED <<client, traces>>

\* Without an active instrumentor what was accumulated is discarded.
ManagerLeft(c) ==
  LET left == [call[c] EXCEPT !.scope = "left"]
  IN /\ call[c].scope = "leaving" /\ call[c].managed
     /\ \E failure \in BOOLEAN :
          /\ IF call[c].instrumented THEN Finalize(c, [left EXCEPT !.error = @ \/ failure])
             ELSE /\ call' = [call EXCEPT ![c] = [left EXCEPT !.finalized = @ \/ call[c].active]]
                  /\ UNCHANGED traces
          /\ Fails(c, failure)
     /\ UNCHANGED client

WrapperNext ==
  \/ Initialize \/ Shutdown
  \/ \E c \in Calls :
       \/ CallBegins(c) \/ CallFails(c) \/ CallAnswers(c)
       \/ ReadsOn(c) \/ EventArrives(c) \/ ReadingEnds(c) \/ ReaderDropped(c)
       \/ CloseBegins(c) \/ CloseEnds(c)
       \/ EntersStream(c) \/ LeavesStream(c) \/ StreamLeft(c) \/ LeavesManager(c) \/ ManagerLeft(c)

---------------------------------------------------------------------------
\* Properties.

\* Nothing more will finalize the stream.
IsOver(c) ==
  \/ call[c].scope = "left" \/ call[c].closer = "done"
  \/ call[c].reader = "ended" /\ ~call[c].managed

\* "finalize this trace exactly once" (close and aclose of instrumentors/openai.py): a
\* call has one trace at most, which tells of a failure if and only if there was one by
\* then, in the cleanup of a manager too.  As long as the client is not shut down a call
\* that is over has been finalized, and a failure captured, whoever ended it.
CallsAreTraced ==
  \A c \in Calls :
    /\ Len(traces[c]) <= 1
    /\ \A i \in DOMAIN traces[c] : traces[c][i] = failed[c]
    /\ IsOver(c) /\ ~Disabled(c) => call[c].finalized /\ (failed[c] => traces[c] # <<>>)

===============================================================================
