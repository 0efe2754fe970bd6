---------------------------- MODULE DeferredWrites ----------------------------
(***************************************************************************)
(* What a write buffer in front of a storage promises.  Writes stand in    *)
(* line and are applied once each, in the order in which they were         *)
(* accepted, with one exception: a write that finds the line full is       *)
(* applied ahead of it by the one who brought it, and until then nothing   *)
(* joins the line.  A mark is reached when every write before it is        *)
(* applied, a synchronous write is applied when nothing stands in line,    *)
(* and the storage is closed when nothing is left to apply.                *)
(***************************************************************************)
EXTENDS Naturals, Sequences, SequencesExt

CONSTANTS
  Writes,   \* each is brought once
  Mark,     \* stands in line and is no write
  Capacity  \* a line as long as this is full

VARIABLES
  line,       \* writes and marks that are accepted and not yet reached
  turnedAway, \* the write that found the line full and is on its way
  done,       \* the writes the storage has been called with, in order
  closed      \* has the storage been closed?

vars == <<line, turnedAway, done, closed>>

Init == line = <<>> /\ turnedAway = {} /\ done = <<>> /\ closed = FALSE

Fresh(w) == w \notin ToSet(line) \cup turnedAway \cup ToSet(done)

Accept(w) ==
  /\ Fresh(w) /\ turnedAway = {}
  /\ line' = Append(line, w)
  /\ UNCHANGED <<turnedAway, done, closed>>

SetMark ==
  /\ turnedAway = {}
  /\ line' = Append(line, Mark)
  /\ UNCHANGED <<turnedAway, done, closed>>

Apply ==
  /\ line # <<>> /\ Head(line) # Mark
  /\ line' = Tail(line)
  /\ done' = Append(done, Head(line))
  /\ UNCHANGED <<turnedAway, closed>>

Reach ==
  /\ line # <<>> /\ Head(line) = Mark
  /\ line' = Tail(line)
  /\ UNCHANGED <<turnedAway, done, closed>>

TurnAway(w) ==
  /\ Fresh(w) /\ turnedAway = {}
  /\ Len(line) >= Capacity
  /\ turnedAway' = {w}
  /\ UNCHANGED <<line, done, closed>>

Overtake(w) ==
  /\ turnedAway = {w}
  /\ turnedAway' = {}
  /\ done' = Append(done, w)
  /\ UNCHANGED <<line, closed>>

WriteThrough(w) ==
  /\ Fresh(w) /\ turnedAway = {}
  /\ line = <<>>
  /\ done' = Append(done, w)
  /\ UNCHANGED <<line, turnedAway, closed>>

Close ==
  /\ line = <<>> /\ turnedAway = {}
  /\ closed' = TRUE
  /\ UNCHANGED <<line, turnedAway, done>>

Next ==
  /\ ~closed
  /\ \/ \E w \in Writes : Accept(w) \/ TurnAway(w) \/ Overtake(w) \/ WriteThrough(w)
     \/ SetMark \/ Apply \/ Reach \/ Close

Spec == Init /\ [][Next]_vars

===============================================================================
