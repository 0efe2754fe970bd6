----------------------------- MODULE BufferProofs -----------------------------
(***************************************************************************)
(* Safety of the asynchronous buffer, for any number of threads, writes    *)
(* and bounds: who is inside the inner storage, what a read finds applied, *)
(* and that the buffer implements a storage that defers its writes.        *)
(***************************************************************************)
EXTENDS BufferedStorage, FiniteSetTheorems, SequenceTheorems, TLAPS

---------------------------------------------------------------------------
\* Sequences of writes and markers.

\* Who stands in line.
Spots == Writes \cup {None}

LEMMA SpotsClosed ==
  /\ <<>> \in Seq(Spots)
  /\ \A x \in Spots : <<x>> \in Seq(Spots)
  /\ \A u, v \in Seq(Spots) : u \o v \in Seq(Spots)
<1>1. ASSUME NEW S, NEW x \in S PROVE <<x>> \in Seq(S)
  OBVIOUS
<1>2. ASSUME NEW S, NEW u \in Seq(S), NEW v \in Seq(S) PROVE u \o v \in Seq(S)
  BY ConcatProperties
<1>3. <<>> \in Seq(Spots)
  OBVIOUS
<1> QED
  BY <1>1, <1>2, <1>3

\* Appending to the second of two sequences, joining three, and taking from the first of two.
LEMMA ConcatAppend ==
  \A u, v \in Seq(Spots), x \in Spots : Append(u \o v, x) = u \o Append(v, x)
<1> SUFFICES ASSUME NEW u \in Seq(Spots), NEW v \in Seq(Spots), NEW x \in Spots
             PROVE  Append(u \o v, x) = u \o Append(v, x)
  OBVIOUS
<1> DEFINE S == Spots
<1>1. u \o v \in Seq(S) /\ <<x>> \in Seq(S)
  OBVIOUS
<1>2. Append(u \o v, x) = (u \o v) \o <<x>> /\ Append(v, x) = v \o <<x>>
  BY <1>1, AppendIsConcat
<1>3. (u \o v) \o <<x>> = u \o (v \o <<x>>)
  BY <1>1, ConcatAssociative
<1> QED
  BY <1>2, <1>3

LEMMA ConcatThree == \A u, v, t \in Seq(Spots) : (u \o v) \o t = u \o (v \o t)
BY ConcatAssociative

LEMMA ConcatTail ==
  \A u, v \in Seq(Spots) :
    u # <<>> => u \o v # <<>> /\ Head(u \o v) = Head(u) /\ Tail(u \o v) = Tail(u) \o v
<1> SUFFICES ASSUME NEW u \in Seq(Spots), NEW v \in Seq(Spots), u # <<>>
             PROVE  u \o v # <<>> /\ Head(u \o v) = Head(u) /\ Tail(u \o v) = Tail(u) \o v
  OBVIOUS
<1>1. PICK p : p = u \o v
  OBVIOUS
<1>2. /\ p \in Seq(Spots) /\ Len(p) = Len(u) + Len(v) /\ Len(u) \in Nat \ {0} /\ Len(v) \in Nat
      /\ \A i \in 1..Len(p) : p[i] = IF i <= Len(u) THEN u[i] ELSE v[i - Len(u)]
  BY <1>1, ConcatProperties
<1>3. PICK t : t = Tail(u)
  OBVIOUS
<1>4. /\ t \in Seq(Spots) /\ Len(t) = Len(u) - 1
      /\ \A i \in 1..Len(t) : t[i] = u[i + 1]
  BY <1>3
<1>5. PICK q : q = t \o v
  OBVIOUS
<1>6. /\ q \in Seq(Spots) /\ Len(q) = Len(t) + Len(v)
      /\ \A i \in 1..Len(q) : q[i] = IF i <= Len(t) THEN t[i] ELSE v[i - Len(t)]
  <2>1. /\ t \o v \in Seq(Spots) /\ Len(t \o v) = Len(t) + Len(v)
        /\ \A i \in 1..Len(t) + Len(v) : (t \o v)[i] = IF i <= Len(t) THEN t[i] ELSE v[i - Len(t)]
    BY <1>4, ConcatProperties
  <2> QED
    BY <1>5, <2>1
<1>7. PICK w : w = Tail(p)
  OBVIOUS
<1>8. /\ p # <<>> /\ Head(p) = p[1] /\ Head(u) = u[1]
      /\ w \in Seq(Spots) /\ Len(w) = Len(p) - 1 /\ \A i \in 1..Len(w) : w[i] = p[i + 1]
  <2>1. p # <<>>
    BY <1>2
  <2>2. p \in Seq(Spots) /\ Head(u) = u[1]
    BY <1>2
  <2> QED
    BY <1>7, <2>1, <2>2
<1>9. \A i \in 1..Len(w) : w[i] = q[i]
  <2> SUFFICES ASSUME NEW i \in 1..Len(w) PROVE w[i] = q[i]
    OBVIOUS
  <2>1. i + 1 \in 1..Len(p) /\ i \in 1..Len(q) /\ (i + 1) - Len(u) = i - Len(t)
    BY <1>2, <1>4, <1>6, <1>8
  <2>2. CASE i <= Len(t)
    <3>1. i \in 1..Len(t) /\ i + 1 <= Len(u)
      BY <1>2, <1>4, <2>2
    <3>2. w[i] = u[i + 1]
      BY <1>2, <1>8, <2>1, <3>1
    <3>3. q[i] = t[i]
      BY <1>6, <2>1, <2>2
    <3> QED
      BY <1>4, <3>1, <3>2, <3>3
  <2>3. CASE ~(i <= Len(t))
    <3>1. ~(i + 1 <= Len(u))
      BY <1>2, <1>4, <1>8, <2>3
    <3>2. w[i] = v[(i + 1) - Len(u)]
      BY <1>2, <1>8, <2>1, <3>1
    <3>3. q[i] = v[i - Len(t)]
      BY <1>6, <2>1, <2>3
    <3> QED
      BY <2>1, <3>2, <3>3
  <2> QED
    BY <2>2, <2>3
<1>10. w = q
  BY <1>2, <1>4, <1>6, <1>8, <1>9, SeqEqual
<1> QED
  BY <1>1, <1>2, <1>3, <1>5, <1>7, <1>8, <1>10

LEMMA ConcatOne ==
  \A x \in Spots, v \in Seq(Spots) :
    <<x>> \o v # <<>> /\ Head(<<x>> \o v) = x /\ Tail(<<x>> \o v) = v
<1> SUFFICES ASSUME NEW x \in Spots, NEW v \in Seq(Spots)
             PROVE  <<x>> \o v # <<>> /\ Head(<<x>> \o v) = x /\ Tail(<<x>> \o v) = v
  OBVIOUS
<1>1. PICK u \in Seq(Spots) : u = <<x>>
  BY SpotsClosed
<1>2. u # <<>> /\ Head(u) = x /\ Tail(u) = <<>>
  BY <1>1
<1>3. <<>> \o v = v
  OBVIOUS
<1> QED
  BY <1>1, <1>2, <1>3, ConcatTail

\* Who is in a sequence after one was appended, or the first taken.
LEMMA ToSetAppend ==
  ASSUME NEW S, NEW s \in Seq(S), NEW x \in S
  PROVE  ToSet(Append(s, x)) = ToSet(s) \cup {x}
<1>1. PICK t : t = Append(s, x)
  OBVIOUS
<1>2. /\ DOMAIN s = 1..Len(s) /\ DOMAIN t = 1..Len(s) + 1 /\ Len(s) \in Nat
      /\ t[Len(s) + 1] = x /\ \A i \in 1..Len(s) : t[i] = s[i]
  BY <1>1
<1>3. ToSet(t) \subseteq ToSet(s) \cup {x}
  BY <1>2 DEF ToSet
<1>4. ToSet(s) \subseteq ToSet(t)
  BY <1>2 DEF ToSet
<1>5. x \in ToSet(t)
  BY <1>2 DEF ToSet
<1> QED
  BY <1>1, <1>3, <1>4, <1>5

LEMMA ToSetTail ==
  ASSUME NEW S, NEW s \in Seq(S), s # <<>>
  PROVE  ToSet(Tail(s)) \subseteq ToSet(s) /\ Head(s) \in ToSet(s)
<1>1. PICK t : t = Tail(s)
  OBVIOUS
<1>2. /\ DOMAIN s = 1..Len(s) /\ DOMAIN t = 1..Len(s) - 1 /\ Len(s) \in Nat \ {0}
      /\ Head(s) = s[1] /\ \A i \in 1..Len(s) - 1 : t[i] = s[i + 1]
  BY <1>1
<1>3. ToSet(t) \subseteq ToSet(s)
  BY <1>2 DEF ToSet
<1>4. Head(s) \in ToSet(s)
  BY <1>2 DEF ToSet
<1> QED
  BY <1>1, <1>3, <1>4

\* The tags of a queue when an item is queued, taken, or exchanged for one like it.
LEMMA TagMeans ==
  ASSUME NEW item \in Items
  PROVE  /\ Tag(item) \in Spots
         /\ item.kind = "write" => Tag(item) = item.of /\ item.of \in Writes
         /\ item.kind # "write" => Tag(item) = None
BY DEF Tag, Spots, Items, Write, Barrier, Shutdown

LEMMA TaggedMeans ==
  ASSUME NEW q \in Seq(Items)
  PROVE  /\ Tagged(q) \in Seq(Spots) /\ Len(Tagged(q)) = Len(q) /\ Len(q) \in Nat
         /\ \A i \in 1..Len(q) : Tagged(q)[i] = Tag(q[i]) /\ q[i] \in Items
<1>1. DOMAIN q = 1..Len(q) /\ Len(q) \in Nat /\ \A i \in 1..Len(q) : q[i] \in Items
  OBVIOUS
<1>2. \A i \in 1..Len(q) : Tag(q[i]) \in Spots
  BY <1>1, TagMeans
<1>3. PICK t : t = Tagged(q)
  OBVIOUS
<1>4. t = [i \in 1..Len(q) |-> Tag(q[i])]
  BY <1>1, <1>3 DEF Tagged
<1>5. t \in [1..Len(q) -> Spots]
  BY <1>2, <1>4
<1>6. t \in Seq(Spots) /\ Len(t) = Len(q)
  BY <1>1, <1>5
<1> QED
  BY <1>1, <1>3, <1>4, <1>6

LEMMA TaggedEmpty == Tagged(<<>>) = <<>>
BY DEF Tagged

LEMMA TaggedAppend ==
  ASSUME NEW q \in Seq(Items), NEW item \in Items
  PROVE  Tagged(Append(q, item)) = Append(Tagged(q), Tag(item))
<1>1. PICK p : p = Append(q, item)
  OBVIOUS
<1>2. p \in Seq(Items) /\ Len(p) = Len(q) + 1 /\ Len(q) \in Nat /\ p[Len(q) + 1] = item
      /\ \A i \in 1..Len(q) : p[i] = q[i]
  BY <1>1
<1>3. PICK s : s = Tagged(p)
  OBVIOUS
<1>4. s \in Seq(Spots) /\ Len(s) = Len(q) + 1 /\ \A i \in 1..Len(q) + 1 : s[i] = Tag(p[i])
  BY <1>2, <1>3, TaggedMeans
<1>5. PICK r : r = Tagged(q)
  OBVIOUS
<1>6. r \in Seq(Spots) /\ Len(r) = Len(q) /\ \A i \in 1..Len(q) : r[i] = Tag(q[i])
  BY <1>5, TaggedMeans
<1>7. PICK x \in Spots : x = Tag(item)
  BY TagMeans
<1>8. PICK t : t = Append(r, x)
  OBVIOUS
<1>9. t \in Seq(Spots) /\ Len(t) = Len(q) + 1 /\ t[Len(q) + 1] = x
      /\ \A i \in 1..Len(q) : t[i] = r[i]
  BY <1>6, <1>8
<1>10. \A i \in 1..Len(s) : s[i] = t[i]
  <2> SUFFICES ASSUME NEW i \in 1..Len(s) PROVE s[i] = t[i]
    OBVIOUS
  <2>1. i \in 1..Len(q) \/ i = Len(q) + 1
    BY <1>2, <1>4
  <2> QED
    BY <1>2, <1>4, <1>6, <1>7, <1>9, <2>1
<1>11. s = t
  BY <1>4, <1>9, <1>10, SeqEqual
<1> QED
  BY <1>1, <1>3, <1>5, <1>7, <1>8, <1>11

LEMMA TaggedTail ==
  ASSUME NEW q \in Seq(Items), q # <<>>
  PROVE  /\ Tagged(q) # <<>> /\ Head(Tagged(q)) = Tag(Head(q))
         /\ Tail(Tagged(q)) = Tagged(Tail(q)) /\ Tail(q) \in Seq(Items)
         /\ Tagged(q) = <<Tag(Head(q))>> \o Tagged(Tail(q))
<1>1. PICK p : p = Tail(q)
  OBVIOUS
<1>2. p \in Seq(Items) /\ Len(p) = Len(q) - 1 /\ Len(q) \in Nat \ {0} /\ q[1] = Head(q)
      /\ \A i \in 1..Len(p) : p[i] = q[i + 1]
  BY <1>1
<1>3. PICK r : r = Tagged(p)
  OBVIOUS
<1>4. r \in Seq(Spots) /\ Len(r) = Len(p) /\ \A i \in 1..Len(p) : r[i] = Tag(p[i])
  BY <1>2, <1>3, TaggedMeans
<1>5. PICK s : s = Tagged(q)
  OBVIOUS
<1>6. s \in Seq(Spots) /\ Len(s) = Len(q) /\ \A i \in 1..Len(q) : s[i] = Tag(q[i])
  BY <1>5, TaggedMeans
<1>7. s # <<>> /\ Head(s) = s[1]
  BY <1>2, <1>6
<1>8. PICK t : t = Tail(s)
  OBVIOUS
<1>9. t \in Seq(Spots) /\ Len(t) = Len(s) - 1 /\ \A i \in 1..Len(t) : t[i] = s[i + 1]
  BY <1>6, <1>7, <1>8
<1>10. \A i \in 1..Len(t) : t[i] = r[i]
  BY <1>2, <1>4, <1>6, <1>9
<1>11. t = r
  BY <1>2, <1>4, <1>6, <1>9, <1>10, SeqEqual
<1>12. PICK x \in Spots : x = Tag(Head(q)) /\ x = Head(s)
  BY <1>2, <1>6, <1>7, TagMeans
<1>13. s = <<x>> \o r
  <2>1. PICK w \in Seq(Spots) : w = <<x>> \o r
    BY <1>4, <1>12, SpotsClosed
  <2>2. w # <<>> /\ Head(w) = x /\ Tail(w) = r
    BY <1>4, <2>1, ConcatOne
  <2>3. Len(w) = Len(s) /\ Len(s) \in Nat \ {0}
    <3>1. PICK u \in Seq(Spots) : u = <<x>>
      BY SpotsClosed
    <3>2. Len(u) = 1
      BY <3>1
    <3>3. Len(u \o r) = Len(u) + Len(r)
      BY <1>4, ConcatProperties
    <3>4. Len(w) = 1 + Len(r)
      BY <2>1, <3>1, <3>2, <3>3
    <3> QED
      BY <1>2, <1>4, <1>6, <3>4
  <2>4. \A i \in 1..Len(w) : w[i] = s[i]
    <3> SUFFICES ASSUME NEW i \in 1..Len(w) PROVE w[i] = s[i]
      OBVIOUS
    <3>1. CASE i = 1
      BY <1>7, <1>12, <2>2, <3>1
    <3>2. CASE i # 1
      <4>1. i - 1 \in 1..Len(w) - 1 /\ (i - 1) + 1 = i
        BY <2>3, <3>2
      <4>2. Tail(w)[i - 1] = w[i]
        BY <2>2, <4>1
      <4>3. t[i - 1] = s[i]
        BY <1>9, <2>3, <4>1
      <4> QED
        BY <1>11, <2>2, <4>2, <4>3
    <3> QED
      BY <3>1, <3>2
  <2> QED
    BY <1>6, <2>1, <2>3, <2>4, SeqEqual
<1> QED
  BY <1>1, <1>2, <1>3, <1>5, <1>7, <1>8, <1>11, <1>12, <1>13

LEMMA TaggedAlike ==
  ASSUME NEW p \in Seq(Items), NEW q \in Seq(Items), Len(p) = Len(q),
         \A i \in 1..Len(p) : Tag(p[i]) = Tag(q[i])
  PROVE  Tagged(p) = Tagged(q)
<1>1. PICK s : s = Tagged(p)
  OBVIOUS
<1>2. PICK t : t = Tagged(q)
  OBVIOUS
<1>3. s \in Seq(Spots) /\ Len(s) = Len(p) /\ \A i \in 1..Len(p) : s[i] = Tag(p[i])
  BY <1>1, TaggedMeans
<1>4. t \in Seq(Spots) /\ Len(t) = Len(q) /\ \A i \in 1..Len(q) : t[i] = Tag(q[i])
  BY <1>2, TaggedMeans
<1>5. \A i \in 1..Len(s) : s[i] = t[i]
  BY <1>3, <1>4
<1> QED
  BY <1>1, <1>2, <1>3, <1>4, <1>5, SeqEqual

---------------------------------------------------------------------------
\* The inductive invariant.

\* Thread c holds the lifecycle lock while it is in an operation that takes it, ...
Holds(c) == caller[c].op # "guard" /\ caller[c].pc \notin {"idle", "lock"}

\* What a call may be at each point, and that being inside and holding the lock is known of
\* it from outside.
CallerIsSound(c) ==
  /\ caller[c].pc = "idle" => caller[c].op = "flush"
  /\ caller[c].op = "guard" => caller[c].pc \in {"inside", "return"}
  /\ caller[c].pc = "put" => caller[c].op = "write"
  /\ caller[c].pc \in {"barrier", "wait"} => caller[c].op \in {"read", "maintain", "flush", "close"}
  /\ caller[c].pc = "enter" => caller[c].op \in {"write", "exists", "read", "maintain"}
  /\ caller[c].pc = "inside" => caller[c].op # "flush"
  /\ caller[c].pc \in {"sentinel", "join"} => caller[c].op = "close"
  /\ IF caller[c].op \in {"write", "maintain"} THEN caller[c].w \in Writes ELSE caller[c].w = None
  /\ c \in inside <=> caller[c].pc = "inside"
  /\ lifecycle = c <=> Holds(c)
  /\ Holds(c) => (closed <=> caller[c].op = "close")

\* ... and behind its barrier nothing is queued: when it goes on, nothing waits.
BarrierIsLast ==
  /\ \A i \in DOMAIN queue : \A c \in Callers :
       queue[i] = Barrier(c) => i = Len(queue) /\ caller[c].pc = "wait"
  /\ worker.mark # None =>
       /\ worker.mark.kind = "barrier"
       /\ \A c \in Callers : worker.mark = Barrier(c) => queue = <<>> /\ caller[c].pc = "wait"
  /\ \A c \in Callers :
       (/\ caller[c].pc \in {"enter", "inside", "return", "sentinel"}
        /\ caller[c].op \in {"read", "maintain", "close"})
       => queue = <<>> /\ worker.batch = <<>> /\ worker.mark = None

\* The shutdown marker is the last thing queued, and the worker ends with it.
Marked == \E i \in DOMAIN queue : queue[i] = Shutdown
Ending == closed /\ (lifecycle = None \/ caller[lifecycle].pc \in {"join", "inside", "return"})

\* The worker enters the inner storage to apply a batch, and only beside guards.
WorkerIsSound ==
  /\ Worker \in inside =>
       /\ worker.pc = "apply" /\ worker.batch # <<>>
       /\ \A c \in Callers \cap inside : caller[c].op = "guard"
  /\ worker.pc \in {"drain", "gone"} => worker.last /\ worker.batch = <<>> /\ worker.mark = None
  /\ worker.pc = "gone" => queue = <<>>

\* Once a close has queued the marker, nothing is left but the marker, and the close goes on
\* only when the worker is gone.
EndIsSound ==
  /\ worker.last \/ Marked => Ending
  /\ Ending => worker.batch = <<>> /\ queue \in {<<>>, <<Shutdown>>}
  /\ closed /\ lifecycle = None => worker.pc = "gone"
  /\ \A c \in Callers :
       caller[c].op = "close" /\ caller[c].pc \in {"inside", "return"} => worker.pc = "gone"

\* Reads and close rely on BarrierIsLast, which needs the lifecycle lock (CallerIsSound): no
\* write is queued behind a barrier because its thread would have to hold the lock.
BufferInv ==
  /\ TypeOK
  /\ \A c \in Callers : CallerIsSound(c)
  /\ BarrierIsLast
  /\ WorkerIsSound
  /\ EndIsSound

---------------------------------------------------------------------------
\* Steps of a caller.

\* The call of thread c is at pc, and nothing else of any call has changed.
Gone(c, pc) ==
  /\ caller' \in [Callers -> CallerStates]
  /\ caller'[c].pc = pc /\ caller'[c].op = caller[c].op /\ caller'[c].w = caller[c].w
  /\ \A d \in Callers \ {c} : caller'[d] = caller[d]

LEMMA GoesMeans ==
  ASSUME TypeOK, NEW c \in Callers, NEW pc,
         pc \in {"put", "barrier", "wait", "enter", "inside", "sentinel", "join", "return"},
         Goes(c, pc)
  PROVE  Gone(c, pc)
<1>1. caller \in [Callers -> CallerStates] /\ caller[c] \in CallerStates
  BY DEF TypeOK
<1>2. PICK h : h = [caller[c] EXCEPT !.pc = pc]
  OBVIOUS
<1>3. h \in CallerStates /\ h.pc = pc /\ h.op = caller[c].op /\ h.w = caller[c].w
  BY <1>1, <1>2 DEF CallerStates
<1>4. caller' = [caller EXCEPT ![c] = h]
  BY <1>2 DEF Goes
<1> QED
  BY <1>1, <1>3, <1>4 DEF Gone

\* The call of thread c returns, and its lock is free.
LEMMA ReturnsMeans ==
  ASSUME TypeOK, NEW c \in Callers, Returns(c)
  PROVE  /\ caller' \in [Callers -> CallerStates]
         /\ caller'[c].pc = "idle" /\ caller'[c].op = "flush" /\ caller'[c].w = None
         /\ \A d \in Callers \ {c} : caller'[d] = caller[d]
         /\ lifecycle' = IF lifecycle = c THEN None ELSE lifecycle
<1>1. caller \in [Callers -> CallerStates] /\ caller[c] \in CallerStates
  BY DEF TypeOK
<1>2. PICK h : h = [caller[c] EXCEPT !.pc = "idle", !.op = "flush", !.w = None]
  OBVIOUS
<1>3. h \in CallerStates /\ h.pc = "idle" /\ h.op = "flush" /\ h.w = None
  BY <1>1, <1>2 DEF CallerStates, Ops
<1>4. caller' = [caller EXCEPT ![c] = h]
  BY <1>2 DEF Returns
<1> QED
  BY ZenonT(40), <1>1, <1>3, <1>4 DEF Returns

LEMMA BeginInv ==
  ASSUME BufferInv, NEW c \in Callers, NEW op \in Ops, NEW w \in Writes \cup {None}, Begin(c, op, w)
  PROVE  BufferInv'
<1>1. TypeOK /\ (\A d \in Callers : CallerIsSound(d)) /\ BarrierIsLast /\ WorkerIsSound /\ EndIsSound
  BY DEF BufferInv
<1>2. caller \in [Callers -> CallerStates] /\ caller[c] \in CallerStates /\ caller[c].calls \in Nat
  BY <1>1, BufferAssumption DEF TypeOK, CallerStates
<1>3. PICK pc : pc = IF op = "guard" THEN "inside" ELSE "lock"
  OBVIOUS
<1>4. PICK n : n = caller[c].calls + 1
  OBVIOUS
<1>5. PICK h : h = [pc |-> pc, op |-> op, w |-> w, calls |-> n]
  OBVIOUS
<1>6. h \in CallerStates /\ h.pc = pc /\ h.op = op /\ h.w = w
  BY <1>2, <1>3, <1>4, <1>5, BufferAssumption DEF CallerStates, Begin
<1>7. caller' = [caller EXCEPT ![c] = h]
  BY <1>3, <1>4, <1>5 DEF Begin
<1>8. /\ caller' \in [Callers -> CallerStates] /\ caller'[c] = h
      /\ \A d \in Callers \ {c} : caller'[d] = caller[d]
  BY <1>2, <1>6, <1>7
<1>9. /\ caller[c].pc = "idle"
      /\ IF op \in {"write", "maintain"} THEN w \in Writes ELSE w = None
      /\ inside' = IF op = "guard" THEN inside \cup {c} ELSE inside
      /\ UNCHANGED <<queue, worker, lifecycle, closed, done>>
  BY DEF Begin
<1>10. TypeOK'
  BY <1>1, <1>8, <1>9 DEF TypeOK
<1>11. ASSUME NEW d \in Callers PROVE CallerIsSound(d)'
  BY <1>1, <1>3, <1>6, <1>8, <1>9, BufferAssumption DEF CallerIsSound, Holds
<1>12. BarrierIsLast'
  BY <1>1, <1>3, <1>6, <1>8, <1>9 DEF BarrierIsLast
<1>13. (Ending' <=> Ending) /\ (Marked' <=> Marked)
  BY <1>1, <1>8, <1>9, BufferAssumption DEF Ending, Marked, CallerIsSound, Holds, TypeOK
<1>14. WorkerIsSound'
  BY <1>1, <1>3, <1>6, <1>8, <1>9, BufferAssumption DEF WorkerIsSound, CallerIsSound
<1>15. EndIsSound'
  BY <1>1, <1>3, <1>6, <1>8, <1>9, <1>13 DEF EndIsSound
<1> QED
  BY <1>10, <1>11, <1>12, <1>14, <1>15 DEF BufferInv

LEMMA LockInv == ASSUME BufferInv, NEW c \in Callers, Lock(c) PROVE BufferInv'
<1>1. TypeOK /\ (\A d \in Callers : CallerIsSound(d)) /\ BarrierIsLast /\ WorkerIsSound /\ EndIsSound
  BY DEF BufferInv
<1>2. CASE closed
  <2>1. Returns(c) /\ UNCHANGED <<closed, queue, worker, inside, done>>
        /\ caller[c].pc = "lock" /\ lifecycle = None
    BY <1>2 DEF Lock
  <2>2. /\ caller' \in [Callers -> CallerStates]
        /\ caller'[c].pc = "idle" /\ caller'[c].op = "flush" /\ caller'[c].w = None
        /\ \A d \in Callers \ {c} : caller'[d] = caller[d]
        /\ lifecycle' = None
    BY <1>1, <2>1, ReturnsMeans
  <2>3. TypeOK'
    BY <1>1, <2>1, <2>2 DEF TypeOK
  <2>4. ASSUME NEW d \in Callers PROVE CallerIsSound(d)'
    BY <1>1, <2>1, <2>2, BufferAssumption DEF CallerIsSound, Holds
  <2>5. BarrierIsLast'
    BY <1>1, <2>1, <2>2 DEF BarrierIsLast
  <2>6. (Ending' <=> Ending) /\ (Marked' <=> Marked)
    BY <2>1, <2>2 DEF Ending, Marked
  <2>7. WorkerIsSound'
    BY <1>1, <2>1, <2>2 DEF WorkerIsSound, CallerIsSound
  <2>8. EndIsSound'
    BY <1>1, <2>1, <2>2, <2>6 DEF EndIsSound
  <2> QED
    BY <2>3, <2>4, <2>5, <2>7, <2>8 DEF BufferInv
<1>3. CASE ~closed
  <2>1. PICK pc : pc = CASE caller[c].op = "write"  -> "put"
                         [] caller[c].op = "exists" -> "enter"
                         [] OTHER                   -> "barrier"
    OBVIOUS
  <2>2. /\ caller[c].op = "write" => pc = "put"
        /\ caller[c].op = "exists" => pc = "enter"
        /\ caller[c].op \notin {"write", "exists"} => pc = "barrier"
    BY <2>1
  <2>3. Goes(c, pc) /\ lifecycle' = c /\ closed' = (caller[c].op = "close")
        /\ UNCHANGED <<queue, worker, inside, done>> /\ caller[c].pc = "lock" /\ lifecycle = None
    BY <1>3, <2>1 DEF Lock
  <2>4. Gone(c, pc)
    BY <1>1, <2>2, <2>3, GoesMeans
  <2>5. TypeOK'
    BY <1>1, <2>3, <2>4 DEF TypeOK, Gone
  <2>6. ASSUME NEW d \in Callers PROVE CallerIsSound(d)'
    <3>1. CASE d = c
      BY <1>1, <2>2, <2>3, <2>4, <3>1, BufferAssumption DEF CallerIsSound, Holds, Gone, TypeOK, CallerStates, Ops
    <3>2. CASE d # c
      BY <1>1, <1>3, <2>3, <2>4, <3>2, BufferAssumption DEF CallerIsSound, Holds, Gone
    <3> QED
      BY <3>1, <3>2
  <2>7. BarrierIsLast'
    BY <1>1, <2>2, <2>3, <2>4 DEF BarrierIsLast, Gone
  <2>8. ~Ending /\ ~Ending' /\ (Marked' <=> Marked)
    BY <1>3, <2>2, <2>3, <2>4, BufferAssumption DEF Ending, Marked, Gone
  <2>9. WorkerIsSound'
    BY <1>1, <2>2, <2>3, <2>4, BufferAssumption DEF WorkerIsSound, Gone
  <2>10. EndIsSound'
    BY <1>1, <2>2, <2>3, <2>4, <2>8, BufferAssumption DEF EndIsSound, Gone
  <2> QED
    BY <2>5, <2>6, <2>7, <2>9, <2>10 DEF BufferInv
<1> QED
  BY <1>2, <1>3

LEMMA PutInv == ASSUME BufferInv, NEW c \in Callers, Put(c) PROVE BufferInv'
<1>1. TypeOK /\ (\A d \in Callers : CallerIsSound(d)) /\ BarrierIsLast /\ WorkerIsSound /\ EndIsSound
  BY DEF BufferInv
<1>2. /\ caller[c].pc = "put" /\ caller[c].op = "write" /\ caller[c].w \in Writes
      /\ lifecycle = c /\ ~closed
  BY <1>1 DEF Put, CallerIsSound, Holds
<1>3. CASE Full
  <2>1. Goes(c, "enter") /\ UNCHANGED <<queue, lifecycle, worker, inside, closed, done>>
    BY <1>3 DEF Put
  <2>2. Gone(c, "enter")
    BY <1>1, <2>1, GoesMeans
  <2>3. TypeOK'
    BY <1>1, <2>1, <2>2 DEF TypeOK, Gone
  <2>4. ASSUME NEW d \in Callers PROVE CallerIsSound(d)'
    BY <1>1, <1>2, <2>1, <2>2, BufferAssumption DEF CallerIsSound, Holds, Gone
  <2>5. BarrierIsLast'
    BY <1>1, <1>2, <2>1, <2>2 DEF BarrierIsLast, Gone
  <2>6. ~Ending /\ ~Ending' /\ (Marked' <=> Marked)
    BY <1>2, <2>1 DEF Ending, Marked
  <2>7. WorkerIsSound'
    BY <1>1, <1>2, <2>1, <2>2 DEF WorkerIsSound, CallerIsSound, Gone
  <2>8. EndIsSound'
    <3>1. ~worker.last /\ ~Marked
      BY <1>1, <2>6 DEF EndIsSound
    <3> QED
      BY <1>1, <1>2, <2>1, <2>2, <2>6, <3>1 DEF EndIsSound, CallerIsSound, Holds, Gone
  <2> QED
    BY <2>3, <2>4, <2>5, <2>7, <2>8 DEF BufferInv
<1>4. CASE ~Full
  <2>1. PICK item : item = Write(caller[c].w)
    OBVIOUS
  <2>2. item \in Items /\ item.kind = "write"
    BY <1>2, <2>1 DEF Items, Write
  <2>3. Returns(c) /\ queue' = Append(queue, item) /\ UNCHANGED <<worker, inside, closed, done>>
    BY <1>4, <2>1 DEF Put
  <2>4. /\ caller' \in [Callers -> CallerStates]
        /\ caller'[c].pc = "idle" /\ caller'[c].op = "flush" /\ caller'[c].w = None
        /\ \A d \in Callers \ {c} : caller'[d] = caller[d]
        /\ lifecycle' = None
    BY <1>1, <1>2, <2>3, ReturnsMeans
  <2>5. /\ queue \in Seq(Items) /\ queue' \in Seq(Items) /\ queue' # <<>>
        /\ Len(queue) \in Nat /\ Len(queue') = Len(queue) + 1 /\ Len(queue') <= MaxQueue
        /\ DOMAIN queue = 1..Len(queue) /\ DOMAIN queue' = 1..Len(queue) + 1
        /\ queue'[Len(queue) + 1] = item /\ \A i \in 1..Len(queue) : queue'[i] = queue[i]
    BY <1>1, <1>4, <2>2, <2>3, BufferAssumption DEF TypeOK, Full
  <2>6. TypeOK'
    BY <1>1, <2>3, <2>4, <2>5 DEF TypeOK
  <2>7. ASSUME NEW d \in Callers PROVE CallerIsSound(d)'
    BY <1>1, <1>2, <2>3, <2>4, BufferAssumption DEF CallerIsSound, Holds
  <2>8. ASSUME NEW d \in Callers PROVE caller[d].pc # "wait" /\ caller[d].pc # "enter" /\ caller[d].pc # "sentinel"
    BY <1>1, <1>2 DEF CallerIsSound, Holds
  <2>9. ASSUME NEW d \in Callers, caller[d].op \in {"read", "maintain", "close"}
        PROVE  caller[d].pc # "inside" /\ caller[d].pc # "return"
    BY <1>1, <1>2, <2>9 DEF CallerIsSound, Holds
  <2>10. BarrierIsLast'
    <3>1. ASSUME NEW i \in DOMAIN queue', NEW d \in Callers PROVE queue'[i] # Barrier(d)
      <4>1. item # Barrier(d)
        BY <2>2 DEF Barrier
      <4>2. \A k \in DOMAIN queue : queue[k] # Barrier(d)
        BY <1>1, <2>8 DEF BarrierIsLast
      <4> QED
        BY <2>5, <4>1, <4>2
    <3>2. ASSUME NEW d \in Callers PROVE worker.mark # Barrier(d) \/ worker.mark = None
      BY <1>1, <2>8 DEF BarrierIsLast
    <3> QED
      BY <1>1, <2>3, <2>4, <2>8, <2>9, <3>1, <3>2 DEF BarrierIsLast
  <2>11. ~Ending /\ ~Ending' /\ (Marked' <=> Marked)
    <3>1. item # Shutdown
      BY <2>2 DEF Shutdown
    <3> QED
      BY <1>2, <2>3, <2>5, <3>1 DEF Ending, Marked
  <2>12. worker.pc # "gone"
    BY <1>1, <2>11 DEF WorkerIsSound, EndIsSound
  <2>13. WorkerIsSound'
    BY <1>1, <1>2, <2>3, <2>4, <2>12 DEF WorkerIsSound, CallerIsSound
  <2>14. EndIsSound'
    <3>1. ~worker.last /\ ~Marked
      BY <1>1, <2>11 DEF EndIsSound
    <3> QED
      BY <1>2, <2>3, <2>4, <2>9, <2>11, <3>1 DEF EndIsSound
  <2> QED
    BY <2>6, <2>7, <2>10, <2>13, <2>14 DEF BufferInv
<1> QED
  BY <1>3, <1>4

LEMMA PutBarrierInv == ASSUME BufferInv, NEW c \in Callers, PutBarrier(c) PROVE BufferInv'
<1>1. TypeOK /\ (\A d \in Callers : CallerIsSound(d)) /\ BarrierIsLast /\ WorkerIsSound /\ EndIsSound
  BY DEF BufferInv
<1>2. caller[c].pc = "barrier" /\ lifecycle = c /\ ~Full
  BY <1>1 DEF PutBarrier, CallerIsSound, Holds
<1>3. PICK item : item = Barrier(c)
  OBVIOUS
<1>4. item \in Items /\ item.kind = "barrier" /\ \A d \in Callers : item = Barrier(d) => d = c
  BY <1>3 DEF Items, Barrier
<1>5. Goes(c, "wait") /\ queue' = Append(queue, item)
      /\ UNCHANGED <<worker, lifecycle, inside, closed, done>>
  BY <1>3 DEF PutBarrier
<1>6. Gone(c, "wait")
  BY <1>1, <1>5, GoesMeans
<1>7. /\ queue \in Seq(Items) /\ queue' \in Seq(Items) /\ queue' # <<>>
      /\ Len(queue) \in Nat /\ Len(queue') = Len(queue) + 1 /\ Len(queue') <= MaxQueue
      /\ DOMAIN queue = 1..Len(queue) /\ DOMAIN queue' = 1..Len(queue) + 1
      /\ queue'[Len(queue) + 1] = item /\ \A i \in 1..Len(queue) : queue'[i] = queue[i]
  BY <1>1, <1>2, <1>4, <1>5, BufferAssumption DEF TypeOK, Full
<1>8. TypeOK'
  BY <1>1, <1>5, <1>6, <1>7 DEF TypeOK, Gone
<1>9. ASSUME NEW d \in Callers PROVE CallerIsSound(d)'
  BY <1>1, <1>2, <1>5, <1>6, BufferAssumption DEF CallerIsSound, Holds, Gone
<1>10. ASSUME NEW d \in Callers PROVE caller[d].pc # "wait" /\ caller[d].pc # "enter" /\ caller[d].pc # "sentinel"
  BY <1>1, <1>2 DEF CallerIsSound, Holds
<1>11. ASSUME NEW d \in Callers, caller[d].op \in {"read", "maintain", "close"}
      PROVE  caller[d].pc # "inside" /\ caller[d].pc # "return"
  BY <1>1, <1>2, <1>11 DEF CallerIsSound, Holds
<1>12. BarrierIsLast'
  <2>1. ASSUME NEW i \in DOMAIN queue', NEW d \in Callers, queue'[i] = Barrier(d)
        PROVE  i = Len(queue') /\ caller'[d].pc = "wait"
    <3>1. \A k \in DOMAIN queue : queue[k] # Barrier(d)
      BY <1>1, <1>10 DEF BarrierIsLast
    <3>2. i = Len(queue) + 1
      BY <1>7, <2>1, <3>1
    <3> QED
      BY <1>4, <1>6, <1>7, <2>1, <3>2 DEF Gone
  <2>2. ASSUME NEW d \in Callers PROVE worker.mark # Barrier(d) \/ worker.mark = None
    BY <1>1, <1>10 DEF BarrierIsLast
  <2>3. ASSUME NEW d \in Callers, caller'[d].op \in {"read", "maintain", "close"}
        PROVE  caller'[d].pc \notin {"enter", "inside", "return", "sentinel"}
    BY <1>6, <1>10, <1>11, <2>3 DEF Gone
  <2> QED
    BY <1>1, <1>5, <2>1, <2>2, <2>3 DEF BarrierIsLast
<1>13. ~Ending /\ ~Ending' /\ (Marked' <=> Marked)
  <2>1. item # Shutdown
    BY <1>4 DEF Shutdown
  <2> QED
    BY <1>2, <1>5, <1>6, <1>7, <2>1, BufferAssumption DEF Ending, Marked, Gone
<1>14. worker.pc # "gone"
  BY <1>1, <1>13 DEF WorkerIsSound, EndIsSound
<1>15. WorkerIsSound'
  BY <1>1, <1>2, <1>5, <1>6, <1>14 DEF WorkerIsSound, CallerIsSound, Gone
<1>16. EndIsSound'
  <2>1. ~worker.last /\ ~Marked
    BY <1>1, <1>13 DEF EndIsSound
  <2> QED
    BY <1>1, <1>2, <1>5, <1>6, <1>11, <1>13, <2>1, BufferAssumption DEF EndIsSound, Gone
<1> QED
  BY <1>8, <1>9, <1>12, <1>15, <1>16 DEF BufferInv

LEMMA FlushTimeoutInv == ASSUME BufferInv, NEW c \in Callers, FlushTimeout(c) PROVE BufferInv'
<1>1. TypeOK /\ (\A d \in Callers : CallerIsSound(d)) /\ BarrierIsLast /\ WorkerIsSound /\ EndIsSound
  BY DEF BufferInv
<1>2. /\ caller[c].op = "flush" /\ caller[c].pc \in {"barrier", "wait"}
      /\ lifecycle = c /\ ~closed
  BY <1>1 DEF FlushTimeout, CallerIsSound, Holds
<1> DEFINE Forgotten(item) == IF item = Barrier(c) THEN Barrier(None) ELSE item
<1>3. /\ queue' = [i \in DOMAIN queue |-> Forgotten(queue[i])]
      /\ worker' = [worker EXCEPT !.mark = Forgotten(worker.mark)]
      /\ Returns(c) /\ UNCHANGED <<inside, closed, done>>
  BY DEF FlushTimeout
<1>4. /\ caller' \in [Callers -> CallerStates]
      /\ caller'[c].pc = "idle" /\ caller'[c].op = "flush" /\ caller'[c].w = None
      /\ \A d \in Callers \ {c} : caller'[d] = caller[d]
      /\ lifecycle' = None
  BY <1>1, <1>2, <1>3, ReturnsMeans
<1>5. Barrier(None) \in Items /\ \A d \in Callers : Barrier(None) # Barrier(d)
  BY BufferAssumption DEF Items, Barrier
<1>6. /\ queue \in Seq(Items) /\ Len(queue) \in Nat /\ DOMAIN queue = 1..Len(queue)
      /\ queue' \in Seq(Items) /\ Len(queue') = Len(queue) /\ DOMAIN queue' = 1..Len(queue)
      /\ \A i \in 1..Len(queue) : queue'[i] = Forgotten(queue[i])
      /\ queue = <<>> <=> queue' = <<>>
  <2>1. queue \in Seq(Items) /\ Len(queue) \in Nat /\ DOMAIN queue = 1..Len(queue)
        /\ \A i \in 1..Len(queue) : queue[i] \in Items
    BY <1>1 DEF TypeOK
  <2>2. \A i \in 1..Len(queue) : Forgotten(queue[i]) \in Items
    BY <1>5, <2>1
  <2>3. queue' = [i \in 1..Len(queue) |-> Forgotten(queue[i])]
    BY <1>3, <2>1
  <2>4. queue' \in [1..Len(queue) -> Items] /\ \A i \in 1..Len(queue) : queue'[i] = Forgotten(queue[i])
    <3> HIDE DEF Forgotten
    <3> QED
      BY <2>2, <2>3
  <2>5. queue' \in Seq(Items) /\ Len(queue') = Len(queue) /\ DOMAIN queue' = 1..Len(queue)
    <3> HIDE DEF Forgotten
    <3> QED
      BY <2>1, <2>4
  <2> HIDE DEF Forgotten
  <2> QED
    BY <2>1, <2>4, <2>5
<1>7. PICK mark : mark = Forgotten(worker.mark)
  OBVIOUS
<1>8. /\ worker' \in WorkerStates /\ worker'.mark = mark /\ worker'.pc = worker.pc
      /\ worker'.batch = worker.batch /\ worker'.last = worker.last
  <2>1. worker \in WorkerStates /\ mark \in Items \cup {None} /\ worker' = [worker EXCEPT !.mark = mark]
    BY <1>1, <1>3, <1>5, <1>7 DEF TypeOK, WorkerStates
  <2> QED
    BY <2>1 DEF WorkerStates
<1>9. TypeOK'
  BY <1>1, <1>3, <1>4, <1>6, <1>8 DEF TypeOK
<1>10. ASSUME NEW d \in Callers PROVE CallerIsSound(d)'
  BY <1>1, <1>2, <1>3, <1>4, BufferAssumption DEF CallerIsSound, Holds
<1>11. ASSUME NEW d \in Callers, d # c PROVE caller[d].pc \notin {"wait", "enter", "sentinel"}
  BY <1>1, <1>2, <1>11 DEF CallerIsSound, Holds
<1>12. ASSUME NEW d \in Callers, caller[d].op \in {"read", "maintain", "close"}
      PROVE  caller[d].pc # "inside" /\ caller[d].pc # "return"
  BY <1>1, <1>2, <1>12 DEF CallerIsSound, Holds
<1>13. BarrierIsLast'
  <2>1. ASSUME NEW i \in DOMAIN queue', NEW d \in Callers PROVE queue'[i] # Barrier(d)
    BY <1>1, <1>5, <1>6, <1>11 DEF BarrierIsLast
  <2>2. mark # None => mark.kind = "barrier" /\ \A d \in Callers : mark # Barrier(d)
    <3>1. CASE worker.mark = Barrier(c)
      BY <1>5, <1>7, <3>1 DEF Barrier
    <3>2. CASE worker.mark # Barrier(c)
      BY <1>1, <1>7, <1>11, <3>2 DEF BarrierIsLast
    <3> QED
      BY <3>1, <3>2
  <2>3. ASSUME NEW d \in Callers, caller'[d].op \in {"read", "maintain", "close"}
        PROVE  caller'[d].pc \notin {"enter", "inside", "return", "sentinel"}
    BY <1>4, <1>11, <1>12, <2>3
  <2> QED
    BY <1>8, <2>1, <2>2, <2>3 DEF BarrierIsLast
<1>14. ~Ending /\ ~Ending' /\ (Marked' <=> Marked)
  <2>1. \A d \in Callers \cup {None} : Barrier(d) # Shutdown
    BY DEF Barrier, Shutdown
  <2>2. Marked' <=> Marked
    BY <1>6, <2>1 DEF Marked
  <2>3. ~Ending /\ ~Ending'
    BY <1>2, <1>3 DEF Ending
  <2> QED
    BY <2>2, <2>3
<1>15. WorkerIsSound'
  <2>1. mark = None <=> worker.mark = None
    BY <1>5, <1>7, BufferAssumption DEF Items
  <2> QED
    BY <1>1, <1>2, <1>3, <1>4, <1>6, <1>8, <2>1 DEF WorkerIsSound, CallerIsSound
<1>16. EndIsSound'
  <2>1. ~worker.last /\ ~Marked
    BY <1>1, <1>14 DEF EndIsSound
  <2> QED
    BY <1>2, <1>3, <1>4, <1>8, <1>12, <1>14, <2>1 DEF EndIsSound
<1> QED
  BY <1>9, <1>10, <1>13, <1>15, <1>16 DEF BufferInv

LEMMA EnterInv == ASSUME BufferInv, NEW c \in Callers, Enter(c) PROVE BufferInv'
<1>1. TypeOK /\ (\A d \in Callers : CallerIsSound(d)) /\ BarrierIsLast /\ WorkerIsSound /\ EndIsSound
  BY DEF BufferInv
<1>2. /\ caller[c].pc = "enter" /\ caller[c].op # "guard" /\ caller[c].op # "flush"
      /\ caller[c].op # "close" /\ lifecycle = c /\ ~closed
  BY <1>1 DEF Enter, CallerIsSound, Holds
<1>3. Worker \notin inside
  BY BufferAssumption DEF Enter, Alone, Guards
<1>4. Goes(c, "inside") /\ inside' = inside \cup {c}
      /\ UNCHANGED <<queue, worker, lifecycle, closed, done>>
  BY DEF Enter
<1>5. Gone(c, "inside")
  BY <1>1, <1>4, GoesMeans
<1>6. TypeOK'
  BY <1>1, <1>4, <1>5 DEF TypeOK, Gone
<1>7. ASSUME NEW d \in Callers PROVE CallerIsSound(d)'
  BY <1>1, <1>2, <1>4, <1>5, BufferAssumption DEF CallerIsSound, Holds, Gone
<1>8. BarrierIsLast'
  BY <1>1, <1>2, <1>4, <1>5 DEF BarrierIsLast, Gone
<1>9. ~Ending /\ ~Ending' /\ (Marked' <=> Marked)
  BY <1>2, <1>4 DEF Ending, Marked
<1>10. WorkerIsSound'
  BY <1>1, <1>3, <1>4, BufferAssumption DEF WorkerIsSound
<1>11. EndIsSound'
  <2>1. ~worker.last /\ ~Marked
    BY <1>1, <1>9 DEF EndIsSound
  <2> QED
    BY <1>1, <1>2, <1>4, <1>5, <1>9, <2>1 DEF EndIsSound, Gone
<1> QED
  BY <1>6, <1>7, <1>8, <1>10, <1>11 DEF BufferInv

LEMMA LeaveInv == ASSUME BufferInv, NEW c \in Callers, Leave(c) PROVE BufferInv'
<1>1. TypeOK /\ (\A d \in Callers : CallerIsSound(d)) /\ BarrierIsLast /\ WorkerIsSound /\ EndIsSound
  BY DEF BufferInv
<1>2. caller[c].pc = "inside" /\ c \in inside
  BY <1>1 DEF Leave, CallerIsSound
<1>3. Goes(c, "return") /\ inside' = inside \ {c}
      /\ UNCHANGED <<queue, worker, lifecycle, closed>>
  BY DEF Leave
<1>4. Gone(c, "return")
  BY <1>1, <1>3, GoesMeans
<1>5. done' \in Seq(Writes)
  BY <1>1 DEF Leave, TypeOK, CallerStates
<1>6. TypeOK'
  BY <1>1, <1>3, <1>4, <1>5 DEF TypeOK, Gone
<1>7. ASSUME NEW d \in Callers PROVE CallerIsSound(d)'
  BY <1>1, <1>2, <1>3, <1>4, BufferAssumption DEF CallerIsSound, Holds, Gone
<1>8. BarrierIsLast'
  BY <1>1, <1>2, <1>3, <1>4 DEF BarrierIsLast, Gone
<1>9. (Ending' <=> Ending) /\ (Marked' <=> Marked)
  BY <1>1, <1>2, <1>3, <1>4, BufferAssumption DEF Ending, Marked, Gone, TypeOK
<1>10. WorkerIsSound'
  BY <1>1, <1>2, <1>3, <1>4, BufferAssumption DEF WorkerIsSound, Gone
<1>11. EndIsSound'
  BY <1>1, <1>2, <1>3, <1>4, <1>9 DEF EndIsSound, Gone
<1> QED
  BY <1>6, <1>7, <1>8, <1>10, <1>11 DEF BufferInv

LEMMA ReturnInv == ASSUME BufferInv, NEW c \in Callers, Return(c) PROVE BufferInv'
<1>1. TypeOK /\ (\A d \in Callers : CallerIsSound(d)) /\ BarrierIsLast /\ WorkerIsSound /\ EndIsSound
  BY DEF BufferInv
<1>2. caller[c].pc = "return" /\ c \notin inside
  BY <1>1 DEF Return, CallerIsSound
<1>3. Returns(c) /\ UNCHANGED <<queue, worker, inside, closed, done>>
  BY DEF Return
<1>4. /\ caller' \in [Callers -> CallerStates]
      /\ caller'[c].pc = "idle" /\ caller'[c].op = "flush" /\ caller'[c].w = None
      /\ \A d \in Callers \ {c} : caller'[d] = caller[d]
      /\ lifecycle' = IF lifecycle = c THEN None ELSE lifecycle
  BY <1>1, <1>3, ReturnsMeans
<1>5. TypeOK'
  BY <1>1, <1>3, <1>4 DEF TypeOK
<1>6. ASSUME NEW d \in Callers PROVE CallerIsSound(d)'
  BY <1>1, <1>2, <1>3, <1>4, BufferAssumption DEF CallerIsSound, Holds
<1>7. BarrierIsLast'
  BY <1>1, <1>2, <1>3, <1>4 DEF BarrierIsLast
<1>8. closed /\ lifecycle' = None => worker.pc = "gone"
  BY <1>1, <1>2, <1>4 DEF EndIsSound, CallerIsSound, Holds
<1>9. (Ending' <=> Ending) /\ (Marked' <=> Marked)
  BY <1>1, <1>2, <1>3, <1>4, BufferAssumption DEF Ending, Marked, TypeOK
<1>10. WorkerIsSound'
  BY <1>1, <1>2, <1>3, <1>4, BufferAssumption DEF WorkerIsSound
<1>11. EndIsSound'
  BY <1>1, <1>2, <1>3, <1>4, <1>8, <1>9 DEF EndIsSound
<1> QED
  BY <1>5, <1>6, <1>7, <1>10, <1>11 DEF BufferInv

LEMMA PutShutdownInv == ASSUME BufferInv, NEW c \in Callers, PutShutdown(c) PROVE BufferInv'
<1>1. TypeOK /\ (\A d \in Callers : CallerIsSound(d)) /\ BarrierIsLast /\ WorkerIsSound /\ EndIsSound
  BY DEF BufferInv
<1>2. caller[c].pc = "sentinel" /\ caller[c].op = "close" /\ lifecycle = c /\ closed
  BY <1>1 DEF PutShutdown, CallerIsSound, Holds
<1>3. queue = <<>> /\ worker.batch = <<>>
  BY <1>1, <1>2 DEF BarrierIsLast
<1>4. Goes(c, "join") /\ queue' = <<Shutdown>>
      /\ UNCHANGED <<worker, lifecycle, inside, closed, done>>
  BY <1>3 DEF PutShutdown
<1>5. Gone(c, "join")
  BY <1>1, <1>4, GoesMeans
<1>6. queue' \in Seq(Items) /\ Len(queue') = 1 /\ queue'[1] = Shutdown /\ DOMAIN queue' = 1..1
  BY <1>4 DEF Items
<1>7. TypeOK'
  BY <1>1, <1>4, <1>5, <1>6, BufferAssumption DEF TypeOK, Gone
<1>8. ASSUME NEW d \in Callers PROVE CallerIsSound(d)'
  BY <1>1, <1>2, <1>4, <1>5, BufferAssumption DEF CallerIsSound, Holds, Gone
<1>9. ASSUME NEW d \in Callers
      PROVE  /\ caller[d].pc # "wait"
             /\ d # c /\ caller[d].op \in {"read", "maintain", "close"} =>
                  caller[d].pc \notin {"enter", "inside", "return", "sentinel"}
  BY <1>1, <1>2 DEF CallerIsSound, Holds
<1>10. BarrierIsLast'
  <2>1. \A d \in Callers : Shutdown # Barrier(d)
    BY DEF Barrier, Shutdown
  <2> QED
    BY <1>1, <1>2, <1>4, <1>5, <1>6, <1>9, <2>1 DEF BarrierIsLast, Gone
<1>11. Ending' /\ ~Ending /\ ~worker.last
  BY <1>1, <1>2, <1>4, <1>5, BufferAssumption DEF Ending, Gone, EndIsSound
<1>12. WorkerIsSound'
  BY <1>1, <1>2, <1>4, <1>5, <1>11 DEF WorkerIsSound, CallerIsSound, Gone
<1>13. EndIsSound'
  BY <1>1, <1>2, <1>3, <1>4, <1>5, <1>9, <1>11, BufferAssumption DEF EndIsSound, Gone
<1> QED
  BY <1>7, <1>8, <1>10, <1>12, <1>13 DEF BufferInv

LEMMA JoinInv == ASSUME BufferInv, NEW c \in Callers, Join(c) PROVE BufferInv'
<1>1. TypeOK /\ (\A d \in Callers : CallerIsSound(d)) /\ BarrierIsLast /\ WorkerIsSound /\ EndIsSound
  BY DEF BufferInv
<1>2. caller[c].pc = "join" /\ caller[c].op = "close" /\ lifecycle = c /\ closed
  BY <1>1 DEF Join, CallerIsSound, Holds
<1>3. /\ worker.pc = "gone" /\ worker.batch = <<>> /\ worker.mark = None /\ queue = <<>>
      /\ Worker \notin inside
  BY <1>1 DEF Join, WorkerIsSound
<1>4. Goes(c, "inside") /\ inside' = inside \cup {c}
      /\ UNCHANGED <<queue, worker, lifecycle, closed, done>>
  BY DEF Join
<1>5. Gone(c, "inside")
  BY <1>1, <1>4, GoesMeans
<1>6. TypeOK'
  BY <1>1, <1>4, <1>5 DEF TypeOK, Gone
<1>7. ASSUME NEW d \in Callers PROVE CallerIsSound(d)'
  BY <1>1, <1>2, <1>4, <1>5, BufferAssumption DEF CallerIsSound, Holds, Gone
<1>8. BarrierIsLast'
  BY <1>1, <1>2, <1>3, <1>4, <1>5 DEF BarrierIsLast, Gone
<1>9. Ending' /\ (Marked' <=> Marked)
  BY <1>2, <1>4, <1>5 DEF Ending, Marked, Gone
<1>10. WorkerIsSound'
  BY <1>1, <1>3, <1>4, BufferAssumption DEF WorkerIsSound
<1>11. EndIsSound'
  BY <1>1, <1>2, <1>3, <1>4, <1>5, <1>9, BufferAssumption DEF EndIsSound, Gone
<1> QED
  BY <1>6, <1>7, <1>8, <1>10, <1>11 DEF BufferInv

---------------------------------------------------------------------------
\* Steps of the worker.

\* The worker changes and the callers do not.
LEMMA WorkerStep ==
  ASSUME BufferInv, UNCHANGED <<caller, lifecycle, closed>>,
         worker' \in WorkerStates, Len(worker'.batch) <= BatchSize,
         queue' \in Seq(Items), Len(queue') <= MaxQueue, done' \in Seq(Writes),
         inside' \subseteq Callers \cup {Worker}, inside' \cap Callers = inside \cap Callers
  PROVE  TypeOK' /\ (\A c \in Callers : CallerIsSound(c)') /\ (Ending' <=> Ending)
<1>1. TypeOK /\ (\A d \in Callers : CallerIsSound(d))
  BY DEF BufferInv
<1>2. TypeOK'
  BY <1>1 DEF TypeOK
<1>3. ASSUME NEW c \in Callers PROVE CallerIsSound(c)'
  BY <1>1 DEF CallerIsSound, Holds
<1>4. Ending' <=> Ending
  BY DEF Ending
<1> QED
  BY <1>2, <1>3, <1>4

\* The item at the head is taken: how the worker and the queue are then.
LEMMA TakenMeans ==
  ASSUME BufferInv, queue # <<>>, NEW item, item = Head(queue), NEW h, h = Taken(item), worker.mark = None,
         Len(worker.batch) < BatchSize
  PROVE  /\ h \in WorkerStates /\ h.pc = worker.pc /\ Len(h.batch) <= BatchSize
         /\ item.kind = "write" =>
              /\ h.batch = Append(worker.batch, item.of) /\ item.of \in Writes
              /\ h.batch # <<>> /\ h.mark = None /\ h.last = worker.last
         /\ item.kind # "write" => h.batch = worker.batch
         /\ item.kind = "barrier" => h.mark = item /\ h.last = worker.last
         /\ item = Shutdown => h.mark = None /\ h.last = TRUE
         /\ item.kind \in {"write", "barrier"} \/ item = Shutdown
         /\ Tail(queue) \in Seq(Items) /\ Len(Tail(queue)) <= MaxQueue
         /\ item = queue[1] /\ 1 \in DOMAIN queue
         /\ DOMAIN Tail(queue) = 1..Len(queue) - 1 /\ Len(Tail(queue)) = Len(queue) - 1
         /\ Len(queue) \in Nat /\ DOMAIN queue = 1..Len(queue)
         /\ \A i \in 1..Len(queue) - 1 : Tail(queue)[i] = queue[i + 1]
<1>1. /\ queue \in Seq(Items) /\ Len(queue) <= MaxQueue /\ worker \in WorkerStates
      /\ worker.batch \in Seq(Writes) /\ Len(worker.batch) \in Nat
  BY DEF BufferInv, TypeOK, WorkerStates
<1>3. /\ Tail(queue) \in Seq(Items) /\ Len(Tail(queue)) <= MaxQueue
      /\ item = queue[1] /\ 1 \in DOMAIN queue
      /\ DOMAIN Tail(queue) = 1..Len(queue) - 1 /\ Len(Tail(queue)) = Len(queue) - 1
      /\ Len(queue) \in Nat /\ DOMAIN queue = 1..Len(queue)
      /\ \A i \in 1..Len(queue) - 1 : Tail(queue)[i] = queue[i + 1]
  BY <1>1, BufferAssumption
<1>4. item \in Items
  BY <1>1, <1>3
<1>5. \/ item.kind = "write" /\ item.of \in Writes
      \/ item.kind = "barrier"
      \/ item.kind = "shutdown" /\ item = Shutdown
  BY <1>4 DEF Items, Write, Barrier, Shutdown
<1>6. Shutdown.kind = "shutdown"
  BY DEF Shutdown
<1>7. CASE item.kind = "write"
  <2>1. PICK x \in Writes : x = item.of
    BY <1>5, <1>7
  <2>2. PICK batch : batch = Append(worker.batch, x)
    OBVIOUS
  <2>3. batch \in Seq(Writes) /\ batch # <<>> /\ Len(batch) <= BatchSize
    BY <1>1, <2>1, <2>2, BufferAssumption
  <2>4. h = [worker EXCEPT !.batch = batch]
    BY <1>7, <2>1, <2>2 DEF Taken
  <2>5. h \in WorkerStates /\ h.pc = worker.pc /\ h.batch = batch /\ h.mark = None /\ h.last = worker.last
    BY <1>1, <2>3, <2>4 DEF WorkerStates
  <2> QED
    BY <1>3, <1>6, <1>7, <2>1, <2>2, <2>3, <2>5
<1>8. CASE item.kind # "write"
  <2>1. Len(worker.batch) <= BatchSize
    BY <1>1, BufferAssumption
  <2>2. CASE item.kind = "barrier"
    <3>1. h = [worker EXCEPT !.mark = item]
      BY <2>2 DEF Taken
    <3>2. h \in WorkerStates /\ h.pc = worker.pc /\ h.batch = worker.batch /\ h.mark = item
          /\ h.last = worker.last
      BY <1>1, <1>4, <3>1 DEF WorkerStates
    <3> QED
      BY <1>3, <1>6, <2>1, <2>2, <3>2
  <2>3. CASE item.kind = "shutdown"
    <3>1. h = [worker EXCEPT !.last = TRUE]
      BY <2>3 DEF Taken
    <3>2. h \in WorkerStates /\ h.pc = worker.pc /\ h.batch = worker.batch /\ h.mark = None
          /\ h.last = TRUE
      BY <1>1, <3>1 DEF WorkerStates
    <3> QED
      BY <1>3, <1>5, <2>1, <2>3, <3>2
  <2> QED
    BY <1>5, <1>8, <2>2, <2>3
<1> QED
  BY <1>7, <1>8

\* What the worker took leaves barriers and the marker where they were.
LEMMA TakesInv ==
  ASSUME BufferInv, queue # <<>>, worker.mark = None, Len(worker.batch) < BatchSize,
         NEW h, h = Taken(Head(queue)), Worker \notin inside,
         worker' \in WorkerStates, worker'.pc \in {"take", "apply"},
         worker'.batch = h.batch, worker'.mark = h.mark, worker'.last = h.last,
         queue' = Tail(queue), UNCHANGED <<caller, lifecycle, inside, closed, done>>
  PROVE  BufferInv'
<1>1. TypeOK /\ (\A d \in Callers : CallerIsSound(d)) /\ BarrierIsLast /\ WorkerIsSound /\ EndIsSound
  BY DEF BufferInv
<1>2. PICK item : item = Head(queue)
  OBVIOUS
<1>3. /\ Len(worker'.batch) <= BatchSize
      /\ item.kind = "write" => worker'.batch # <<>> /\ worker'.mark = None /\ worker'.last = worker.last
      /\ item.kind # "write" => worker'.batch = worker.batch
      /\ item.kind = "barrier" => worker'.mark = item /\ worker'.last = worker.last
      /\ item = Shutdown => worker'.mark = None /\ worker'.last = TRUE
      /\ item.kind \in {"write", "barrier"} \/ item = Shutdown
  BY ZenonT(40), <1>2, TakenMeans
<1>4. /\ queue' \in Seq(Items) /\ Len(queue') <= MaxQueue
      /\ item = queue[1] /\ 1 \in DOMAIN queue
      /\ DOMAIN queue' = 1..Len(queue) - 1 /\ Len(queue') = Len(queue) - 1
      /\ Len(queue) \in Nat /\ DOMAIN queue = 1..Len(queue)
      /\ \A i \in 1..Len(queue) - 1 : queue'[i] = queue[i + 1]
  BY <1>2, TakenMeans
<1>5. TypeOK' /\ (\A c \in Callers : CallerIsSound(c)') /\ (Ending' <=> Ending)
  BY <1>1, <1>3, <1>4, WorkerStep DEF TypeOK
<1>6. BarrierIsLast'
  <2>1. ASSUME NEW i \in DOMAIN queue', NEW c \in Callers, queue'[i] = Barrier(c)
        PROVE  i = Len(queue') /\ caller'[c].pc = "wait"
    <3>1. i + 1 \in DOMAIN queue /\ queue[i + 1] = Barrier(c)
      BY <1>4, <2>1
    <3> QED
      BY <1>1, <1>4, <3>1 DEF BarrierIsLast
  <2>2. ASSUME worker'.mark # None PROVE worker'.mark.kind = "barrier"
    BY <1>3, <2>2
  <2>3. ASSUME worker'.mark # None, NEW c \in Callers, worker'.mark = Barrier(c)
        PROVE  queue' = <<>> /\ caller'[c].pc = "wait"
    <3>1. item = Barrier(c)
      BY <1>3, <2>3
    <3>2. 1 = Len(queue) /\ caller[c].pc = "wait"
      BY <1>1, <1>4, <3>1 DEF BarrierIsLast
    <3> QED
      BY <1>4, <3>2
  <2>4. ASSUME NEW c \in Callers, caller[c].op \in {"read", "maintain", "close"}
        PROVE  caller[c].pc \notin {"enter", "inside", "return", "sentinel"}
    BY <1>1, <2>4 DEF BarrierIsLast
  <2> QED
    BY <2>1, <2>2, <2>3, <2>4 DEF BarrierIsLast
<1>7. Ending => item = Shutdown /\ queue' = <<>>
  <2>1. ASSUME Ending PROVE queue = <<Shutdown>>
    BY <1>1, <2>1 DEF EndIsSound
  <2>2. ASSUME Ending PROVE Len(queue) = 1 /\ queue[1] = Shutdown
    BY <2>1, <2>2
  <2> QED
    BY <1>4, <2>2
<1>8. Marked' => Marked
  BY <1>4 DEF Marked
<1>9. item = Shutdown => Marked
  BY <1>4 DEF Marked
<1>10. Shutdown.kind = "shutdown"
  BY DEF Shutdown
<1>11. WorkerIsSound'
  BY <1>1 DEF WorkerIsSound
<1>12. EndIsSound'
  <2>1. worker'.last => Ending'
    BY <1>1, <1>3, <1>5, <1>9 DEF EndIsSound
  <2>2. Ending' => worker'.batch = <<>> /\ queue' = <<>>
    BY <1>1, <1>3, <1>5, <1>7, <1>10 DEF EndIsSound
  <2>3. worker.pc # "gone"
    BY <1>1 DEF WorkerIsSound
  <2> QED
    BY <1>1, <1>5, <1>8, <2>1, <2>2, <2>3 DEF EndIsSound
<1> QED
  BY <1>5, <1>6, <1>11, <1>12 DEF BufferInv

LEMMA TakeInv == ASSUME BufferInv, Take PROVE BufferInv'
<1>1. TypeOK /\ (\A d \in Callers : CallerIsSound(d)) /\ BarrierIsLast /\ WorkerIsSound /\ EndIsSound
  BY DEF BufferInv
<1>2. PICK h : h = Taken(Head(queue))
  OBVIOUS
<1>3. /\ worker.pc = "take" /\ queue # <<>> /\ queue' = Tail(queue) /\ worker' = h
      /\ worker.mark = None /\ Len(worker.batch) # BatchSize
      /\ UNCHANGED <<caller, lifecycle, inside, closed, done>>
  BY <1>2 DEF Take, BatchEnds
<1>4. Len(worker.batch) < BatchSize /\ Worker \notin inside
  BY <1>1, <1>3, BufferAssumption DEF TypeOK, WorkerStates, WorkerIsSound
<1>5. PICK item : item = Head(queue)
  OBVIOUS
<1>6. h \in WorkerStates /\ h.pc = worker.pc
  BY <1>2, <1>3, <1>4, <1>5, TakenMeans
<1> QED
  BY <1>2, <1>3, <1>4, <1>6, TakesInv

LEMMA DrainInv == ASSUME BufferInv, Drain PROVE BufferInv'
<1>1. TypeOK /\ (\A d \in Callers : CallerIsSound(d)) /\ BarrierIsLast /\ WorkerIsSound /\ EndIsSound
  BY DEF BufferInv
<1>2. /\ worker.pc = "drain" /\ worker.last /\ worker.batch = <<>> /\ worker.mark = None
      /\ UNCHANGED <<caller, lifecycle, inside, closed, done>>
      /\ worker \in WorkerStates /\ Worker \notin inside
  BY <1>1 DEF Drain, WorkerIsSound, TypeOK
<1>3. CASE queue = <<>>
  <2>1. worker' = [worker EXCEPT !.pc = "gone"] /\ queue' = queue
    BY <1>3 DEF Drain
  <2>2. /\ worker' \in WorkerStates /\ worker'.pc = "gone" /\ worker'.batch = worker.batch
        /\ worker'.mark = worker.mark /\ worker'.last = worker.last
    BY <1>2, <2>1 DEF WorkerStates
  <2>3. TypeOK' /\ (\A c \in Callers : CallerIsSound(c)') /\ (Ending' <=> Ending)
    BY <1>1, <1>2, <2>1, <2>2, WorkerStep DEF TypeOK
  <2>4. BarrierIsLast'
    BY <1>1, <1>2, <2>1, <2>2 DEF BarrierIsLast
  <2>5. WorkerIsSound'
    BY <1>1, <1>2, <1>3, <2>1, <2>2 DEF WorkerIsSound
  <2>6. Marked' <=> Marked
    BY <2>1 DEF Marked
  <2>7. EndIsSound'
    BY <1>1, <1>2, <2>1, <2>2, <2>3, <2>6 DEF EndIsSound
  <2> QED
    BY <2>3, <2>4, <2>5, <2>7 DEF BufferInv
<1>4. CASE queue # <<>>
  <2>1. PICK h : h = Taken(Head(queue))
    OBVIOUS
  <2>2. worker' = [h EXCEPT !.pc = "apply"] /\ queue' = Tail(queue)
    BY <1>4, <2>1 DEF Drain
  <2>3. Len(worker.batch) < BatchSize
    BY <1>2, BufferAssumption
  <2>4. PICK item : item = Head(queue)
    OBVIOUS
  <2>5. h \in WorkerStates
    BY <1>2, <1>4, <2>1, <2>3, <2>4, TakenMeans
  <2>6. /\ worker' \in WorkerStates /\ worker'.pc = "apply" /\ worker'.batch = h.batch
        /\ worker'.mark = h.mark /\ worker'.last = h.last
    BY <2>2, <2>5 DEF WorkerStates
  <2> QED
    BY <1>2, <1>4, <2>1, <2>2, <2>3, <2>6, TakesInv
<1> QED
  BY <1>3, <1>4

LEMMA StopTakingInv == ASSUME BufferInv, StopTaking PROVE BufferInv'
<1>1. TypeOK /\ (\A d \in Callers : CallerIsSound(d)) /\ BarrierIsLast /\ WorkerIsSound /\ EndIsSound
  BY DEF BufferInv
<1>2. /\ worker.pc = "take" /\ worker' = [worker EXCEPT !.pc = "apply"]
      /\ UNCHANGED <<queue, caller, lifecycle, inside, closed, done>>
  BY DEF StopTaking
<1>3. /\ worker' \in WorkerStates /\ worker'.pc = "apply" /\ worker'.batch = worker.batch
      /\ worker'.mark = worker.mark /\ worker'.last = worker.last
  BY <1>1, <1>2 DEF TypeOK, WorkerStates
<1>4. TypeOK' /\ (\A c \in Callers : CallerIsSound(c)') /\ (Ending' <=> Ending)
  BY <1>1, <1>2, <1>3, WorkerStep DEF TypeOK
<1>5. BarrierIsLast'
  BY <1>1, <1>2, <1>3 DEF BarrierIsLast
<1>6. WorkerIsSound'
  BY <1>1, <1>2, <1>3 DEF WorkerIsSound
<1>7. Marked' <=> Marked
  BY <1>2 DEF Marked
<1>8. EndIsSound'
  BY <1>1, <1>2, <1>3, <1>4, <1>7 DEF EndIsSound
<1> QED
  BY <1>4, <1>5, <1>6, <1>8 DEF BufferInv

LEMMA BatchDoneInv == ASSUME BufferInv, BatchDone PROVE BufferInv'
<1>1. TypeOK /\ (\A d \in Callers : CallerIsSound(d)) /\ BarrierIsLast /\ WorkerIsSound /\ EndIsSound
  BY DEF BufferInv
<1>2. PICK pc : pc = IF worker.last THEN "drain" ELSE "take"
  OBVIOUS
<1>3. /\ worker.pc = "apply" /\ worker.batch = <<>> /\ worker.mark = None
      /\ worker' = [worker EXCEPT !.pc = pc]
      /\ UNCHANGED <<queue, caller, lifecycle, inside, closed, done>>
  BY <1>2 DEF BatchDone
<1>4. /\ worker' \in WorkerStates /\ worker'.pc = pc /\ worker'.batch = worker.batch
      /\ worker'.mark = worker.mark /\ worker'.last = worker.last
  BY <1>1, <1>2, <1>3 DEF TypeOK, WorkerStates
<1>5. TypeOK' /\ (\A c \in Callers : CallerIsSound(c)') /\ (Ending' <=> Ending)
  BY <1>1, <1>3, <1>4, WorkerStep DEF TypeOK
<1>6. BarrierIsLast'
  BY <1>1, <1>3, <1>4 DEF BarrierIsLast
<1>7. WorkerIsSound'
  BY <1>1, <1>2, <1>3, <1>4 DEF WorkerIsSound
<1>8. Marked' <=> Marked
  BY <1>3 DEF Marked
<1>9. EndIsSound'
  BY <1>1, <1>3, <1>4, <1>5, <1>8 DEF EndIsSound
<1> QED
  BY <1>5, <1>6, <1>7, <1>9 DEF BufferInv

LEMMA ApplyStartsInv == ASSUME BufferInv, ApplyStarts PROVE BufferInv'
<1>1. TypeOK /\ (\A d \in Callers : CallerIsSound(d)) /\ BarrierIsLast /\ WorkerIsSound /\ EndIsSound
  BY DEF BufferInv
<1>2. /\ worker.pc = "apply" /\ worker.batch # <<>> /\ inside \subseteq Guards
      /\ inside' = inside \cup {Worker}
      /\ UNCHANGED <<queue, worker, caller, lifecycle, closed, done>>
  BY DEF ApplyStarts, Alone
<1>3. TypeOK' /\ (\A c \in Callers : CallerIsSound(c)') /\ (Ending' <=> Ending)
  <2>1. inside' \subseteq Callers \cup {Worker} /\ inside' \cap Callers = inside \cap Callers
    BY <1>1, <1>2, BufferAssumption DEF TypeOK
  <2> QED
    BY <1>1, <1>2, <2>1, WorkerStep DEF TypeOK
<1>4. BarrierIsLast'
  BY <1>1, <1>2 DEF BarrierIsLast
<1>5. WorkerIsSound'
  BY <1>1, <1>2, BufferAssumption DEF WorkerIsSound, Guards
<1>6. Marked' <=> Marked
  BY <1>2 DEF Marked
<1>7. EndIsSound'
  BY <1>1, <1>2, <1>3, <1>6 DEF EndIsSound
<1> QED
  BY <1>3, <1>4, <1>5, <1>7 DEF BufferInv

LEMMA ApplyEndsInv == ASSUME BufferInv, ApplyEnds PROVE BufferInv'
<1>1. TypeOK /\ (\A d \in Callers : CallerIsSound(d)) /\ BarrierIsLast /\ WorkerIsSound /\ EndIsSound
  BY DEF BufferInv
<1>2. worker.pc = "apply" /\ worker.batch # <<>> /\ Worker \in inside
  BY <1>1 DEF ApplyEnds, WorkerIsSound
<1>3. worker.batch \in Seq(Writes) /\ Len(worker.batch) \in Nat /\ worker \in WorkerStates
      /\ Len(worker.batch) <= BatchSize
  BY <1>1 DEF TypeOK, WorkerStates
<1>4. PICK batch : batch = Tail(worker.batch)
  OBVIOUS
<1>5. batch \in Seq(Writes) /\ Len(batch) <= BatchSize /\ Head(worker.batch) \in Writes
  BY <1>2, <1>3, <1>4, BufferAssumption
<1>6. /\ inside' = inside \ {Worker} /\ done' = Append(done, Head(worker.batch))
      /\ worker' = [worker EXCEPT !.batch = batch]
      /\ UNCHANGED <<queue, caller, lifecycle, closed>>
  BY <1>4 DEF ApplyEnds
<1>7. /\ worker' \in WorkerStates /\ worker'.pc = worker.pc /\ worker'.batch = batch
      /\ worker'.mark = worker.mark /\ worker'.last = worker.last
  BY <1>3, <1>5, <1>6 DEF WorkerStates
<1>8. TypeOK' /\ (\A c \in Callers : CallerIsSound(c)') /\ (Ending' <=> Ending)
  <2>1. inside' \subseteq Callers \cup {Worker} /\ inside' \cap Callers = inside \cap Callers
    BY <1>1, <1>6, BufferAssumption DEF TypeOK
  <2>2. done' \in Seq(Writes) /\ queue' \in Seq(Items) /\ Len(queue') <= MaxQueue
    BY <1>1, <1>5, <1>6 DEF TypeOK
  <2> QED
    BY <1>5, <1>6, <1>7, <2>1, <2>2, WorkerStep
<1>9. BarrierIsLast'
  BY <1>1, <1>2, <1>6, <1>7 DEF BarrierIsLast
<1>10. WorkerIsSound'
  BY <1>1, <1>2, <1>6, <1>7 DEF WorkerIsSound
<1>11. Marked' <=> Marked
  BY <1>6 DEF Marked
<1>12. EndIsSound'
  BY <1>1, <1>2, <1>6, <1>7, <1>8, <1>11 DEF EndIsSound
<1> QED
  BY <1>8, <1>9, <1>10, <1>12 DEF BufferInv

LEMMA ReachBarrierInv == ASSUME BufferInv, ReachBarrier PROVE BufferInv'
<1>1. TypeOK /\ (\A d \in Callers : CallerIsSound(d)) /\ BarrierIsLast /\ WorkerIsSound /\ EndIsSound
  BY DEF BufferInv
<1>2. PICK c : c = worker.mark.of
  OBVIOUS
<1>3. PICK pc : pc = CASE caller[c].op = "flush" -> "return"
                       [] caller[c].op = "close" -> "sentinel"
                       [] OTHER                  -> "enter"
  OBVIOUS
<1>4. /\ worker.pc = "apply" /\ worker.batch = <<>> /\ worker.mark # None
      /\ worker' = [worker EXCEPT !.mark = None]
      /\ IF c = None THEN UNCHANGED caller ELSE Goes(c, pc)
      /\ UNCHANGED <<queue, lifecycle, inside, closed, done>>
  BY <1>2, <1>3 DEF ReachBarrier
<1>5. /\ worker' \in WorkerStates /\ worker'.mark = None /\ worker'.pc = worker.pc
      /\ worker'.batch = worker.batch /\ worker'.last = worker.last
  BY <1>1, <1>4 DEF TypeOK, WorkerStates
<1>6. Worker \notin inside
  BY <1>1, <1>4 DEF WorkerIsSound
<1>7. Marked' <=> Marked
  BY <1>4 DEF Marked
<1>8. worker.mark = Barrier(c) /\ c \in Callers \cup {None}
  <2>1. worker.mark \in Items /\ worker.mark.kind = "barrier"
    BY <1>1, <1>4 DEF TypeOK, WorkerStates, BarrierIsLast
  <2>2. PICK d \in Callers \cup {None} : worker.mark = Barrier(d)
    BY <2>1 DEF Items, Write, Shutdown
  <2>3. c = d
    BY <1>2, <2>2 DEF Barrier
  <2> QED
    BY <2>2, <2>3
<1>9. CASE c = None
  <2>1. TypeOK' /\ (\A d \in Callers : CallerIsSound(d)') /\ (Ending' <=> Ending)
    BY <1>1, <1>4, <1>5, <1>9, WorkerStep DEF TypeOK
  <2>2. BarrierIsLast'
    BY <1>1, <1>4, <1>5, <1>9 DEF BarrierIsLast
  <2>3. WorkerIsSound'
    BY <1>1, <1>4, <1>5, <1>6, <1>9 DEF WorkerIsSound
  <2>4. EndIsSound'
    BY <1>1, <1>4, <1>5, <1>7, <1>9, <2>1 DEF EndIsSound
  <2> QED
    BY <2>1, <2>2, <2>3, <2>4 DEF BufferInv
<1>10. CASE c # None
  <2>1. c \in Callers /\ caller[c].pc = "wait" /\ queue = <<>> /\ lifecycle = c
    <3>1. c \in Callers
      BY <1>8, <1>10
    <3>2. caller[c].pc = "wait" /\ queue = <<>>
      BY <1>1, <1>4, <1>8, <3>1 DEF BarrierIsLast
    <3> QED
      BY <1>1, <3>1, <3>2 DEF CallerIsSound, Holds
  <2>2. /\ caller[c].op \in {"read", "maintain", "flush", "close"}
        /\ caller[c].op = "flush" => pc = "return"
        /\ caller[c].op = "close" => pc = "sentinel"
        /\ caller[c].op \in {"read", "maintain"} => pc = "enter"
        /\ pc \in {"return", "sentinel", "enter"}
    BY <1>1, <1>3, <2>1 DEF CallerIsSound
  <2>3. Gone(c, pc)
    BY <1>1, <1>4, <1>10, <2>1, <2>2, GoesMeans
  <2>4. TypeOK'
    BY <1>1, <1>4, <1>5, <2>3 DEF TypeOK, Gone
  <2>5. ASSUME NEW d \in Callers PROVE CallerIsSound(d)'
    BY <1>1, <1>4, <2>1, <2>2, <2>3, BufferAssumption DEF CallerIsSound, Holds, Gone
  <2>6. BarrierIsLast'
    BY <1>1, <1>4, <1>5, <2>1, <2>2, <2>3 DEF BarrierIsLast, Gone
  <2>7. WorkerIsSound'
    BY <1>1, <1>4, <1>5, <1>6 DEF WorkerIsSound
  <2>8. ~Ending /\ ~worker.last /\ ~Marked
    BY <1>1, <2>1, BufferAssumption DEF Ending, EndIsSound
  <2>9. ~Ending'
    <3>1. closed => caller[c].op = "close"
      BY <1>1, <2>1 DEF CallerIsSound, Holds
    <3> QED
      BY <1>4, <2>1, <2>2, <2>3, <3>1, BufferAssumption DEF Ending, Gone
  <2>10. EndIsSound'
    BY <1>1, <1>4, <1>5, <1>7, <2>1, <2>2, <2>3, <2>8, <2>9, BufferAssumption DEF EndIsSound, Gone
  <2> QED
    BY <2>4, <2>5, <2>6, <2>7, <2>10 DEF BufferInv
<1> QED
  BY <1>9, <1>10

---------------------------------------------------------------------------
\* The invariant holds at first, and every step keeps it.
LEMMA BufferInitInv == Init => BufferInv
<1> SUFFICES ASSUME Init PROVE BufferInv
  OBVIOUS
<1>1. PICK h : h = [pc |-> "idle", op |-> "flush", w |-> None, calls |-> 0]
  OBVIOUS
<1>2. PICK k : k = [pc |-> "take", batch |-> <<>>, mark |-> None, last |-> FALSE]
  OBVIOUS
<1>3. h \in CallerStates /\ h.pc = "idle" /\ h.op = "flush" /\ h.w = None
  BY <1>1, BufferAssumption DEF CallerStates, Ops
<1>4. /\ k \in WorkerStates /\ k.pc = "take" /\ k.batch = <<>> /\ Len(k.batch) = 0
      /\ k.mark = None /\ k.last = FALSE
  BY <1>2 DEF WorkerStates
<1>5. /\ caller = [c \in Callers |-> h] /\ worker = k /\ queue = <<>> /\ lifecycle = None
      /\ inside = {} /\ closed = FALSE /\ done = <<>>
  BY <1>1, <1>2 DEF Init
<1>6. caller \in [Callers -> CallerStates] /\ \A c \in Callers : caller[c] = h
  BY <1>3, <1>5
<1>7. TypeOK
  <2>1. queue \in Seq(Items) /\ Len(queue) = 0 /\ done \in Seq(Writes)
    BY <1>5
  <2>2. 0 <= MaxQueue /\ 0 <= BatchSize
    BY BufferAssumption
  <2>3. worker \in WorkerStates /\ Len(worker.batch) = 0
    BY <1>4, <1>5
  <2> QED
    BY <1>5, <1>6, <2>1, <2>2, <2>3 DEF TypeOK
<1>8. ASSUME NEW c \in Callers PROVE CallerIsSound(c)
  BY <1>3, <1>5, <1>6, BufferAssumption DEF CallerIsSound, Holds
<1>9. BarrierIsLast
  BY <1>3, <1>4, <1>5, <1>6 DEF BarrierIsLast
<1>10. WorkerIsSound
  BY <1>4, <1>5 DEF WorkerIsSound
<1>11. EndIsSound
  BY <1>3, <1>4, <1>5, <1>6 DEF EndIsSound, Ending, Marked
<1> QED
  BY <1>7, <1>8, <1>9, <1>10, <1>11 DEF BufferInv

LEMMA BufferStepInv == BufferInv /\ [Next]_vars => BufferInv'
<1> SUFFICES ASSUME BufferInv, [Next]_vars PROVE BufferInv'
  OBVIOUS
<1>1. CASE UNCHANGED vars
  <2>1. TypeOK' /\ (\A d \in Callers : CallerIsSound(d)') /\ BarrierIsLast' /\ WorkerIsSound'
    BY <1>1 DEF vars, BufferInv, TypeOK, CallerIsSound, Holds, BarrierIsLast, WorkerIsSound
  <2>2. (Ending' <=> Ending) /\ (Marked' <=> Marked)
    BY <1>1 DEF vars, Ending, Marked
  <2>3. EndIsSound'
    BY <1>1, <2>2 DEF vars, BufferInv, EndIsSound
  <2> QED
    BY <2>1, <2>3 DEF BufferInv
<1>2. ASSUME NEW c \in Callers, NEW op \in Ops, NEW w \in Writes \cup {None}, Begin(c, op, w)
      PROVE  BufferInv'
  BY <1>2, BeginInv
<1>3. ASSUME NEW c \in Callers, CallerProgress(c) \/ FlushTimeout(c) PROVE BufferInv'
  BY <1>3, LockInv, PutInv, PutBarrierInv, FlushTimeoutInv, EnterInv, LeaveInv, ReturnInv,
     PutShutdownInv, JoinInv DEF CallerProgress
<1>4. CASE WorkerProgress
  BY <1>4, TakeInv, DrainInv, StopTakingInv, BatchDoneInv, ApplyStartsInv, ApplyEndsInv,
     ReachBarrierInv DEF WorkerProgress
<1> QED
  BY <1>1, <1>2, <1>3, <1>4 DEF Next

\* (BufferedStorage) The invariant the other theorems of this module rest on.
\* (BufferedStorage) In every reachable state locks, queue, batch and worker agree.
THEOREM BufferInvariant == Spec => []BufferInv
BY BufferInitInv, BufferStepInv, PTL DEF Spec

\* The state keeps to its types, and inner to its callers one by one.  (Between the write
\* lock, which the worker and most callers take, and the lifecycle lock, under which close()
\* enters without it.)
LEMMA InvInnerAlone == BufferInv => InnerAlone
<1> SUFFICES ASSUME BufferInv PROVE InnerAlone
  OBVIOUS
<1>1. TypeOK /\ (\A d \in Callers : CallerIsSound(d)) /\ WorkerIsSound
  BY DEF BufferInv
<1>2. \A c, d \in inside \ Guards : c = d
  <2> SUFFICES ASSUME NEW c \in inside \ Guards, NEW d \in inside \ Guards PROVE c = d
    OBVIOUS
  <2>1. \A e \in inside \ Guards : e = Worker \/ (e \in Callers /\ lifecycle = e)
    BY <1>1 DEF TypeOK, Guards, CallerIsSound, Holds
  <2>2. Worker \in inside => \A e \in inside \ Guards : e = Worker
    BY <1>1 DEF TypeOK, Guards, WorkerIsSound
  <2> QED
    BY <2>1, <2>2
<1>3. CASE inside \ Guards = {}
  BY <1>3, FS_EmptySet DEF InnerAlone
<1>4. CASE inside \ Guards # {}
  <2>1. PICK c : inside \ Guards = {c}
    BY <1>2, <1>4
  <2>2. Cardinality({c}) = 1
    BY FS_Singleton
  <2> QED
    BY <2>1, <2>2 DEF InnerAlone
<1> QED
  BY <1>3, <1>4

\* (buffered.py, "never more than one thread inside inner")  Whatever locks its callers
\* wait for, the inner storage is called by one thread at a time.
THEOREM CallersEnterOneByOne == Spec => []InnerIsGuarded
BY BufferInvariant, InvInnerAlone, PTL DEF BufferInv, InnerIsGuarded

---------------------------------------------------------------------------
\* The line.

\* The barrier behind the batch, if any, as it stands in line.
Behind == IF worker.mark = None THEN <<>> ELSE <<None>>

LEMMA LineMeans ==
  ASSUME BufferInv
  PROVE  /\ Line = (worker.batch \o Behind) \o Tagged(queue)
         /\ worker.batch \in Seq(Writes) /\ worker.batch \in Seq(Spots) /\ Behind \in Seq(Spots)
         /\ queue \in Seq(Items) /\ Tagged(queue) \in Seq(Spots) /\ Line \in Seq(Spots)
         /\ worker \in WorkerStates /\ done \in Seq(Writes) /\ None \notin Writes
<1>1. worker.batch \in Seq(Writes) /\ queue \in Seq(Items) /\ worker \in WorkerStates
      /\ done \in Seq(Writes) /\ None \notin Writes
  BY BufferAssumption DEF BufferInv, TypeOK, WorkerStates
<1>2. worker.batch \in Seq(Spots)
  BY <1>1 DEF Spots
<1>3. Behind \in Seq(Spots)
  <2>1. None \in Spots
    BY DEF Spots
  <2> QED
    BY <2>1, SpotsClosed DEF Behind
<1>4. Tagged(queue) \in Seq(Spots)
  BY <1>1, TaggedMeans
<1>5. Line = (worker.batch \o Behind) \o Tagged(queue)
  BY DEF Line, Behind
<1>6. Line \in Seq(Spots)
  BY <1>2, <1>3, <1>4, <1>5, SpotsClosed
<1> QED
  BY <1>1, <1>2, <1>3, <1>4, <1>5, <1>6

LEMMA LineEmpty ==
  ASSUME queue = <<>>, worker.batch = <<>>, worker.mark = None
  PROVE  Line = <<>>
BY TaggedEmpty DEF Line

\* The line is at least as long as the queue.
LEMMA LineIsLong == ASSUME BufferInv PROVE Len(Line) >= Len(queue)
<1>1. PICK u \in Seq(Spots) : u = worker.batch \o Behind
  BY LineMeans, SpotsClosed
<1>2. PICK v \in Seq(Spots) : v = Tagged(queue) /\ Len(v) = Len(queue)
  BY LineMeans, TaggedMeans
<1>3. Line = u \o v
  BY <1>1, <1>2, LineMeans
<1>4. Len(u \o v) = Len(u) + Len(v) /\ Len(u) \in Nat /\ Len(v) \in Nat
  OBVIOUS
<1> QED
  BY <1>2, <1>3, <1>4

\* An item is queued.
LEMMA LineAppend ==
  ASSUME BufferInv, NEW item \in Items, queue' = Append(queue, item), UNCHANGED worker
  PROVE  Line' = Append(Line, Tag(item))
<1>1. PICK u \in Seq(Spots) : u = worker.batch \o Behind
  BY LineMeans, SpotsClosed
<1>2. PICK v \in Seq(Spots), x \in Spots : v = Tagged(queue) /\ x = Tag(item)
  BY LineMeans, TagMeans
<1>3. Tagged(queue') = Append(v, x)
  BY <1>2, LineMeans, TaggedAppend
<1>4. Line' = u \o Append(v, x)
  BY <1>1, <1>3 DEF Line, Behind
<1>5. Line = u \o v
  BY <1>1, <1>2, LineMeans
<1>6. Append(u \o v, x) = u \o Append(v, x)
  BY ConcatAppend
<1> QED
  BY <1>2, <1>4, <1>5, <1>6

\* The worker takes an item: a write or a barrier keeps its place.
LEMMA LineTakes ==
  ASSUME BufferInv, queue # <<>>, worker.mark = None, Len(worker.batch) < BatchSize,
         NEW h, h = Taken(Head(queue)), queue' = Tail(queue),
         worker'.batch = h.batch, worker'.mark = h.mark
  PROVE  \/ Line' = Line
         \/ Line # <<>> /\ Head(Line) = None /\ Line' = Tail(Line) /\ Head(queue) = Shutdown
<1>1. PICK item : item = Head(queue)
  OBVIOUS
<1>2. /\ item \in Items
      /\ item.kind = "write" => h.batch = Append(worker.batch, item.of) /\ h.mark = None
      /\ item.kind # "write" => h.batch = worker.batch
      /\ item.kind = "barrier" => h.mark = item
      /\ item = Shutdown => h.mark = None
      /\ item.kind \in {"write", "barrier"} \/ item = Shutdown
  <2>1. item \in Items
    BY <1>1, LineMeans
  <2> QED
    BY ZenonT(40), <1>1, <2>1, TakenMeans
<1>3. PICK b \in Seq(Spots), t \in Seq(Spots), x \in Spots :
        b = worker.batch /\ t = Tagged(queue') /\ x = Tag(item)
  <2>1. Tagged(queue') \in Seq(Spots)
    BY LineMeans, TaggedTail, TaggedMeans
  <2> QED
    BY <1>2, <2>1, LineMeans, TagMeans
<1>4. Tagged(queue) = <<x>> \o t
  BY <1>1, <1>3, LineMeans, TaggedTail
<1>5. Line = b \o (<<x>> \o t)
  <2>1. Behind = <<>> /\ b \o <<>> = b
    BY DEF Behind
  <2> QED
    BY <1>3, <1>4, <2>1, LineMeans
<1>6. (b \o <<x>>) \o t = b \o (<<x>> \o t)
  <2>1. PICK u \in Seq(Spots) : u = <<x>>
    BY SpotsClosed
  <2> QED
    BY <2>1, ConcatThree
<1>7. CASE item.kind = "write"
  <2>1. worker'.batch = b \o <<x>>
    <3>1. x = item.of
      BY <1>2, <1>3, <1>7, TagMeans
    <3>2. Append(b, x) = b \o <<x>>
      BY AppendIsConcat
    <3> QED
      BY <1>2, <1>3, <1>7, <3>1, <3>2
  <2>2. Line' = ((b \o <<x>>) \o <<>>) \o t
    BY <1>2, <1>3, <1>7, <2>1 DEF Line
  <2>3. (b \o <<x>>) \o <<>> = b \o <<x>>
    <3>1. PICK u \in Seq(Spots) : u = b \o <<x>>
      BY SpotsClosed
    <3>2. u \o <<>> = u
      OBVIOUS
    <3> QED
      BY <3>1, <3>2
  <2> QED
    BY <1>5, <1>6, <2>2, <2>3
<1>8. CASE item.kind = "barrier"
  <2>1. worker'.mark # None /\ x = None /\ worker'.batch = b
    BY <1>2, <1>3, <1>8, TagMeans, BufferAssumption
  <2>2. Line' = (b \o <<x>>) \o t
    BY <1>3, <2>1 DEF Line
  <2> QED
    BY <1>5, <1>6, <2>2
<1>9. CASE item = Shutdown
  <2>1. worker'.mark = None /\ x = None /\ worker'.batch = b
    BY <1>2, <1>3, <1>9, TagMeans DEF Shutdown
  <2>2. b = <<>>
    <3>1. Marked
      BY <1>1, <1>9, LineMeans DEF Marked
    <3> QED
      BY <1>3, <3>1 DEF BufferInv, EndIsSound
  <2>3. Line = <<x>> \o t
    <3>1. PICK u \in Seq(Spots) : u = <<x>> \o t
      BY SpotsClosed
    <3>2. <<>> \o u = u
      OBVIOUS
    <3> QED
      BY <1>5, <2>2, <3>1, <3>2
  <2>4. Line' = t
    <3>1. Line' = (<<>> \o <<>>) \o t
      BY <1>3, <2>1, <2>2 DEF Line
    <3>2. (<<>> \o <<>>) \o t = t
      OBVIOUS
    <3> QED
      BY <3>1, <3>2
  <2> QED
    BY <1>1, <1>9, <2>1, <2>3, <2>4, ConcatOne
<1> QED
  BY <1>2, <1>7, <1>8, <1>9

\* The first of the batch is applied.
LEMMA LineApplies ==
  ASSUME BufferInv, worker.batch # <<>>, worker'.batch = Tail(worker.batch),
         worker'.mark = worker.mark, UNCHANGED queue
  PROVE  Line # <<>> /\ Head(Line) = Head(worker.batch) /\ Line' = Tail(Line)
<1>1. PICK b \in Seq(Spots), m \in Seq(Spots), t \in Seq(Spots) :
        b = worker.batch /\ m = Behind /\ t = Tagged(queue)
  BY LineMeans
<1>2. PICK v \in Seq(Spots), r \in Seq(Spots) : v = m \o t /\ r = Tail(b) /\ b # <<>>
  <2>1. b # <<>>
    BY <1>1
  <2>2. m \o t \in Seq(Spots) /\ Tail(b) \in Seq(Spots)
    BY <2>1, SpotsClosed
  <2> QED
    BY <2>1, <2>2
<1>3. Line = b \o v
  <2>1. Line = (b \o m) \o t
    BY <1>1, LineMeans
  <2>2. (b \o m) \o t = b \o (m \o t)
    BY ConcatThree
  <2> QED
    BY <1>2, <2>1, <2>2
<1>4. Line' = r \o v
  <2>1. Line' = (r \o m) \o t
    BY <1>1, <1>2 DEF Line, Behind
  <2>2. (r \o m) \o t = r \o (m \o t)
    BY ConcatThree
  <2> QED
    BY <1>2, <2>1, <2>2
<1>5. b \o v # <<>> /\ Head(b \o v) = Head(b) /\ Tail(b \o v) = Tail(b) \o v
  BY <1>2, ConcatTail
<1> QED
  BY <1>1, <1>2, <1>3, <1>4, <1>5

\* The barrier behind an empty batch is reached.
LEMMA LineReaches ==
  ASSUME BufferInv, worker.batch = <<>>, worker'.batch = <<>>, worker.mark # None,
         worker'.mark = None, UNCHANGED queue
  PROVE  Line # <<>> /\ Head(Line) = None /\ Line' = Tail(Line)
<1>1. PICK t \in Seq(Spots), x \in Spots : t = Tagged(queue) /\ x = None
  BY LineMeans DEF Spots
<1>2. Line = <<x>> \o t
  <2>1. Line = (<<>> \o <<x>>) \o t
    BY <1>1 DEF Line
  <2>2. <<>> \o <<x>> = <<x>>
    OBVIOUS
  <2> QED
    BY <2>1, <2>2
<1>3. Line' = t
  <2>1. Line' = (<<>> \o <<>>) \o t
    BY <1>1 DEF Line
  <2>2. (<<>> \o <<>>) \o t = t
    OBVIOUS
  <2> QED
    BY <2>1, <2>2
<1> QED
  BY <1>1, <1>2, <1>3, ConcatOne

\* Nothing is queued, taken or applied.
LEMMA LineStays ==
  ASSUME UNCHANGED queue, worker'.batch = worker.batch, worker'.mark = worker.mark
  PROVE  Line' = Line
BY DEF Line

\* A call of flush is given up: its barrier still stands in line.
LEMMA LineForgets ==
  ASSUME BufferInv, NEW c \in Callers, FlushTimeout(c)
  PROVE  Line' = Line
<1> DEFINE Forgotten(item) == IF item = Barrier(c) THEN Barrier(None) ELSE item
<1>1. /\ queue' = [i \in DOMAIN queue |-> Forgotten(queue[i])]
      /\ worker' = [worker EXCEPT !.mark = Forgotten(worker.mark)]
  BY DEF FlushTimeout
<1>2. worker'.batch = worker.batch /\ worker'.mark = Forgotten(worker.mark)
  BY <1>1, LineMeans DEF WorkerStates
<1>3. worker'.mark = None <=> worker.mark = None
  BY <1>2, BufferAssumption DEF Items, Barrier
<1>4. queue' \in Seq(Items)
  BY FlushTimeoutInv DEF BufferInv, TypeOK
<1>5. \A i \in DOMAIN queue : Tag(Forgotten(queue[i])) = Tag(queue[i])
  BY DEF Tag, Barrier
<1>6. Len(queue) = Len(queue') /\ \A i \in 1..Len(queue) : Tag(queue[i]) = Tag(queue'[i])
  <2> HIDE DEF Forgotten
  <2>1. DOMAIN queue = 1..Len(queue) /\ DOMAIN queue' = DOMAIN queue /\ DOMAIN queue' = 1..Len(queue')
        /\ Len(queue) \in Nat /\ Len(queue') \in Nat
    BY <1>1, <1>4, LineMeans
  <2>2. Len(queue) = Len(queue')
    BY <2>1
  <2> QED
    BY <1>1, <1>5, <2>1, <2>2
<1>7. Tagged(queue') = Tagged(queue)
  BY <1>4, <1>6, LineMeans, TaggedAlike
<1> QED
  BY <1>2, <1>3, <1>7 DEF Line

\* Behind its barrier a thread finds nothing waiting.
LEMMA InvReadsSeeAccepted == BufferInv => ReadsSeeAccepted
<1> SUFFICES ASSUME BufferInv, NEW c \in Callers,
                    caller[c].pc \in {"enter", "inside", "sentinel"},
                    caller[c].op \in {"read", "maintain", "close"}
             PROVE  Line = <<>>
  BY DEF ReadsSeeAccepted
<1>1. queue = <<>> /\ worker.batch = <<>> /\ worker.mark = None
  BY DEF BufferInv, BarrierIsLast
<1> QED
  BY <1>1, LineEmpty

\* (BufferedStorage._flush_locked) Who has passed the barrier sees every accepted write applied.
THEOREM ReadsComeAfterWrites == Spec => []ReadsSeeAccepted
BY BufferInvariant, InvReadsSeeAccepted, PTL

---------------------------------------------------------------------------
\* Every write is brought once.

\* The writes in line or applied.
Brought == ToSet(Line) \cup ToSet(done)

\* The write of a call under way is nobody else's, and not yet in line or applied.
Once ==
  /\ \A c \in Callers :
       caller[c].w # None /\ caller[c].pc # "return" => caller[c].w \notin Brought
  /\ \A c, d \in Callers : c # d /\ caller[c].w # None => caller[d].w # caller[c].w

\* A step that brings no write and takes up none.
LEMMA OnceStays ==
  ASSUME Once, Brought' \subseteq Brought,
         \A d \in Callers :
           \/ caller'[d].w = None
           \/ /\ caller'[d].w = caller[d].w
              /\ caller'[d].pc = "return" \/ caller[d].pc # "return"
  PROVE  Once'
BY DEF Once

\* A step with which the write of thread c is brought, if it is.
LEMMA OnceBrings ==
  ASSUME Once, NEW c \in Callers, Brought' \subseteq Brought \cup {caller[c].w},
         \A d \in Callers \ {c} : caller'[d] = caller[d],
         \/ caller'[c].w = None
         \/ caller'[c].w = caller[c].w /\ caller'[c].pc = "return"
  PROVE  Once'
BY DEF Once

LEMMA OnceInit == ASSUME Init PROVE Once
<1>1. \A c \in Callers : caller[c].w = None
  BY DEF Init
<1> QED
  BY <1>1 DEF Once

LEMMA OnceCaller ==
  ASSUME BufferInv, Once, NEW c \in Callers, CallerProgress(c) \/ FlushTimeout(c)
  PROVE  Once'
<1>0. TypeOK /\ None \notin Writes /\ done \in Seq(Writes) /\ Line \in Seq(Spots) /\ queue \in Seq(Items)
      /\ caller[c] \in CallerStates /\ \A d \in Callers : CallerIsSound(d)
  BY LineMeans DEF BufferInv, TypeOK
<1>1. ASSUME Returns(c), Line' = Line \/ Line' = Append(Line, caller[c].w), UNCHANGED done
      PROVE  Once'
  <2>1. caller'[c].w = None /\ \A d \in Callers \ {c} : caller'[d] = caller[d]
    BY <1>0, <1>1, ReturnsMeans
  <2>2. PICK x \in Spots : x = caller[c].w
    BY <1>0 DEF CallerStates, Spots
  <2>3. ToSet(Append(Line, x)) = ToSet(Line) \cup {x}
    BY <1>0, ToSetAppend
  <2>4. Brought' \subseteq Brought \cup {caller[c].w}
    <3>1. Line' = Line \/ Line' = Append(Line, x)
      BY <1>1, <2>2
    <3>2. ToSet(Line') \subseteq ToSet(Line) \cup {x}
      BY <2>3, <3>1
    <3> QED
      BY <1>1, <2>2, <3>2 DEF Brought
  <2> QED
    BY <2>1, <2>4, OnceBrings
<1>2. ASSUME NEW pc \in {"put", "barrier", "wait", "enter", "inside", "sentinel", "join", "return"},
             Goes(c, pc), caller[c].pc # "return",
             Line' = Line \/ Line' = Append(Line, None), UNCHANGED done
      PROVE  Once'
  <2>1. Gone(c, pc)
    BY <1>0, <1>2, GoesMeans
  <2>2. None \in Spots
    BY DEF Spots
  <2>3. ToSet(Line') \subseteq ToSet(Line) \cup {None}
    BY <1>0, <1>2, <2>2, ToSetAppend
  <2>4. Brought' \subseteq Brought \cup {None}
    BY <1>2, <2>3 DEF Brought
  <2>5. \A d \in Callers : caller'[d].w = caller[d].w /\ (caller'[d].pc = caller[d].pc \/ caller[d].pc # "return")
    BY <1>2, <2>1 DEF Gone
  <2> QED
    BY <2>4, <2>5 DEF Once
<1>3. CASE Lock(c)
  <2>1. UNCHANGED <<queue, worker, done>> /\ caller[c].pc = "lock"
    BY <1>3 DEF Lock
  <2>2. Line' = Line
    BY <2>1, LineStays
  <2>3. CASE closed
    BY <1>1, <1>3, <2>1, <2>2, <2>3 DEF Lock
  <2>4. CASE ~closed
    <3>1. PICK pc : pc = CASE caller[c].op = "write"  -> "put"
                           [] caller[c].op = "exists" -> "enter"
                           [] OTHER                   -> "barrier"
      OBVIOUS
    <3>2. Goes(c, pc) /\ pc \in {"put", "enter", "barrier"}
      BY <1>3, <2>4, <3>1 DEF Lock
    <3> QED
      BY <1>2, <2>1, <2>2, <3>2
  <2> QED
    BY <2>3, <2>4
<1>4. CASE Put(c)
  <2>1. UNCHANGED <<worker, done>> /\ caller[c].pc = "put" /\ caller[c].w \in Writes
    BY <1>0, <1>4 DEF Put, CallerIsSound
  <2>2. CASE Full
    <3>1. Line' = Line /\ Goes(c, "enter")
      BY <1>4, <2>1, <2>2, LineStays DEF Put
    <3> QED
      BY <1>2, <2>1, <3>1
  <2>3. CASE ~Full
    <3>1. PICK item : item = Write(caller[c].w)
      OBVIOUS
    <3>2. item \in Items /\ Tag(item) = caller[c].w
      BY <2>1, <3>1 DEF Items, Write, Tag
    <3>3. queue' = Append(queue, item) /\ Returns(c)
      BY <1>4, <2>3, <3>1 DEF Put
    <3>4. Line' = Append(Line, caller[c].w)
      BY <2>1, <3>2, <3>3, LineAppend
    <3> QED
      BY <1>1, <2>1, <3>3, <3>4
  <2> QED
    BY <2>2, <2>3
<1>5. CASE PutBarrier(c) \/ PutShutdown(c)
  <2>1. PICK item \in Items : queue' = Append(queue, item) /\ item.kind # "write"
    BY <1>5 DEF PutBarrier, PutShutdown, Items, Barrier, Shutdown
  <2>2. UNCHANGED <<worker, done>> /\ caller[c].pc # "return" /\ (Goes(c, "wait") \/ Goes(c, "join"))
    BY <1>5 DEF PutBarrier, PutShutdown
  <2>3. Line' = Append(Line, None)
    BY <2>1, <2>2, LineAppend, TagMeans
  <2> QED
    BY <1>2, <2>2, <2>3
<1>6. CASE FlushTimeout(c)
  BY <1>1, <1>6, LineForgets DEF FlushTimeout
<1>7. CASE Enter(c) \/ Join(c)
  <2>1. UNCHANGED <<queue, worker, done>> /\ caller[c].pc # "return" /\ Goes(c, "inside")
    BY <1>7 DEF Enter, Join
  <2> QED
    BY <1>2, <2>1, LineStays
<1>8. CASE Leave(c)
  <2>1. UNCHANGED <<queue, worker>> /\ Goes(c, "return")
    BY <1>8 DEF Leave
  <2>2. Gone(c, "return")
    BY <1>0, <2>1, GoesMeans
  <2>3. ToSet(done') \subseteq ToSet(done) \cup {caller[c].w}
    <3>1. CASE caller[c].w = None
      BY <1>8, <3>1 DEF Leave
    <3>2. CASE caller[c].w # None
      <4>1. caller[c].w \in Writes /\ done' = Append(done, caller[c].w)
        BY <1>0, <1>8, <3>2 DEF Leave, CallerStates
      <4> QED
        BY <1>0, <4>1, ToSetAppend
    <3> QED
      BY <3>1, <3>2
  <2>4. Brought' \subseteq Brought \cup {caller[c].w}
    BY <2>1, <2>3, LineStays DEF Brought
  <2> QED
    BY <2>2, <2>4, OnceBrings DEF Gone
<1>9. CASE Return(c)
  BY <1>1, <1>9, LineStays DEF Return
<1> QED
  BY <1>3, <1>4, <1>5, <1>6, <1>7, <1>8, <1>9 DEF CallerProgress

LEMMA OnceBegins ==
  ASSUME BufferInv, Once, NEW c \in Callers, NEW op \in Ops, NEW w \in Writes \cup {None}, Begin(c, op, w)
  PROVE  Once'
<1>1. PICK n, pc : caller' = [caller EXCEPT ![c] = [pc |-> pc, op |-> op, w |-> w, calls |-> n]]
  BY DEF Begin
<1>2. caller \in [Callers -> CallerStates]
  BY DEF BufferInv, TypeOK
<1>3. caller'[c].w = w /\ \A d \in Callers \ {c} : caller'[d] = caller[d]
  BY <1>1, <1>2
<1>4. Brought' = Brought
  BY LineStays DEF Begin, Brought
<1>5. w # None => w \notin Brought /\ \A d \in Callers : caller[d].w # w
  BY DEF Begin, Fresh, Brought
<1> QED
  BY <1>3, <1>4, <1>5 DEF Once

\* A barrier that is reached lets its caller go on, if there still is one.
LEMMA ReachMeans ==
  ASSUME BufferInv, ReachBarrier
  PROVE  \/ UNCHANGED caller
         \/ \E c \in Callers, pc \in {"return", "sentinel", "enter"} :
              caller[c].pc = "wait" /\ caller[c].op # "write" /\ Gone(c, pc)
<1>1. TypeOK /\ (\A d \in Callers : CallerIsSound(d)) /\ BarrierIsLast
  BY DEF BufferInv
<1>2. PICK c : c = worker.mark.of
  OBVIOUS
<1>3. PICK pc : pc = CASE caller[c].op = "flush" -> "return"
                       [] caller[c].op = "close" -> "sentinel"
                       [] OTHER                  -> "enter"
  OBVIOUS
<1>4. worker.mark # None /\ IF c = None THEN UNCHANGED caller ELSE Goes(c, pc)
  BY <1>2, <1>3 DEF ReachBarrier
<1>5. pc \in {"return", "sentinel", "enter"}
  BY <1>3
<1>6. worker.mark = Barrier(c) /\ c \in Callers \cup {None}
  <2>1. worker.mark \in Items /\ worker.mark.kind = "barrier"
    BY <1>1, <1>4 DEF TypeOK, WorkerStates, BarrierIsLast
  <2>2. PICK d \in Callers \cup {None} : worker.mark = Barrier(d)
    BY <2>1 DEF Items, Write, Shutdown
  <2>3. c = d
    BY <1>2, <2>2 DEF Barrier
  <2> QED
    BY <2>2, <2>3
<1>7. CASE c = None
  BY <1>4, <1>7
<1>8. CASE c # None
  <2>1. c \in Callers /\ Goes(c, pc)
    BY <1>4, <1>6, <1>8
  <2>2. caller[c].pc = "wait"
    BY <1>1, <1>4, <1>6, <2>1 DEF BarrierIsLast
  <2>3. caller[c].op # "write"
    BY <1>1, <2>1, <2>2 DEF CallerIsSound
  <2>4. Gone(c, pc)
    BY <1>1, <1>5, <2>1, GoesMeans
  <2> QED
    BY <1>5, <2>1, <2>2, <2>3, <2>4
<1> QED
  BY <1>7, <1>8

\* What was brought, a step of the worker only moves.
LEMMA OnceWorker ==
  ASSUME BufferInv, Once, WorkerProgress
  PROVE  Once'
<1>0. /\ None \notin Writes /\ done \in Seq(Writes) /\ Line \in Seq(Spots) /\ worker \in WorkerStates
      /\ WorkerIsSound
  BY LineMeans DEF BufferInv
<1>1. ASSUME UNCHANGED <<caller, done>>, Line' = Line \/ (Line # <<>> /\ Line' = Tail(Line))
      PROVE  Once'
  <2>1. ToSet(Line') \subseteq ToSet(Line)
    BY <1>0, <1>1, ToSetTail
  <2> QED
    BY <1>1, <2>1, OnceStays DEF Brought
<1>2. CASE Take
  <2>1. PICK h : h = Taken(Head(queue))
    OBVIOUS
  <2>2. /\ queue # <<>> /\ worker.mark = None /\ Len(worker.batch) # BatchSize
        /\ worker' = h /\ queue' = Tail(queue) /\ UNCHANGED <<caller, done>>
    BY <1>2, <2>1 DEF Take, BatchEnds
  <2>3. Len(worker.batch) < BatchSize
    BY <2>2, BufferAssumption DEF BufferInv, TypeOK, WorkerStates
  <2>4. Line' = Line \/ (Line # <<>> /\ Line' = Tail(Line))
    BY <2>1, <2>2, <2>3, LineTakes
  <2> QED
    BY <1>1, <2>2, <2>4
<1>3. CASE Drain
  <2>1. CASE queue = <<>>
    <3>1. worker'.batch = worker.batch /\ worker'.mark = worker.mark /\ UNCHANGED <<queue, caller, done>>
      BY <1>0, <1>3, <2>1 DEF Drain, WorkerStates
    <3> QED
      BY <1>1, <3>1, LineStays
  <2>2. CASE queue # <<>>
    <3>1. PICK h : h = Taken(Head(queue))
      OBVIOUS
    <3>2. worker' = [h EXCEPT !.pc = "apply"] /\ queue' = Tail(queue) /\ UNCHANGED <<caller, done>>
      BY <1>3, <2>2, <3>1 DEF Drain
    <3>3. worker.mark = None /\ Len(worker.batch) < BatchSize
      BY <1>0, <1>3, BufferAssumption DEF Drain, WorkerIsSound
    <3>4. PICK item : item = Head(queue)
      OBVIOUS
    <3>5. h \in WorkerStates
      BY <2>2, <3>1, <3>3, <3>4, TakenMeans
    <3>6. worker'.batch = h.batch /\ worker'.mark = h.mark
      BY <3>2, <3>5 DEF WorkerStates
    <3>7. Line' = Line \/ (Line # <<>> /\ Line' = Tail(Line))
      BY <2>2, <3>1, <3>2, <3>3, <3>6, LineTakes
    <3> QED
      BY <1>1, <3>2, <3>7
  <2> QED
    BY <2>1, <2>2
<1>4. CASE StopTaking \/ ApplyStarts \/ BatchDone
  <2>1. worker'.batch = worker.batch /\ worker'.mark = worker.mark /\ UNCHANGED <<queue, caller, done>>
    BY <1>0, <1>4 DEF StopTaking, ApplyStarts, BatchDone, WorkerStates
  <2> QED
    BY <1>1, <2>1, LineStays
<1>5. CASE ApplyEnds
  <2>1. worker.batch # <<>> /\ UNCHANGED <<queue, caller>> /\ done' = Append(done, Head(worker.batch))
        /\ worker'.batch = Tail(worker.batch) /\ worker'.mark = worker.mark
    BY <1>0, <1>5 DEF ApplyEnds, WorkerIsSound, WorkerStates
  <2>2. Line # <<>> /\ Head(Line) = Head(worker.batch) /\ Line' = Tail(Line)
    BY <2>1, LineApplies
  <2>3. Head(worker.batch) \in Writes
    BY <2>1, LineMeans
  <2>4. ToSet(done') = ToSet(done) \cup {Head(Line)}
    BY <1>0, <2>1, <2>2, <2>3, ToSetAppend
  <2>5. ToSet(Line') \subseteq ToSet(Line) /\ Head(Line) \in ToSet(Line)
    BY <1>0, <2>2, ToSetTail
  <2>6. Brought' \subseteq Brought
    BY <2>4, <2>5 DEF Brought
  <2> QED
    BY <2>1, <2>6, OnceStays
<1>6. CASE ReachBarrier
  <2>1. /\ worker.batch = <<>> /\ worker'.batch = <<>> /\ worker.mark # None /\ worker'.mark = None
        /\ UNCHANGED <<queue, done>>
    BY <1>0, <1>6 DEF ReachBarrier, WorkerStates
  <2>2. Line # <<>> /\ Line' = Tail(Line)
    BY <2>1, LineReaches
  <2>3. Brought' \subseteq Brought
    BY <1>0, <2>1, <2>2, ToSetTail DEF Brought
  <2>4. UNCHANGED caller \/ \E c \in Callers, pc \in {"return", "sentinel", "enter"} :
                               caller[c].pc = "wait" /\ Gone(c, pc)
    BY <1>6, ReachMeans
  <2> QED
    BY <2>3, <2>4, OnceStays DEF Gone
<1> QED
  BY <1>2, <1>3, <1>4, <1>5, <1>6 DEF WorkerProgress

LEMMA OnceStep == BufferInv /\ Once /\ [Next]_vars => Once'
<1> SUFFICES ASSUME BufferInv, Once, [Next]_vars PROVE Once'
  OBVIOUS
<1>1. CASE UNCHANGED vars
  <2>1. Line' = Line /\ UNCHANGED <<caller, done>>
    BY <1>1, LineStays DEF vars
  <2> QED
    BY <2>1, OnceStays DEF Brought
<1> QED
  BY <1>1, OnceCaller, OnceBegins, OnceWorker DEF Next

\* (BufferedStorage._enqueue) A write is in line, applied, or in the hands of one call.
LEMMA BroughtOnce == Spec => [](BufferInv /\ Once)
<1>1. Init => Once
  BY OnceInit
<1> QED
  BY <1>1, BufferInvariant, OnceStep, PTL DEF Spec

---------------------------------------------------------------------------
\* The refinement of DeferredWrites.

\* The close has returned.
Over == closed /\ lifecycle = None

\* The call of thread c found the queue full.
Ahead(c) == caller[c].op = "write" /\ caller[c].pc \in {"enter", "inside"}

\* Such a call holds the lifecycle lock, so that there is only one.
LEMMA NoneAhead ==
  ASSUME BufferInv, NEW c \in Callers, lifecycle = c, ~Ahead(c)
  PROVE  TurnedAway = {}
<1>1. ASSUME NEW d \in Callers PROVE ~Ahead(d)
  BY DEF BufferInv, CallerIsSound, Holds, Ahead
<1> QED
  BY <1>1 DEF TurnedAway, Ahead

LEMMA OneAhead ==
  ASSUME BufferInv, NEW c \in Callers, Ahead(c)
  PROVE  TurnedAway = {caller[c].w}
<1>1. ASSUME NEW d \in Callers PROVE Ahead(d) <=> d = c
  BY DEF BufferInv, CallerIsSound, Holds, Ahead
<1> QED
  BY <1>1 DEF TurnedAway, Ahead

LEMMA AheadStays ==
  ASSUME \A d \in Callers : (Ahead(d)' <=> Ahead(d)) /\ (Ahead(d) => caller'[d].w = caller[d].w)
  PROVE  TurnedAway' = TurnedAway
BY DEF TurnedAway, Ahead

\* A step that changes nothing the promise speaks of.
LEMMA Stutters ==
  ASSUME Line' = Line, TurnedAway' = TurnedAway, UNCHANGED done, Over' <=> Over,
         closed \in BOOLEAN, closed' \in BOOLEAN
  PROVE  UNCHANGED Deferred!vars
BY DEF Deferred!vars, Over

\* The write a call holds has not been brought yet.
LEMMA StillFresh ==
  ASSUME Once, NEW c \in Callers, caller[c].w # None, caller[c].pc # "return", TurnedAway = {}
  PROVE  Deferred!Fresh(caller[c].w)
BY DEF Once, Brought, ToSet, Deferred!Fresh, Deferred!ToSet

\* The steps of a caller that accept, turn away, apply, mark or close.
LEMMA PutImplements ==
  ASSUME BufferInv, Once, NEW c \in Callers, Put(c)
  PROVE  [Deferred!Next]_Deferred!vars
<1>1. /\ caller[c].pc = "put" /\ caller[c].op = "write" /\ caller[c].w \in Writes
      /\ lifecycle = c /\ ~closed /\ c # None /\ TypeOK
      /\ \A d \in Callers : CallerIsSound(d)
  BY BufferAssumption DEF Put, BufferInv, CallerIsSound, Holds
<1>2. PICK w \in Writes : w = caller[c].w /\ w # None
  BY <1>1, BufferAssumption
<1>3. ~Ahead(c) /\ TurnedAway = {}
  BY <1>1, NoneAhead DEF Ahead
<1>4. Deferred!Fresh(w)
  BY <1>1, <1>2, <1>3, StillFresh
<1>5. CASE Full
  <2>1. Goes(c, "enter") /\ UNCHANGED <<queue, lifecycle, worker, closed, done>>
    BY <1>5 DEF Put
  <2>2. Line' = Line
    BY <2>1, LineStays
  <2>3. Gone(c, "enter")
    BY <1>1, <2>1, GoesMeans
  <2>4. TurnedAway' = {w}
    <3>1. ASSUME NEW d \in Callers PROVE Ahead(d)' <=> d = c
      BY <1>1, <2>3 DEF Gone, Ahead, CallerIsSound, Holds
    <3>2. caller'[c].w = w
      BY <1>2, <2>3 DEF Gone
    <3> QED
      BY <3>1, <3>2 DEF TurnedAway, Ahead
  <2>5. Len(Line) >= MaxQueue
    <3>1. Len(Line) \in Nat /\ Len(queue) \in Nat /\ MaxQueue \in Nat
      BY LineMeans, BufferAssumption
    <3> QED
      BY <1>5, <3>1, LineIsLong DEF Full
  <2>6. Deferred!TurnAway(w)
    BY <1>1, <1>3, <1>4, <2>1, <2>2, <2>4, <2>5 DEF Deferred!TurnAway
  <2> QED
    BY <1>1, <2>6 DEF Deferred!Next
<1>6. CASE ~Full
  <2>1. PICK item : item = Write(w)
    OBVIOUS
  <2>2. item \in Items /\ Tag(item) = w
    BY <2>1 DEF Items, Write, Tag
  <2>3. queue' = Append(queue, item) /\ Returns(c) /\ UNCHANGED <<worker, closed, done>>
    BY <1>2, <1>6, <2>1 DEF Put
  <2>4. Line' = Append(Line, w)
    BY <2>2, <2>3, LineAppend
  <2>5. TurnedAway' = TurnedAway
    BY <1>1, <1>3, <2>3, ReturnsMeans, AheadStays DEF Ahead
  <2>6. Deferred!Accept(w)
    BY <1>1, <1>3, <1>4, <2>3, <2>4, <2>5 DEF Deferred!Accept
  <2> QED
    BY <1>1, <2>6 DEF Deferred!Next
<1> QED
  BY <1>5, <1>6

LEMMA LeaveImplements ==
  ASSUME BufferInv, Once, NEW c \in Callers, Leave(c)
  PROVE  [Deferred!Next]_Deferred!vars
<1>1. /\ UNCHANGED <<queue, worker, lifecycle, closed>> /\ caller[c].pc = "inside" /\ Goes(c, "return")
      /\ TypeOK /\ CallerIsSound(c) /\ c # None /\ closed \in BOOLEAN
  BY BufferAssumption DEF Leave, BufferInv, TypeOK
<1>2. Line' = Line /\ Gone(c, "return")
  BY <1>1, LineStays, GoesMeans
<1>3. CASE caller[c].w = None
  <2>1. caller[c].op # "write"
    BY <1>1, <1>3, BufferAssumption DEF CallerIsSound
  <2>2. TurnedAway' = TurnedAway
    BY <1>2, <2>1, AheadStays DEF Gone, Ahead
  <2> QED
    BY <1>1, <1>2, <1>3, <2>2, Stutters DEF Leave, Over
<1>4. CASE caller[c].w # None
  <2>1. /\ caller[c].op \in {"write", "maintain"} /\ caller[c].w \in Writes
        /\ lifecycle = c /\ ~closed
    BY <1>1, <1>4 DEF CallerIsSound, Holds
  <2>2. PICK w \in Writes : w = caller[c].w
    BY <2>1
  <2>3. done' = Append(done, w)
    BY <1>4, <2>2 DEF Leave
  <2>4. CASE caller[c].op = "write"
    <3>1. TurnedAway = {w}
      BY <1>1, <2>2, <2>4, OneAhead DEF Ahead
    <3>2. TurnedAway' = {}
      <4>1. ASSUME NEW d \in Callers PROVE ~Ahead(d)'
        BY <1>2, <2>1 DEF Gone, Ahead, BufferInv, CallerIsSound, Holds
      <4> QED
        BY <4>1 DEF TurnedAway, Ahead
    <3>3. Deferred!Overtake(w)
      BY <1>1, <1>2, <2>3, <3>1, <3>2 DEF Deferred!Overtake
    <3> QED
      BY <2>1, <3>3 DEF Deferred!Next
  <2>5. CASE caller[c].op = "maintain"
    <3>1. TurnedAway = {}
      BY <2>1, <2>5, NoneAhead DEF Ahead
    <3>2. TurnedAway' = TurnedAway
      BY <1>2, <2>5, AheadStays DEF Gone, Ahead
    <3>3. Line = <<>>
      BY <1>1, <2>5, LineEmpty DEF BufferInv, BarrierIsLast
    <3>4. Deferred!Fresh(w)
      BY <1>1, <1>4, <2>2, <3>1, StillFresh
    <3>5. Deferred!WriteThrough(w)
      BY <1>1, <1>2, <2>3, <3>1, <3>2, <3>3, <3>4 DEF Deferred!WriteThrough
    <3> QED
      BY <2>1, <3>5 DEF Deferred!Next
  <2> QED
    BY <2>1, <2>4, <2>5
<1> QED
  BY <1>3, <1>4

LEMMA MarkImplements ==
  ASSUME BufferInv, NEW c \in Callers, PutBarrier(c) \/ PutShutdown(c)
  PROVE  [Deferred!Next]_Deferred!vars
<1>1. PICK item \in Items : queue' = Append(queue, item) /\ item.kind # "write"
  BY DEF PutBarrier, PutShutdown, Items, Barrier, Shutdown
<1>2. /\ UNCHANGED <<worker, done, closed, lifecycle>> /\ caller[c].pc \in {"barrier", "sentinel"}
      /\ lifecycle = c /\ c # None /\ TypeOK
  BY BufferAssumption DEF PutBarrier, PutShutdown, BufferInv, CallerIsSound, Holds
<1>3. Line' = Append(Line, None)
  BY <1>1, <1>2, LineAppend, TagMeans
<1>4. TurnedAway = {}
  BY <1>2, NoneAhead DEF Ahead
<1>5. PICK pc \in {"wait", "join"} : Gone(c, pc)
  BY <1>2, GoesMeans DEF PutBarrier, PutShutdown
<1>6. TurnedAway' = TurnedAway
  BY <1>2, <1>5, AheadStays DEF Gone, Ahead
<1>7. Deferred!SetMark
  BY <1>2, <1>3, <1>4, <1>6 DEF Deferred!SetMark
<1> QED
  BY <1>2, <1>7 DEF Deferred!Next

LEMMA ReturnImplements ==
  ASSUME BufferInv, NEW c \in Callers, Return(c)
  PROVE  [Deferred!Next]_Deferred!vars
<1>1. /\ caller[c].pc = "return" /\ UNCHANGED <<queue, worker, closed, done>> /\ Returns(c)
      /\ lifecycle' = (IF lifecycle = c THEN None ELSE lifecycle) /\ closed \in BOOLEAN
      /\ c # None /\ TypeOK
  BY BufferAssumption DEF Return, Returns, BufferInv, TypeOK
<1>2. Line' = Line
  BY <1>1, LineStays
<1>3. TurnedAway' = TurnedAway
  BY <1>1, ReturnsMeans, AheadStays DEF Ahead
<1>4. CASE caller[c].op = "close"
  <2>1. lifecycle = c /\ closed /\ queue = <<>> /\ worker.batch = <<>> /\ worker.mark = None
    BY <1>1, <1>4 DEF BufferInv, CallerIsSound, Holds, BarrierIsLast
  <2>2. Line = <<>> /\ TurnedAway = {}
    BY <1>4, <2>1, LineEmpty, NoneAhead DEF Ahead
  <2>3. Deferred!Close /\ ~Over
    BY <1>1, <1>2, <1>3, <2>1, <2>2 DEF Deferred!Close, Over
  <2> QED
    BY <2>3 DEF Deferred!Next, Over
<1>5. CASE caller[c].op # "close"
  <2>1. lifecycle = c => ~closed
    BY <1>1, <1>5 DEF BufferInv, CallerIsSound, Holds
  <2>2. Over' <=> Over
    BY <1>1, <2>1 DEF Over
  <2> QED
    BY <1>1, <1>2, <1>3, <2>2, Stutters
<1> QED
  BY <1>4, <1>5

\* The steps of the worker that apply a write or pass a marker.
LEMMA ApplyEndsImplements == ASSUME BufferInv, ApplyEnds PROVE [Deferred!Next]_Deferred!vars
<1>1. worker.batch # <<>> /\ UNCHANGED <<queue, caller, lifecycle, closed>>
      /\ done' = Append(done, Head(worker.batch))
  BY DEF ApplyEnds, BufferInv, WorkerIsSound
<1>2. worker'.batch = Tail(worker.batch) /\ worker'.mark = worker.mark
  BY DEF ApplyEnds, BufferInv, TypeOK, WorkerStates
<1>3. ~Over
  BY <1>1 DEF Over, BufferInv, EndIsSound, WorkerIsSound
<1>4. Line # <<>> /\ Head(Line) = Head(worker.batch) /\ Line' = Tail(Line)
  BY <1>1, <1>2, LineApplies
<1>5. Head(Line) # None
  BY <1>1, <1>4, LineMeans
<1>6. TurnedAway' = TurnedAway
  BY <1>1, AheadStays DEF Ahead
<1>7. Deferred!Apply
  BY <1>1, <1>4, <1>5, <1>6 DEF Deferred!Apply
<1> QED
  BY <1>3, <1>7 DEF Deferred!Next, Over

LEMMA ReachBarrierImplements == ASSUME BufferInv, ReachBarrier PROVE [Deferred!Next]_Deferred!vars
<1>1. /\ worker.batch = <<>> /\ worker'.batch = <<>> /\ worker.mark # None /\ worker'.mark = None
      /\ UNCHANGED <<queue, lifecycle, closed, done>> /\ worker.pc = "apply"
  BY DEF ReachBarrier, BufferInv, TypeOK, WorkerStates
<1>2. ~Over
  BY <1>1 DEF Over, BufferInv, EndIsSound
<1>3. Line # <<>> /\ Head(Line) = None /\ Line' = Tail(Line)
  BY <1>1, LineReaches
<1>4. TurnedAway' = TurnedAway
  <2>1. CASE UNCHANGED caller
    BY <2>1, AheadStays DEF Ahead
  <2>2. ASSUME NEW c \in Callers, NEW pc \in {"return", "sentinel", "enter"},
               caller[c].pc = "wait" /\ caller[c].op # "write" /\ Gone(c, pc)
        PROVE  TurnedAway' = TurnedAway
    BY <2>2, AheadStays DEF Gone, Ahead
  <2> QED
    BY <2>1, <2>2, ReachMeans
<1>5. Deferred!Reach
  BY <1>1, <1>3, <1>4 DEF Deferred!Reach
<1> QED
  BY <1>2, <1>5 DEF Deferred!Next, Over

\* What is taken from the queue keeps its place, and the shutdown marker is passed.
LEMMA TakesImplements ==
  ASSUME BufferInv, queue # <<>>, worker.mark = None, Len(worker.batch) < BatchSize,
         NEW h, h = Taken(Head(queue)), worker'.batch = h.batch, worker'.mark = h.mark,
         queue' = Tail(queue), UNCHANGED <<caller, lifecycle, closed, done>>, worker.pc # "gone"
  PROVE  [Deferred!Next]_Deferred!vars
<1>1. TurnedAway' = TurnedAway
  BY AheadStays DEF Ahead
<1>2. ~Over /\ closed \in BOOLEAN
  BY DEF Over, BufferInv, EndIsSound, TypeOK
<1>3. CASE Line' = Line
  BY <1>1, <1>2, <1>3, Stutters DEF Over
<1>4. CASE Line # <<>> /\ Head(Line) = None /\ Line' = Tail(Line)
  <2>1. Deferred!Reach
    BY <1>1, <1>4 DEF Deferred!Reach
  <2> QED
    BY <1>2, <2>1 DEF Deferred!Next, Over
<1> QED
  BY <1>3, <1>4, LineTakes

LEMMA BufferStepImplements == BufferInv /\ Once /\ [Next]_vars => [Deferred!Next]_Deferred!vars
<1> SUFFICES ASSUME BufferInv, Once, [Next]_vars PROVE [Deferred!Next]_Deferred!vars
  OBVIOUS
<1>0. /\ closed \in BOOLEAN /\ worker \in WorkerStates /\ caller \in [Callers -> CallerStates] /\ TypeOK
      /\ \A c \in Callers : CallerIsSound(c) /\ c # None
  BY BufferAssumption DEF BufferInv, TypeOK
<1>1. CASE UNCHANGED vars
  <2>1. Line' = Line /\ TurnedAway' = TurnedAway
    BY <1>1, LineStays, AheadStays DEF vars, Ahead
  <2> QED
    BY <1>0, <1>1, <2>1, Stutters DEF vars, Over
<1>2. ASSUME NEW c \in Callers, NEW op \in Ops, NEW w \in Writes \cup {None}, Begin(c, op, w)
      PROVE  UNCHANGED Deferred!vars
  <2>1. PICK n, pc : /\ caller' = [caller EXCEPT ![c] = [pc |-> pc, op |-> op, w |-> w, calls |-> n]]
                     /\ op = "write" => pc = "lock"
    BY <1>2 DEF Begin
  <2>2. caller'[c].op = op /\ (op = "write" => caller'[c].pc = "lock") /\ caller[c].pc = "idle"
        /\ \A d \in Callers \ {c} : caller'[d] = caller[d]
    BY <1>0, <1>2, <2>1 DEF Begin
  <2>3. TurnedAway' = TurnedAway
    BY <2>2, AheadStays DEF Ahead
  <2> QED
    BY <1>0, <1>2, <2>3, LineStays, Stutters DEF Begin, Over
<1>3. ASSUME NEW c \in Callers, Lock(c) PROVE UNCHANGED Deferred!vars
  <2>1. UNCHANGED <<queue, worker, done>> /\ closed' \in BOOLEAN /\ caller[c].pc = "lock"
    BY <1>0, <1>3 DEF Lock
  <2>2. Over' <=> Over
    BY <1>0, <1>3 DEF Lock, Returns, Over
  <2>3. TurnedAway' = TurnedAway
    <3>1. CASE closed
      BY <1>0, <1>3, <2>1, <3>1, ReturnsMeans, AheadStays DEF Lock, Ahead
    <3>2. CASE ~closed
      <4>1. PICK pc : pc = CASE caller[c].op = "write"  -> "put"
                             [] caller[c].op = "exists" -> "enter"
                             [] OTHER                   -> "barrier"
        OBVIOUS
      <4>2. Goes(c, pc) /\ pc \in {"put", "enter", "barrier"} /\ (caller[c].op = "write" => pc = "put")
        BY <1>3, <3>2, <4>1 DEF Lock
      <4>3. Gone(c, pc)
        BY <1>0, <4>2, GoesMeans
      <4> QED
        BY <2>1, <4>2, <4>3, AheadStays DEF Gone, Ahead
    <3> QED
      BY <3>1, <3>2
  <2> QED
    BY <1>0, <2>1, <2>2, <2>3, LineStays, Stutters
<1>4. ASSUME NEW c \in Callers, FlushTimeout(c) PROVE UNCHANGED Deferred!vars
  <2>1. Returns(c) /\ UNCHANGED <<closed, done>> /\ caller[c].op = "flush"
        /\ caller[c].pc \in {"wait", "barrier"}
    BY <1>4 DEF FlushTimeout
  <2>2. ~Over /\ ~Over'
    BY <1>0, <2>1 DEF CallerIsSound, Holds, Over
  <2>3. TurnedAway' = TurnedAway
    BY <1>0, <2>1, ReturnsMeans, AheadStays DEF Ahead
  <2> QED
    BY <1>0, <1>4, <2>1, <2>2, <2>3, LineForgets, Stutters
<1>5. ASSUME NEW c \in Callers, Enter(c) \/ Join(c) PROVE UNCHANGED Deferred!vars
  <2>1. Goes(c, "inside") /\ UNCHANGED <<queue, worker, lifecycle, closed, done>>
        /\ caller[c].pc \in {"enter", "join"} /\ (caller[c].pc = "join" => caller[c].op = "close")
    BY <1>0, <1>5 DEF Enter, Join, CallerIsSound
  <2>2. Gone(c, "inside")
    BY <1>0, <2>1, GoesMeans
  <2>3. TurnedAway' = TurnedAway
    BY <2>1, <2>2, AheadStays DEF Gone, Ahead
  <2> QED
    BY <1>0, <2>1, <2>3, LineStays, Stutters DEF Over
<1>6. ASSUME Take PROVE [Deferred!Next]_Deferred!vars
  <2>1. PICK h : h = Taken(Head(queue))
    OBVIOUS
  <2>2. /\ queue # <<>> /\ worker.mark = None /\ Len(worker.batch) # BatchSize /\ worker.pc # "gone"
        /\ worker' = h /\ queue' = Tail(queue) /\ UNCHANGED <<caller, lifecycle, closed, done>>
    BY <1>6, <2>1 DEF Take, BatchEnds
  <2>3. Len(worker.batch) < BatchSize
    BY <2>2, BufferAssumption DEF BufferInv, TypeOK, WorkerStates
  <2> QED
    BY <2>1, <2>2, <2>3, TakesImplements
<1>7. ASSUME Drain PROVE [Deferred!Next]_Deferred!vars
  <2>1. CASE queue = <<>>
    <3>1. worker'.batch = worker.batch /\ worker'.mark = worker.mark
          /\ UNCHANGED <<queue, caller, lifecycle, closed, done>>
      BY <1>0, <1>7, <2>1 DEF Drain, WorkerStates
    <3>2. TurnedAway' = TurnedAway
      BY <3>1, AheadStays DEF Ahead
    <3> QED
      BY <1>0, <3>1, <3>2, LineStays, Stutters DEF Over
  <2>2. CASE queue # <<>>
    <3>1. PICK h : h = Taken(Head(queue))
      OBVIOUS
    <3>2. worker' = [h EXCEPT !.pc = "apply"] /\ queue' = Tail(queue)
          /\ UNCHANGED <<caller, lifecycle, closed, done>> /\ worker.pc # "gone"
      BY <1>7, <2>2, <3>1 DEF Drain
    <3>3. worker.mark = None /\ Len(worker.batch) < BatchSize
      BY <1>7, BufferAssumption DEF Drain, BufferInv, WorkerIsSound
    <3>4. PICK item : item = Head(queue)
      OBVIOUS
    <3>5. h \in WorkerStates
      BY <2>2, <3>1, <3>3, <3>4, TakenMeans
    <3>6. worker'.batch = h.batch /\ worker'.mark = h.mark
      BY <3>2, <3>5 DEF WorkerStates
    <3> QED
      BY <2>2, <3>1, <3>2, <3>3, <3>6, TakesImplements
  <2> QED
    BY <2>1, <2>2
<1>8. ASSUME StopTaking \/ ApplyStarts \/ BatchDone PROVE UNCHANGED Deferred!vars
  <2>1. worker'.batch = worker.batch /\ worker'.mark = worker.mark
        /\ UNCHANGED <<queue, caller, lifecycle, closed, done>>
    BY <1>0, <1>8 DEF StopTaking, ApplyStarts, BatchDone, WorkerStates
  <2>2. TurnedAway' = TurnedAway
    BY <2>1, AheadStays DEF Ahead
  <2> QED
    BY <1>0, <2>1, <2>2, LineStays, Stutters DEF Over
<1> QED
  BY <1>1, <1>2, <1>3, <1>4, <1>5, <1>6, <1>7, <1>8, PutImplements, LeaveImplements, MarkImplements,
     ReturnImplements, ApplyEndsImplements, ReachBarrierImplements DEF Next, CallerProgress, WorkerProgress

LEMMA BufferInitImplements == Init => Deferred!Init
<1> SUFFICES ASSUME Init PROVE Deferred!Init
  OBVIOUS
<1>1. Line = <<>> /\ done = <<>> /\ closed = FALSE
  BY LineEmpty DEF Init
<1>2. TurnedAway = {}
  BY DEF Init, TurnedAway
<1> QED
  BY <1>1, <1>2 DEF Deferred!Init

\* (buffered.py, the promise of a write buffer)  Every write is applied once, and in the order
\* accepted unless it found the queue full; none is lost at close and nothing comes after it.
THEOREM BufferDefersWrites == Spec => DeferredSpec
BY BroughtOnce, BufferInitImplements, BufferStepImplements, PTL DEF Spec, DeferredSpec, Deferred!Spec
===============================================================================
