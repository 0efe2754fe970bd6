------------------------------ MODULE QueueProofs ------------------------------
(***************************************************************************)
(* Theorems about DeliveryQueue and WorkerService.                         *)
(*                                                                         *)
(* QueueInv is inductive.  What is sent is right because a listed row      *)
(* keeps its endpoint whoever changes it, and, while nobody has lost the   *)
(* guard, everything else of it: only the holder is at work, and the items *)
(* of its list are different rows.                                         *)
(***************************************************************************)
EXTENDS WorkerService, SequenceTheorems, FiniteSetTheorems, TLAPS

---------------------------------------------------------------------------
\* The inductive invariant.

Items ==
  [id : Intents, count : Nat, fp : Endpoints \cup {None},
   status : {"pending", "unbound", "failed", "delivered", "blocked", "exhausted", "superseded"}]

AtWork == {"drain", "unbound", "due", "send", "delivered", "refused", "plan", "analyze",
           "status", "cadence"}
Asked == {"replay", "rebind"}
Sending == {"send", "delivered", "refused"}

Places ==
  [pc : {"idle", "once"} \cup AtWork \cup Asked, todo : Seq(Items), second : BOOLEAN,
   alert : Nat, plan : Nat, once : BOOLEAN]

QueueTypes ==
  /\ DOMAIN rows \subseteq Intents /\ IsFiniteSet(DOMAIN rows)
  /\ rows \in [DOMAIN rows -> Rows]
  /\ line \in Seq(Intents) /\ ToSet(line) \subseteq Open /\ IsInjective(line)
  /\ log \subseteq Notifications \X Endpoints

ServiceTypes ==
  /\ accepted \subseteq Notifications \X Endpoints
  /\ alerts \in Seq(Documents) /\ alerts # <<>>
  /\ plan \in [revision : Nat, active : BOOLEAN]
  /\ due \in [revision : Nat, ready : BOOLEAN]
  /\ cycle \in {"none", "started", "finished"}
  /\ env \in [Procs -> Urls \cup {None}]
  /\ st \in [Procs -> Places]
  /\ guard \in Procs \cup {None}
  /\ lost \in BOOLEAN
  /\ events \in 0..MaxEvents

\* A row is bound unless it waits for a URL, or did when it was given up; it has
\* attempts left while it may be sent; and it has one successor at most, since it is
\* superseded when it gets one.
RowSound(i) ==
  /\ i.chain # <<>> /\ Revision(i) \in DOMAIN alerts
  /\ rows[i].status = "unbound" => rows[i].fp = None
  /\ rows[i].status \in {"pending", "failed", "exhausted", "delivered"} => rows[i].fp \in Endpoints
  /\ rows[i].status \in {"pending", "failed", "unbound"} =>
       rows[i].count < MaxAttempts + rows[i].replays
  /\ rows[i].count <= MaxAttempts + rows[i].replays
  /\ \/ Len(i.chain) = 1
     \/ \E j \in DOMAIN rows, r \in Nat : i = Rebound(j, r) /\ rows[j].status = "superseded"

RowsInv == \A i \in DOMAIN rows : RowSound(i)

\* What was listed is stored, and bound as it was.
Listing(item) ==
  /\ item.id \in DOMAIN rows
  /\ item.status # "unbound" => /\ rows[item.id].status # "unbound"
                                /\ rows[item.id].fp = item.fp
  /\ item.status \in {"pending", "failed"} => item.fp \in Endpoints

ItemsDiffer(todo) == \A j, k \in DOMAIN todo : j # k => todo[j].id # todo[k].id

PlaceSound(p) ==
  /\ \A k \in DOMAIN st[p].todo : Listing(st[p].todo[k])
  /\ ItemsDiffer(st[p].todo)
  /\ st[p].pc \in AtWork \cup {"once"} => p \in Workers
  /\ st[p].pc \in Asked => p = Dashboard /\ st[p].todo # <<>>
  /\ st[p].pc = "analyze" => st[p].alert \in DOMAIN alerts
  /\ st[p].alert <= Len(alerts)
  /\ st[p].pc \in Sending \cup {"due"} =>
       \A k \in DOMAIN st[p].todo : st[p].todo[k].status \in {"pending", "failed"}
  /\ st[p].pc \in Sending =>
       /\ st[p].todo # <<>>
       /\ Fingerprint(alerts[Revision(Item(p).id)], p) = Item(p).fp
  /\ st[p].pc \in {"idle", "once"} \cup Asked => st[p].second = FALSE

PlacesInv == \A p \in Procs : PlaceSound(p)

\* While no holder has lost the guard, only the holder is at work; the rows it is to
\* send are as listed; and a cycle under way reads as started.
HolderSound(p) ==
  /\ st[p].pc \notin {"idle", "once"} => guard = p
  /\ st[p].pc \in Sending \cup {"due"} =>
       \A k \in DOMAIN st[p].todo :
         /\ st[p].todo[k].id \in Sendable
         /\ rows[st[p].todo[k].id].count = st[p].todo[k].count
  /\ st[p].pc = "send" =>
       /\ <<Item(p).id.of, Item(p).fp>> \notin log
       /\ Revision(Item(p).id) = Len(alerts)
       /\ Item(p).id.of \in Alert.selects
  /\ (st[p].pc # "cadence" /\ (st[p].second \/ st[p].pc \in {"analyze", "status"})) => cycle = "started"

HolderInv == ~lost => \A p \in Procs : HolderSound(p)

QueueInv == QueueTypes /\ ServiceTypes /\ RowsInv /\ PlacesInv /\ HolderInv /\ SentIsBound

---------------------------------------------------------------------------
\* The line.

LEMMA PlaceOf ==
  ASSUME NEW i \in ToSet(line)
  PROVE  Place(i) \in DOMAIN line /\ line[Place(i)] = i
BY DEF Place, ToSet

\* Without(i) drops i and nothing else.
LEMMA WithoutDrops ==
  ASSUME line \in Seq(Intents), IsInjective(line), NEW i
  PROVE  /\ Without(i) \in Seq(Intents)
         /\ ToSet(Without(i)) = ToSet(line) \ {i}
         /\ IsInjective(Without(i))
<1>1. CASE i \notin ToSet(line)
  BY <1>1 DEF Without
<1>2. CASE i \in ToSet(line)
  <2> DEFINE n == Len(line)
             p == Place(i)
             w == [k \in 1..(n - 1) |-> IF k < p THEN line[k] ELSE line[k + 1]]
  <2>1. p \in 1..n /\ line[p] = i
    BY <1>2, PlaceOf, LenProperties
  <2>2. Without(i) = w
    BY <1>2 DEF Without
  <2>3. n \in Nat /\ n # 0 /\ DOMAIN line = 1..n /\ \A k \in 1..n : line[k] \in Intents
    BY <2>1, LenProperties
  <2>4. w \in Seq(Intents) /\ DOMAIN w = 1..(n - 1)
    <3>1. n - 1 \in Nat
      BY <2>3
    <3>2. \A k \in 1..(n - 1) : (IF k < p THEN line[k] ELSE line[k + 1]) \in Intents
      BY <2>3
    <3>3. w \in [1..(n - 1) -> Intents]
      BY <3>2
    <3> QED
      BY <3>1, <3>3, SeqDef
  <2>5. \A k, m \in 1..n : line[k] = line[m] => k = m
    BY <2>3 DEF IsInjective
  <2>6. IsInjective(w)
    <3> SUFFICES ASSUME NEW k \in 1..(n - 1), NEW m \in 1..(n - 1), w[k] = w[m]
                 PROVE  k = m
      BY <2>4 DEF IsInjective
    <3>1. w[k] = (IF k < p THEN line[k] ELSE line[k + 1]) /\ w[m] = (IF m < p THEN line[m] ELSE line[m + 1])
      OBVIOUS
    <3> QED
      BY <3>1, <2>1, <2>3, <2>5
  <2>7. ToSet(w) \subseteq ToSet(line) \ {i}
    <3> SUFFICES ASSUME NEW k \in 1..(n - 1)
                 PROVE  w[k] \in ToSet(line) \ {i}
      BY <2>4 DEF ToSet
    <3>1. PICK m \in 1..n : w[k] = line[m] /\ m # p
      BY <2>1, <2>3
    <3> QED
      BY <3>1, <2>1, <2>3, <2>5 DEF ToSet
  <2>8. ToSet(line) \ {i} \subseteq ToSet(w)
    <3> SUFFICES ASSUME NEW m \in 1..n, line[m] # i
                 PROVE  line[m] \in ToSet(w)
      BY <2>3 DEF ToSet
    <3>1. m # p
      BY <2>1
    <3>2. CASE m < p
      <4>1. m \in 1..(n - 1) /\ w[m] = line[m]
        BY <3>2, <2>1, <2>3
      <4> QED
        BY <4>1, <2>4 DEF ToSet
    <3>3. CASE m > p
      <4>1. m - 1 \in 1..(n - 1) /\ ~(m - 1 < p) /\ (m - 1) + 1 = m
        BY <3>3, <2>1, <2>3
      <4>2. w[m - 1] = line[m]
        BY <4>1
      <4> QED
        BY <4>1, <4>2, <2>4 DEF ToSet
    <3> QED
      BY <3>1, <3>2, <3>3, <2>1, <2>3
  <2> HIDE DEF w
  <2> QED
    BY <2>2, <2>4, <2>6, <2>7, <2>8
<1> QED
  BY <1>1, <1>2

\* One line behind another that has none of its intents.
LEMMA LinesJoin ==
  ASSUME NEW s \in Seq(Intents), NEW t \in Seq(Intents), IsInjective(s), IsInjective(t),
         ToSet(s) \cap ToSet(t) = {}
  PROVE  /\ s \o t \in Seq(Intents) /\ IsInjective(s \o t)
         /\ ToSet(s \o t) = ToSet(s) \cup ToSet(t)
<1> DEFINE m == Len(s)
           n == Len(t)
<1>1. m \in Nat /\ n \in Nat /\ DOMAIN s = 1..m /\ DOMAIN t = 1..n
  BY LenProperties
<1>2. /\ s \o t \in Seq(Intents) /\ DOMAIN (s \o t) = 1..(m + n)
      /\ \A k \in 1..(m + n) : (s \o t)[k] = IF k <= m THEN s[k] ELSE t[k - m]
  BY ConcatProperties, LenProperties
<1>3. \A k \in 1..m : s[k] \in ToSet(s)
  BY <1>1 DEF ToSet
<1>4. \A k \in 1..n : t[k] \in ToSet(t)
  BY <1>1 DEF ToSet
<1>5. \A k \in 1..(m + n) : k > m => k - m \in 1..n
  BY <1>1
<1>6. IsInjective(s \o t)
  <2> SUFFICES ASSUME NEW j \in 1..(m + n), NEW k \in 1..(m + n), (s \o t)[j] = (s \o t)[k]
               PROVE  j = k
    BY <1>2 DEF IsInjective
  <2>1. CASE j <= m /\ k <= m
    <3>1. s[j] = s[k] /\ j \in 1..m /\ k \in 1..m
      BY <1>1, <1>2, <2>1
    <3> QED
      BY <3>1, <1>1 DEF IsInjective
  <2>2. CASE j > m /\ k > m
    <3>1. t[j - m] = t[k - m] /\ j - m \in 1..n /\ k - m \in 1..n
      BY <1>1, <1>2, <2>2
    <3>2. j - m = k - m
      BY <3>1, <1>1 DEF IsInjective
    <3> QED
      BY <3>2, <1>1
  <2>3. CASE j <= m /\ k > m
    BY <1>1, <1>2, <1>3, <1>4, <1>5, <2>3
  <2>4. CASE j > m /\ k <= m
    BY <1>1, <1>2, <1>3, <1>4, <1>5, <2>4
  <2> QED
    BY <2>1, <2>2, <2>3, <2>4, <1>1
<1>7. ToSet(s \o t) \subseteq ToSet(s) \cup ToSet(t)
  <2> SUFFICES ASSUME NEW k \in 1..(m + n)
               PROVE  (s \o t)[k] \in ToSet(s) \cup ToSet(t)
    BY <1>2 DEF ToSet
  <2> QED
    BY <1>1, <1>2, <1>3, <1>4, <1>5
<1>8. ToSet(s) \subseteq ToSet(s \o t)
  <2> SUFFICES ASSUME NEW k \in 1..m
               PROVE  s[k] \in ToSet(s \o t)
    BY <1>1 DEF ToSet
  <2>1. k \in 1..(m + n) /\ (s \o t)[k] = s[k]
    BY <1>1, <1>2
  <2> QED
    BY <2>1, <1>2 DEF ToSet
<1>9. ToSet(t) \subseteq ToSet(s \o t)
  <2> SUFFICES ASSUME NEW k \in 1..n
               PROVE  t[k] \in ToSet(s \o t)
    BY <1>1 DEF ToSet
  <2>1. k + m \in 1..(m + n) /\ ~(k + m <= m) /\ (k + m) - m = k
    BY <1>1
  <2>2. (s \o t)[k + m] = t[k]
    BY <1>2, <2>1
  <2> QED
    BY <2>1, <2>2, <1>2 DEF ToSet
<1> QED
  BY <1>2, <1>6, <1>7, <1>8, <1>9

LEMMA LineGrows ==
  ASSUME NEW s \in Seq(Intents), IsInjective(s), NEW i \in Intents, i \notin ToSet(s)
  PROVE  /\ Append(s, i) \in Seq(Intents) /\ IsInjective(Append(s, i))
         /\ ToSet(Append(s, i)) = ToSet(s) \cup {i}
<1> DEFINE t == <<i>>
<1>1. t \in Seq(Intents) /\ DOMAIN t = {1} /\ t[1] = i
  OBVIOUS
<1>2. IsInjective(t) /\ ToSet(t) = {i}
  BY <1>1 DEF IsInjective, ToSet
<1>3. Append(s, i) = s \o t
  OBVIOUS
<1> HIDE DEF t
<1> QED
  BY <1>1, <1>2, <1>3, LinesJoin

\* The orders of a finite set are lines of its elements.
LEMMA OrdersAreLines ==
  ASSUME NEW S, S \subseteq Intents, IsFiniteSet(S), NEW seq \in Orders(S)
  PROVE  seq \in Seq(Intents) /\ IsInjective(seq) /\ ToSet(seq) \subseteq S
<1>1. seq \in [1..Cardinality(S) -> S] /\ IsInjective(seq)
  BY DEF Orders
<1>2. Cardinality(S) \in Nat
  BY FS_CardinalityType
<1>3. DOMAIN seq = 1..Cardinality(S) /\ \A k \in 1..Cardinality(S) : seq[k] \in S
  BY <1>1
<1>4. seq \in Seq(Intents)
  <2>1. seq \in [1..Cardinality(S) -> Intents]
    BY <1>1
  <2> QED
    BY <1>2, <2>1, SeqDef
<1> QED
  BY <1>1, <1>3, <1>4 DEF ToSet

---------------------------------------------------------------------------
\* The transactions of the queue.

\* What a listed row keeps, whoever takes the step.
RowsStep ==
  /\ DOMAIN rows \subseteq DOMAIN rows'
  /\ \A i \in DOMAIN rows : rows[i].status # "unbound" =>
       rows'[i].status # "unbound" /\ rows'[i].fp = rows[i].fp

SettledStep ==
  \A i \in DOMAIN rows : rows[i].status \in {"delivered", "superseded"} => rows'[i] = rows[i]

QueueStep == QueueTypes' /\ RowsInv' /\ RowsStep /\ SettledStep

\* What one row may become.
RowFits(i, r) ==
  /\ r \in Rows
  /\ rows[i].status \notin {"delivered", "superseded"}
  /\ rows[i].status # "unbound" => r.status # "unbound" /\ r.fp = rows[i].fp
  /\ r.status = "unbound" => r.fp = None
  /\ r.status \in {"pending", "failed", "exhausted", "delivered"} => r.fp \in Endpoints
  /\ r.status \in {"pending", "failed", "unbound"} => r.count < MaxAttempts + r.replays
  /\ r.count <= MaxAttempts + r.replays

\* A transaction that changes one row and its place in line.
LEMMA OneRow ==
  ASSUME QueueTypes, RowsInv, alerts' = alerts, log' \subseteq Notifications \X Endpoints,
         NEW i \in DOMAIN rows, NEW r, RowFits(i, r), rows' = [rows EXCEPT ![i] = r],
         \/ line' = Without(i)
         \/ line' = Append(Without(i), i) /\ r.status \in {"pending", "failed"}
  PROVE  QueueStep
<1>1. DOMAIN rows' = DOMAIN rows /\ rows'[i] = r /\ \A j \in DOMAIN rows \ {i} : rows'[j] = rows[j]
  BY DEF QueueTypes
<1>2. RowsStep /\ SettledStep
  BY <1>1 DEF RowsStep, SettledStep, RowFits
<1>3. RowsInv'
  <2> SUFFICES ASSUME NEW j \in DOMAIN rows
               PROVE  RowSound(j)'
    BY <1>1 DEF RowsInv
  <2>1. RowSound(j)
    BY DEF RowsInv
  <2>2. \/ Len(j.chain) = 1
        \/ \E k \in DOMAIN rows', n \in Nat : j = Rebound(k, n) /\ rows'[k].status = "superseded"
    BY <1>1, <2>1 DEF RowSound, RowFits
  <2>3. j.chain # <<>> /\ (Revision(j) \in DOMAIN alerts)'
    BY <2>1 DEF RowSound, Revision
  <2>4. CASE j = i
    BY <1>1, <2>2, <2>3, <2>4 DEF RowSound, RowFits, Revision
  <2>5. CASE j # i
    <3>1. rows'[j] = rows[j]
      BY <1>1, <2>5
    <3> QED
      BY <2>1, <2>2, <2>3, <3>1 DEF RowSound, Revision
  <2> QED
    BY <2>4, <2>5
<1>4. Open' \ {i} = Open \ {i} /\ (r.status \in {"pending", "failed"} => i \in Open')
  BY <1>1 DEF Open, Sendable, Unbound
<1>5. /\ Without(i) \in Seq(Intents) /\ IsInjective(Without(i))
      /\ ToSet(Without(i)) = ToSet(line) \ {i}
  BY WithoutDrops DEF QueueTypes
<1>6. line' \in Seq(Intents) /\ ToSet(line') \subseteq Open' /\ IsInjective(line')
  <2>1. CASE line' = Without(i)
    BY <1>4, <1>5, <2>1 DEF QueueTypes
  <2>2. CASE line' = Append(Without(i), i) /\ r.status \in {"pending", "failed"}
    <3>1. i \in Intents /\ i \notin ToSet(Without(i))
      BY <1>5 DEF QueueTypes
    <3>2. /\ line' \in Seq(Intents) /\ IsInjective(line')
          /\ ToSet(line') = ToSet(Without(i)) \cup {i}
      BY <1>5, <2>2, <3>1, LineGrows
    <3> QED
      BY <1>4, <1>5, <2>2, <3>2 DEF QueueTypes
  <2> QED
    BY <2>1, <2>2
<1>7. rows' \in [DOMAIN rows' -> Rows]
  BY <1>1 DEF QueueTypes, RowFits
<1>8. QueueTypes'
  BY <1>1, <1>6, <1>7 DEF QueueTypes
<1> QED
  BY <1>2, <1>3, <1>8 DEF QueueStep

LEMMA NothingStep ==
  ASSUME QueueTypes, RowsInv, UNCHANGED queueVars, alerts' = alerts
  PROVE  QueueStep
<1>1. rows' = rows /\ line' = line /\ log' = log
  BY DEF queueVars
<1>2. QueueTypes'
  BY <1>1 DEF QueueTypes, Open, Sendable, Unbound
<1>3. RowsInv'
  BY <1>1 DEF RowsInv, RowSound, Revision
<1> QED
  BY <1>1, <1>2, <1>3 DEF QueueStep, RowsStep, SettledStep

LEMMA ProbeStep ==
  ASSUME QueueTypes, RowsInv, alerts' = alerts,
         NEW i \in DOMAIN rows, NEW fp \in Endpoints \cup {None}, ProbeIntent(i, fp)
  PROVE  QueueStep
<1>1. CASE i \notin Unbound
  BY <1>1, NothingStep DEF ProbeIntent, queueVars
<1>2. CASE i \in Unbound /\ fp = None
  <2>1. rows' = rows /\ line' = Without(i) /\ log' = log
    BY <1>2 DEF ProbeIntent
  <2>2. rows' = [rows EXCEPT ![i] = rows[i]]
    BY <2>1 DEF QueueTypes
  <2>3. RowFits(i, rows[i])
    BY <1>2 DEF RowFits, RowsInv, RowSound, QueueTypes, Unbound
  <2> QED
    BY <2>1, <2>2, <2>3, OneRow DEF QueueTypes
<1>3. CASE i \in Unbound /\ fp # None
  <2>1. PICK r : r = [rows[i] EXCEPT !.status = "pending", !.fp = fp]
    OBVIOUS
  <2>2. rows[i] \in Rows /\ rows[i].status = "unbound" /\ RowSound(i)
    BY <1>3 DEF QueueTypes, RowsInv, Unbound
  <2>3. /\ r \in Rows /\ r.status = "pending" /\ r.fp = fp
        /\ r.count = rows[i].count /\ r.replays = rows[i].replays
    BY <2>1, <2>2 DEF Rows
  <2>4. RowFits(i, r)
    BY <1>3, <2>2, <2>3 DEF RowFits, RowSound
  <2>5. rows' = [rows EXCEPT ![i] = r]
    BY <1>3, <2>1 DEF ProbeIntent, QueueTypes
  <2>6. line' = Append(Without(i), i) /\ log' = log
    BY <1>3 DEF ProbeIntent
  <2> QED
    BY <2>3, <2>4, <2>5, <2>6, OneRow DEF QueueTypes
<1> QED
  BY <1>1, <1>2, <1>3

LEMMA BlockStep ==
  ASSUME QueueTypes, RowsInv, alerts' = alerts, NEW i \in DOMAIN rows, BlockIntent(i)
  PROVE  QueueStep
<1>1. CASE i \notin Open
  BY <1>1, NothingStep DEF BlockIntent, queueVars
<1>2. CASE i \in Open
  <2>1. PICK r : r = [rows[i] EXCEPT !.status = "blocked"]
    OBVIOUS
  <2>2. rows[i] \in Rows /\ rows[i].status \in {"pending", "failed", "unbound"} /\ RowSound(i)
    BY <1>2 DEF QueueTypes, RowsInv, Open, Sendable, Unbound
  <2>3. /\ r \in Rows /\ r.status = "blocked" /\ r.fp = rows[i].fp
        /\ r.count = rows[i].count /\ r.replays = rows[i].replays
    BY <2>1, <2>2 DEF Rows
  <2>4. RowFits(i, r)
    BY <2>2, <2>3 DEF RowFits, RowSound
  <2>5. rows' = [rows EXCEPT ![i] = r] /\ line' = Without(i) /\ log' = log
    BY <1>2, <2>1 DEF BlockIntent, QueueTypes
  <2> QED
    BY <2>4, <2>5, OneRow DEF QueueTypes
<1> QED
  BY <1>1, <1>2

LEMMA DeliveredStep ==
  ASSUME QueueTypes, RowsInv, alerts' = alerts, NEW i \in Sendable, MarkDelivered(i)
  PROVE  QueueStep
<1>1. PICK r : r = [rows[i] EXCEPT !.status = "delivered"]
  OBVIOUS
<1>2. i \in DOMAIN rows /\ rows[i] \in Rows /\ rows[i].status \in {"pending", "failed"} /\ RowSound(i)
  BY DEF QueueTypes, RowsInv, Sendable
<1>3. /\ r \in Rows /\ r.status = "delivered" /\ r.fp = rows[i].fp
      /\ r.count = rows[i].count /\ r.replays = rows[i].replays
  BY <1>1, <1>2 DEF Rows
<1>4. RowFits(i, r)
  BY <1>2, <1>3 DEF RowFits, RowSound
<1>5. rows' = [rows EXCEPT ![i] = r] /\ line' = Without(i) /\ log' = log
  BY <1>1, <1>2 DEF MarkDelivered, QueueTypes
<1> QED
  BY <1>2, <1>4, <1>5, OneRow DEF QueueTypes

LEMMA FinishStep ==
  ASSUME QueueTypes, RowsInv, alerts' = alerts, NEW i \in DOMAIN rows, NEW count,
         NEW delivered \in BOOLEAN, FinishAttempt(i, count, delivered)
  PROVE  QueueStep
<1>1. CASE ~Unchanged(i, count)
  BY <1>1, NothingStep DEF FinishAttempt
<1>2. CASE Unchanged(i, count)
  <2>1. PICK status : status = CASE delivered -> "delivered"
                                 [] ~delivered /\ count + 1 >= MaxAttempts -> "exhausted"
                                 [] OTHER -> "failed"
    OBVIOUS
  <2>2. PICK r : r = [rows[i] EXCEPT !.status = status, !.count = rows[i].count + 1]
    OBVIOUS
  <2>3. /\ rows[i] \in Rows /\ rows[i].status \in {"pending", "failed"} /\ RowSound(i)
        /\ rows[i].count = count
    BY <1>2 DEF QueueTypes, RowsInv, Sendable, Unchanged
  <2>4. count \in Nat /\ rows[i].replays \in Nat /\ MaxAttempts \in Nat
    BY <2>3, QueueAssumption DEF Rows
  <2>5. /\ status \in {"delivered", "exhausted", "failed"}
        /\ status = "failed" => count + 1 < MaxAttempts
    BY <2>1, <2>4
  <2>6. /\ r \in Rows /\ r.status = status /\ r.fp = rows[i].fp
        /\ r.count = count + 1 /\ r.replays = rows[i].replays
    <3>1. PICK n \in Nat : n = rows[i].count + 1
      BY <2>3, <2>4
    <3>2. r = [rows[i] EXCEPT !.status = status, !.count = n]
      BY <2>2, <3>1
    <3> QED
      BY <2>3, <2>5, <3>1, <3>2 DEF Rows
  <2>7. rows[i].fp \in Endpoints /\ count < MaxAttempts + rows[i].replays
    BY <2>3 DEF RowSound
  <2>8. r.count <= MaxAttempts + r.replays /\ (status = "failed" => r.count < MaxAttempts + r.replays)
    BY <2>4, <2>5, <2>6, <2>7
  <2>9. RowFits(i, r)
    BY <2>3, <2>5, <2>6, <2>7, <2>8 DEF RowFits
  <2>10. rows' = [rows EXCEPT ![i] = r]
    BY <1>2, <2>1, <2>2 DEF FinishAttempt, QueueTypes
  <2>11. line' = Without(i)
    BY <1>2 DEF FinishAttempt
  <2>12. log' \subseteq Notifications \X Endpoints
    <3>1. i.of \in Notifications
      BY DEF QueueTypes, Intents
    <3>2. log' = log \/ log' = log \cup {<<i.of, rows[i].fp>>}
      BY <1>2 DEF FinishAttempt
    <3> QED
      BY <2>7, <3>1, <3>2 DEF QueueTypes
  <2> QED
    BY <2>9, <2>10, <2>11, <2>12, OneRow
<1> QED
  BY <1>1, <1>2

LEMMA ReplayStep ==
  ASSUME QueueTypes, RowsInv, alerts' = alerts, NEW i \in DOMAIN rows, NEW count,
         ReplayIntent(i, count)
  PROVE  QueueStep
<1>1. CASE ~(rows[i].status = "exhausted" /\ rows[i].count = count)
  BY <1>1, NothingStep DEF ReplayIntent
<1>2. CASE rows[i].status = "exhausted" /\ rows[i].count = count
  <2>1. PICK r : r = [rows[i] EXCEPT !.status = "failed", !.replays = rows[i].replays + 1]
    OBVIOUS
  <2>2. rows[i] \in Rows /\ RowSound(i) /\ MaxAttempts \in Nat
    BY QueueAssumption DEF QueueTypes, RowsInv
  <2>3. /\ r \in Rows /\ r.status = "failed" /\ r.fp = rows[i].fp
        /\ r.count = rows[i].count /\ r.replays = rows[i].replays + 1
    <3>1. PICK n \in Nat : n = rows[i].replays + 1
      BY <2>2 DEF Rows
    <3>2. r = [rows[i] EXCEPT !.status = "failed", !.replays = n]
      BY <2>1, <3>1
    <3> QED
      BY <2>2, <3>1, <3>2 DEF Rows
  <2>4. r.count < MaxAttempts + r.replays /\ r.count <= MaxAttempts + r.replays
    <3>1. rows[i].count <= MaxAttempts + rows[i].replays
      BY <2>2 DEF RowSound
    <3>2. rows[i].count \in Nat /\ rows[i].replays \in Nat
      BY <2>2 DEF Rows
    <3> QED
      BY <2>2, <2>3, <3>1, <3>2
  <2>5. RowFits(i, r)
    BY <1>2, <2>2, <2>3, <2>4 DEF RowFits, RowSound
  <2>6. rows' = [rows EXCEPT ![i] = r]
    BY <1>2, <2>1 DEF ReplayIntent, QueueTypes
  <2>7. line' = Append(Without(i), i) /\ log' = log
    BY <1>2 DEF ReplayIntent
  <2> QED
    BY <2>3, <2>5, <2>6, <2>7, OneRow DEF QueueTypes
<1> QED
  BY <1>1, <1>2

LEMMA NewRowSound ==
  ASSUME NEW fp \in Endpoints \cup {None}
  PROVE  /\ NewRow(fp) \in Rows
         /\ NewRow(fp).status = "unbound" => NewRow(fp).fp = None
         /\ NewRow(fp).status \in {"pending", "unbound"}
         /\ NewRow(fp).status = "pending" => NewRow(fp).fp \in Endpoints
         /\ NewRow(fp).count = 0 /\ NewRow(fp).replays = 0
BY DEF NewRow, Rows

LEMMA InsertStep ==
  ASSUME QueueTypes, RowsInv, alerts' = alerts, NEW S, S \subseteq Intents, IsFiniteSet(S),
         \A i \in S : Len(i.chain) = 1 /\ i.chain # <<>> /\ Revision(i) \in DOMAIN alerts,
         NEW fp \in Endpoints \cup {None}, InsertIntents(S, fp)
  PROVE  QueueStep
<1> DEFINE new == S \ DOMAIN rows
<1>1. /\ rows' = [i \in DOMAIN rows \cup S |-> IF i \in new THEN NewRow(fp) ELSE rows[i]]
      /\ log' = log
      /\ \E seq \in Orders(new) : line' = line \o seq
  BY DEF InsertIntents
<1>2. /\ DOMAIN rows' = DOMAIN rows \cup S
      /\ \A i \in DOMAIN rows : rows'[i] = rows[i]
      /\ \A i \in new : rows'[i] = NewRow(fp)
  BY <1>1
<1>3. RowsStep /\ SettledStep
  BY <1>2 DEF RowsStep, SettledStep
<1>4. RowsInv'
  <2> SUFFICES ASSUME NEW i \in DOMAIN rows'
               PROVE  RowSound(i)'
    BY DEF RowsInv
  <2>1. CASE i \in DOMAIN rows
    BY <1>2, <2>1 DEF RowsInv, RowSound, Revision
  <2>2. CASE i \in new
    BY <1>2, <2>2, NewRowSound, QueueAssumption DEF RowSound, Revision
  <2> QED
    BY <1>2, <2>1, <2>2
<1>5. PICK seq \in Orders(new) : line' = line \o seq
  BY <1>1
<1>6. new \subseteq Intents /\ IsFiniteSet(new)
  <2>1. new \subseteq S
    OBVIOUS
  <2> QED
    BY <2>1, FS_Subset
<1>7. seq \in Seq(Intents) /\ IsInjective(seq) /\ ToSet(seq) \subseteq new
  <2> HIDE DEF new
  <2> QED
    BY <1>6, OrdersAreLines
<1>8. Open \subseteq DOMAIN rows
  BY DEF Open, Sendable, Unbound
<1>9. /\ line' \in Seq(Intents) /\ IsInjective(line')
      /\ ToSet(line') = ToSet(line) \cup ToSet(seq)
  <2>1. ToSet(line) \cap ToSet(seq) = {}
    BY <1>7, <1>8 DEF QueueTypes
  <2> QED
    BY <1>5, <1>7, <2>1, LinesJoin DEF QueueTypes
<1>10. Open' = Open \cup new
  BY <1>2, NewRowSound DEF Open, Sendable, Unbound
<1>11. IsFiniteSet(DOMAIN rows')
  <2>1. IsFiniteSet(DOMAIN rows)
    BY DEF QueueTypes
  <2>2. IsFiniteSet(DOMAIN rows \cup S)
    BY <2>1, FS_Union
  <2> QED
    BY <1>2, <2>2
<1>12. DOMAIN rows' \subseteq Intents /\ rows' \in [DOMAIN rows' -> Rows]
  BY <1>1, <1>2, NewRowSound DEF QueueTypes
<1>13. QueueTypes'
  BY <1>1, <1>7, <1>9, <1>10, <1>11, <1>12 DEF QueueTypes
<1> QED
  BY <1>3, <1>4, <1>13 DEF QueueStep

LEMMA ReboundIsIntent ==
  ASSUME NEW i \in Intents, NEW r \in Nat \ {0}
  PROVE  /\ Rebound(i, r) \in Intents /\ Len(Rebound(i, r).chain) = Len(i.chain) + 1
         /\ Rebound(i, r).chain # <<>> /\ Revision(Rebound(i, r)) = r
         /\ Rebound(i, r).of = i.of
<1>1. i.of \in Notifications /\ i.chain \in Seq(Nat \ {0})
  BY DEF Intents
<1>2. Append(i.chain, r) \in Seq(Nat \ {0}) /\ Len(Append(i.chain, r)) = Len(i.chain) + 1
  BY <1>1
<1>3. Append(i.chain, r)[Len(i.chain) + 1] = r
  BY <1>1
<1> QED
  BY SMTT(30), <1>1, <1>2, <1>3 DEF Rebound, Intents, Revision, Last

LEMMA ReboundDiffers ==
  ASSUME NEW i \in Intents, NEW j \in Intents, NEW r, NEW n, Rebound(i, r) = Rebound(j, n)
  PROVE  i = j
<1>1. /\ i.of \in Notifications /\ i.chain \in Seq(Nat \ {0}) /\ i = [of |-> i.of, chain |-> i.chain]
      /\ j.of \in Notifications /\ j.chain \in Seq(Nat \ {0}) /\ j = [of |-> j.of, chain |-> j.chain]
  BY DEF Intents
<1>2. i.of = j.of /\ Append(i.chain, r) = Append(j.chain, n)
  BY DEF Rebound
<1>3. Len(i.chain) = Len(j.chain)
  BY <1>1, <1>2
<1>4. \A k \in 1..Len(i.chain) : i.chain[k] = j.chain[k]
  BY <1>1, <1>2, <1>3
<1>5. i.chain = j.chain
  BY <1>1, <1>3, <1>4
<1> QED
  BY <1>1, <1>2, <1>5

LEMMA RebindStep ==
  ASSUME QueueTypes, RowsInv, alerts' = alerts, NEW old, old.id \in DOMAIN rows,
         NEW r \in Nat \ {0}, r \in DOMAIN alerts,
         NEW fp \in Endpoints \cup {None}, Rebindable(old, r, fp), RebindIntent(old, r, fp)
  PROVE  QueueStep
<1>1. PICK i : i = old.id
  OBVIOUS
<1>2. PICK new : new = Rebound(i, r)
  OBVIOUS
<1>3. /\ i \in DOMAIN rows /\ i \in Intents /\ rows[i] \in Rows /\ RowSound(i)
      /\ rows[i].status \in {"pending", "failed", "blocked", "exhausted"}
  BY <1>1 DEF QueueTypes, RowsInv, Rebindable
<1>4. /\ new \in Intents /\ Len(new.chain) # 1 /\ new.chain # <<>> /\ Revision(new) = r
  <2>1. Len(i.chain) \in Nat /\ Len(i.chain) # 0
    BY <1>3 DEF RowSound, Intents
  <2>2. /\ new \in Intents /\ Len(new.chain) = Len(i.chain) + 1 /\ new.chain # <<>>
        /\ Revision(new) = r
    BY <1>2, <1>3, ReboundIsIntent
  <2>3. Len(new.chain) # 1
    BY <2>1, <2>2
  <2> QED
    BY <2>2, <2>3
<1>5. new \notin DOMAIN rows
  <2> SUFFICES ASSUME new \in DOMAIN rows
               PROVE  FALSE
    OBVIOUS
  <2>1. PICK j \in DOMAIN rows, n \in Nat : new = Rebound(j, n) /\ rows[j].status = "superseded"
    BY <1>4 DEF RowsInv, RowSound
  <2>2. j = i
    BY <1>2, <1>3, <2>1, ReboundDiffers DEF QueueTypes
  <2> QED
    BY <1>3, <2>1, <2>2
<1>6. PICK s : s = [rows[i] EXCEPT !.status = "superseded"]
  OBVIOUS
<1>7. /\ s \in Rows /\ s.status = "superseded" /\ s.fp = rows[i].fp
      /\ s.count = rows[i].count /\ s.replays = rows[i].replays
  BY <1>3, <1>6 DEF Rows
<1>8. /\ DOMAIN rows' = DOMAIN rows \cup {new} /\ rows'[new] = NewRow(fp) /\ rows'[i] = s
      /\ \A j \in DOMAIN rows \ {i} : rows'[j] = rows[j]
      /\ rows' \in [DOMAIN rows' -> Rows]
  <2>1. rows' = [j \in DOMAIN rows \cup {new} |-> CASE j = new -> NewRow(fp)
                                                    [] j = i   -> s
                                                    [] OTHER   -> rows[j]]
    BY <1>1, <1>2, <1>6 DEF RebindIntent, Supersedes
  <2>2. NewRow(fp) \in Rows
    BY NewRowSound
  <2> QED
    BY <1>3, <1>5, <1>7, <2>1, <2>2 DEF QueueTypes
<1>9. line' = Append(Without(i), new) /\ log' = log
  BY <1>1, <1>2 DEF RebindIntent
<1>10. RowsStep /\ SettledStep
  <2>1. DOMAIN rows \subseteq DOMAIN rows'
    BY <1>8
  <2>2. ASSUME NEW j \in DOMAIN rows
        PROVE  /\ rows[j].status # "unbound" => rows'[j].status # "unbound" /\ rows'[j].fp = rows[j].fp
               /\ rows[j].status \in {"delivered", "superseded"} => rows'[j] = rows[j]
    <3>1. CASE j = i
      BY <1>3, <1>7, <1>8, <3>1
    <3>2. CASE j # i
      BY <1>8, <3>2
    <3> QED
      BY <3>1, <3>2
  <2> QED
    BY <2>1, <2>2 DEF RowsStep, SettledStep
<1>11. RowsInv'
  <2> SUFFICES ASSUME NEW j \in DOMAIN rows'
               PROVE  RowSound(j)'
    BY DEF RowsInv
  <2>1. CASE j = new
    <3>1. \E k \in DOMAIN rows', n \in Nat : new = Rebound(k, n) /\ rows'[k].status = "superseded"
      BY <1>2, <1>3, <1>7, <1>8
    <3>2. (Revision(new) \in DOMAIN alerts)'
      BY <1>4 DEF Revision
    <3>3. 0 < MaxAttempts + 0 /\ 0 <= MaxAttempts + 0
      BY QueueAssumption
    <3> QED
      BY <1>4, <1>8, <2>1, <3>1, <3>2, <3>3, NewRowSound DEF RowSound
  <2>2. CASE j \in DOMAIN rows
    <3>1. RowSound(j)
      BY <2>2 DEF RowsInv
    <3>2. \/ Len(j.chain) = 1
          \/ \E k \in DOMAIN rows', n \in Nat : j = Rebound(k, n) /\ rows'[k].status = "superseded"
      BY <1>7, <1>8, <3>1 DEF RowSound
    <3>3. j.chain # <<>> /\ (Revision(j) \in DOMAIN alerts)'
      BY <3>1 DEF RowSound, Revision
    <3>4. CASE j = i
      <4>1. rows'[j] = s /\ rows[j].count <= MaxAttempts + rows[j].replays
        BY <1>8, <3>1, <3>4 DEF RowSound
      <4> QED
        BY <1>7, <3>2, <3>3, <3>4, <4>1 DEF RowSound
    <3>5. CASE j # i
      <4>1. rows'[j] = rows[j]
        BY <1>8, <2>2, <3>5
      <4> QED
        BY <3>1, <3>2, <3>3, <4>1 DEF RowSound
    <3> QED
      BY <3>4, <3>5
  <2> QED
    BY <1>8, <2>1, <2>2
<1>12. /\ Without(i) \in Seq(Intents) /\ IsInjective(Without(i))
       /\ ToSet(Without(i)) = ToSet(line) \ {i}
  BY WithoutDrops DEF QueueTypes
<1>13. Open \subseteq DOMAIN rows
  BY DEF Open, Sendable, Unbound
<1>14. new \notin ToSet(Without(i))
  BY <1>5, <1>12, <1>13 DEF QueueTypes
<1>15. line' \in Seq(Intents) /\ IsInjective(line') /\ ToSet(line') = ToSet(Without(i)) \cup {new}
  BY <1>4, <1>9, <1>12, <1>14, LineGrows
<1>16. Open \ {i} \subseteq Open' /\ new \in Open'
  BY <1>8, NewRowSound DEF Open, Sendable, Unbound
<1>17. ToSet(line') \subseteq Open'
  BY <1>12, <1>15, <1>16 DEF QueueTypes
<1>18. IsFiniteSet(DOMAIN rows')
  BY <1>8, FS_AddElement DEF QueueTypes
<1>19. QueueTypes'
  BY <1>4, <1>8, <1>9, <1>15, <1>17, <1>18 DEF QueueTypes
<1> QED
  BY <1>10, <1>11, <1>19 DEF QueueStep

\* Time puts intents in line.
LEMMA TimeStep ==
  ASSUME QueueTypes, RowsInv, alerts' = alerts, NEW n, TimePasses(n)
  PROVE  QueueStep
<1> DEFINE waiting == {i \in Open \ ToSet(line) : i.of = n}
<1>1. rows' = rows /\ log' = log /\ \E seq \in Orders(waiting) : line' = line \o seq
  BY DEF TimePasses
<1>2. PICK seq \in Orders(waiting) : line' = line \o seq
  BY <1>1
<1>3. waiting \subseteq DOMAIN rows /\ waiting \cap ToSet(line) = {} /\ waiting \subseteq Open
  BY DEF Open, Sendable, Unbound
<1> HIDE DEF waiting
<1>4. waiting \subseteq Intents /\ IsFiniteSet(waiting)
  BY <1>3, FS_Subset DEF QueueTypes
<1>5. seq \in Seq(Intents) /\ IsInjective(seq) /\ ToSet(seq) \subseteq waiting
  BY <1>4, OrdersAreLines
<1>6. line' \in Seq(Intents) /\ IsInjective(line') /\ ToSet(line') = ToSet(line) \cup ToSet(seq)
  <2>1. ToSet(line) \cap ToSet(seq) = {}
    BY <1>3, <1>5
  <2> QED
    BY <1>2, <1>5, <2>1, LinesJoin DEF QueueTypes
<1>7. Open' = Open
  BY <1>1 DEF Open, Sendable, Unbound
<1>8. QueueTypes'
  BY <1>1, <1>3, <1>5, <1>6, <1>7 DEF QueueTypes
<1>9. RowsInv' /\ RowsStep /\ SettledStep
  BY <1>1 DEF RowsInv, RowSound, Revision, RowsStep, SettledStep
<1> QED
  BY <1>8, <1>9 DEF QueueStep

---------------------------------------------------------------------------
\* What a step leaves as it was.

AlertsKept ==
  /\ Len(alerts) <= Len(alerts')
  /\ \A k \in DOMAIN alerts : k \in DOMAIN alerts' /\ alerts'[k] = alerts[k]

LEMMA AlertsUnchanged ==
  ASSUME ServiceTypes, alerts' = alerts
  PROVE  AlertsKept
BY DEF AlertsKept, ServiceTypes

LEMMA ListingKept ==
  ASSUME RowsStep, NEW item, Listing(item)
  PROVE  Listing(item)'
BY DEF RowsStep, Listing

\* Who takes no step stays as sound as it was, whatever becomes of the rows.
LEMMA PlaceKept ==
  ASSUME ServiceTypes, RowsInv, RowsStep, AlertsKept,
         NEW q \in Procs, PlaceSound(q), st'[q] = st[q], env'[q] = env[q]
  PROVE  PlaceSound(q)'
<1>1. \A k \in DOMAIN st[q].todo : Listing(st[q].todo[k])'
  BY ListingKept DEF PlaceSound
<1>2. st[q] \in Places
  BY DEF ServiceTypes
<1>3. st[q].pc = "analyze" => st[q].alert \in DOMAIN alerts'
  BY DEF PlaceSound, AlertsKept
<1>4. st[q].alert <= Len(alerts')
  BY <1>2 DEF PlaceSound, AlertsKept, Places, ServiceTypes
<1>5. ASSUME st[q].pc \in Sending
      PROVE  (Fingerprint(alerts[Revision(Item(q).id)], q) = Item(q).fp)'
  <2>1. /\ st[q].todo # <<>>
        /\ Fingerprint(alerts[Revision(Item(q).id)], q) = Item(q).fp
    BY <1>5 DEF PlaceSound
  <2>2. st[q].todo \in Seq(Items)
    BY <1>2 DEF Places
  <2>3. 1 \in DOMAIN st[q].todo /\ Item(q) = st[q].todo[1]
    BY <2>1, <2>2 DEF Item
  <2>4. Revision(Item(q).id) \in DOMAIN alerts
    BY <2>3 DEF PlaceSound, Listing, RowsInv, RowSound
  <2>5. Item(q)' = Item(q)
    BY DEF Item
  <2>6. alerts'[Revision(Item(q).id)] = alerts[Revision(Item(q).id)]
    BY <2>4 DEF AlertsKept
  <2> QED
    BY <2>1, <2>5, <2>6 DEF Fingerprint, Revision
<1> QED
  BY <1>1, <1>3, <1>4, <1>5 DEF PlaceSound

\* What is sent stays bound to where it was sent.
LEMMA SentKept ==
  ASSUME QueueTypes, ServiceTypes, RowsInv, RowsStep, SentIsBound, accepted' = accepted
  PROVE  SentIsBound'
<1> SUFFICES ASSUME NEW to \in accepted
             PROVE  \E i \in DOMAIN rows' : <<i.of, rows'[i].fp>> = to
  BY DEF SentIsBound
<1>1. PICK i \in DOMAIN rows : <<i.of, rows[i].fp>> = to
  BY DEF SentIsBound
<1>2. rows[i].fp \in Endpoints
  BY <1>1 DEF ServiceTypes
<1>3. rows[i].fp # None
  BY <1>2, QueueAssumption
<1>4. rows[i].status # "unbound"
  BY <1>3 DEF RowsInv, RowSound
<1> QED
  BY <1>1, <1>4 DEF RowsStep

AtRest(p) == st[p].pc \in {"idle", "once"}

\* Only one process is at work while nobody has lost the guard.
LEMMA OthersRest ==
  ASSUME PlacesInv, HolderInv, ~lost, NEW p \in Procs, ~AtRest(p) \/ guard \in {p, None},
         NEW q \in Procs, q # p
  PROVE  AtRest(q) /\ st[q].second = FALSE
<1>1. HolderSound(p) /\ HolderSound(q) /\ PlaceSound(q)
  BY DEF HolderInv, PlacesInv
<1>2. None \notin Procs
  BY ServiceAssumption
<1>3. AtRest(q)
  BY <1>1, <1>2 DEF HolderSound, AtRest
<1> QED
  BY <1>1, <1>3 DEF PlaceSound, AtRest

\* Who takes no step stays as sound a holder, or at rest.
LEMMA HolderKept ==
  ASSUME PlacesInv, HolderInv, ~lost, NEW p \in Procs, NEW q \in Procs, q # p, st'[q] = st[q],
         \/ ~AtRest(p) \/ guard \in {p, None}
         \/ UNCHANGED <<rows, log, alerts, cycle, guard>>
  PROVE  HolderSound(q)'
<1>1. CASE ~AtRest(p) \/ guard \in {p, None}
  <2>1. AtRest(q) /\ st[q].second = FALSE
    BY <1>1, OthersRest
  <2> QED
    BY <2>1 DEF HolderSound, AtRest, Sending
<1>2. CASE UNCHANGED <<rows, log, alerts, cycle, guard>>
  <2>1. HolderSound(q)
    BY DEF HolderInv
  <2>2. Item(q)' = Item(q) /\ Sendable' = Sendable /\ Alert' = Alert
    BY <1>2 DEF Item, Sendable, Alert
  <2> QED
    BY <1>2, <2>1, <2>2 DEF HolderSound, Revision
<1> QED
  BY <1>1, <1>2

\* A step of process p.
LEMMA StepKeeps ==
  ASSUME QueueInv, QueueStep, AlertsKept, ServiceTypes', SentIsBound',
         NEW p \in Procs, \A q \in Procs \ {p} : st'[q] = st[q] /\ env'[q] = env[q],
         PlaceSound(p)', lost' = lost, ~lost => HolderSound(p)',
         \/ ~AtRest(p) \/ guard \in {p, None}
         \/ UNCHANGED <<rows, log, alerts, cycle, guard>>
  PROVE  QueueInv' /\ SettledStep
<1>1. QueueTypes' /\ RowsInv' /\ RowsStep /\ SettledStep
  BY DEF QueueStep
<1>2. PlacesInv'
  <2> SUFFICES ASSUME NEW q \in Procs
               PROVE  PlaceSound(q)'
    BY DEF PlacesInv
  <2>1. CASE q # p
    BY <1>1, <2>1, PlaceKept DEF QueueInv, PlacesInv
  <2> QED
    BY <2>1
<1>3. HolderInv'
  <2> SUFFICES ASSUME ~lost, NEW q \in Procs
               PROVE  HolderSound(q)'
    BY DEF HolderInv
  <2>1. CASE q # p
    BY <2>1, HolderKept DEF QueueInv
  <2> QED
    BY <2>1
<1> QED
  BY <1>1, <1>2, <1>3 DEF QueueInv

\* A step that is none of a process.
LEMMA OutsideKeeps ==
  ASSUME QueueInv, QueueStep, AlertsKept, ServiceTypes', accepted' = accepted,
         st' = st, env' = env,
         ~lost' => ~lost /\ \A q \in Procs : HolderSound(q)'
  PROVE  QueueInv' /\ SettledStep
<1>1. QueueTypes' /\ RowsInv' /\ RowsStep /\ SettledStep
  BY DEF QueueStep
<1>2. PlacesInv'
  <2> SUFFICES ASSUME NEW q \in Procs
               PROVE  PlaceSound(q)'
    BY DEF PlacesInv
  <2> QED
    BY <1>1, PlaceKept DEF QueueInv, PlacesInv
<1>3. SentIsBound'
  BY <1>1, SentKept DEF QueueInv
<1> QED
  BY <1>1, <1>2, <1>3 DEF QueueInv, HolderInv

---------------------------------------------------------------------------
\* Where processes go.

Pcs == {"idle", "once"} \cup AtWork \cup Asked

LEMMA Going ==
  ASSUME ServiceTypes, NEW p \in Procs, NEW pc \in Pcs, Goes(p, pc)
  PROVE  /\ st' \in [Procs -> Places] /\ \A q \in Procs \ {p} : st'[q] = st[q]
         /\ st'[p].pc = pc /\ st'[p].todo = st[p].todo /\ st'[p].second = st[p].second
         /\ st'[p].alert = st[p].alert
<1>1. PICK h : h = [st[p] EXCEPT !.pc = pc]
  OBVIOUS
<1>2. st[p] \in Places
  BY DEF ServiceTypes
<1>3. /\ h \in Places /\ h.pc = pc /\ h.todo = st[p].todo /\ h.second = st[p].second
      /\ h.alert = st[p].alert
  BY <1>1, <1>2 DEF Places, Pcs
<1>4. st' = [st EXCEPT ![p] = h]
  BY <1>1 DEF Goes, ServiceTypes
<1> QED
  BY <1>3, <1>4 DEF ServiceTypes

LEMMA GoingOn ==
  ASSUME ServiceTypes, NEW p \in Procs, NEW pc \in Pcs, st[p].todo # <<>>, NextItem(p, pc)
  PROVE  /\ st' \in [Procs -> Places] /\ \A q \in Procs \ {p} : st'[q] = st[q]
         /\ st'[p].pc = pc /\ st'[p].todo = Tail(st[p].todo) /\ st'[p].second = st[p].second
         /\ st'[p].alert = st[p].alert
<1>1. PICK t : t = Tail(st[p].todo)
  OBVIOUS
<1>2. PICK h : h = [st[p] EXCEPT !.pc = pc, !.todo = t]
  OBVIOUS
<1>3. st[p] \in Places
  BY DEF ServiceTypes
<1>4. t \in Seq(Items)
  BY <1>1, <1>3 DEF Places
<1>5. /\ h \in Places /\ h.pc = pc /\ h.todo = t /\ h.second = st[p].second
      /\ h.alert = st[p].alert
  BY <1>2, <1>3, <1>4 DEF Places, Pcs
<1>6. st' = [st EXCEPT ![p] = h]
  BY <1>1, <1>2 DEF NextItem, ServiceTypes
<1> QED
  BY <1>1, <1>5, <1>6 DEF ServiceTypes

LEMMA GoingWith ==
  ASSUME ServiceTypes, NEW p \in Procs, NEW pc \in Pcs, NEW list \in Seq(Items),
         st' = [st EXCEPT ![p].pc = pc, ![p].todo = list]
  PROVE  /\ st' \in [Procs -> Places] /\ \A q \in Procs \ {p} : st'[q] = st[q]
         /\ st'[p].pc = pc /\ st'[p].todo = list /\ st'[p].second = st[p].second
         /\ st'[p].alert = st[p].alert
<1>1. PICK h : h = [st[p] EXCEPT !.pc = pc, !.todo = list]
  OBVIOUS
<1>2. st[p] \in Places
  BY DEF ServiceTypes
<1>3. /\ h \in Places /\ h.pc = pc /\ h.todo = list /\ h.second = st[p].second
      /\ h.alert = st[p].alert
  BY <1>1, <1>2 DEF Places, Pcs
<1>4. st' = [st EXCEPT ![p] = h]
  BY <1>1 DEF ServiceTypes
<1> QED
  BY ZenonT(40), <1>3, <1>4 DEF ServiceTypes

LEMMA Moved ==
  ASSUME ServiceTypes, NEW p \in Procs, NEW h \in Places, st' = [st EXCEPT ![p] = h]
  PROVE  st' \in [Procs -> Places] /\ st'[p] = h /\ \A q \in Procs \ {p} : st'[q] = st[q]
BY DEF ServiceTypes

LEMMA IdleIsPlace ==
  /\ Idle \in Places /\ Idle.pc = "idle" /\ Idle.todo = <<>> /\ Idle.second = FALSE /\ Idle.alert = 0
  /\ DOMAIN Idle.todo = {}
BY DEF Idle, Places

\* A process at rest.
LEMMA IdleSound ==
  ASSUME NEW p \in Procs, st'[p] = Idle, Len(alerts') \in Nat
  PROVE  PlaceSound(p)' /\ HolderSound(p)'
<1>1. 0 <= Len(alerts')
  OBVIOUS
<1> QED
  BY <1>1, IdleIsPlace DEF PlaceSound, HolderSound, ItemsDiffer, Sending, AtWork, Asked

\* A process at work, or before, that sends nothing.
LEMMA PlaceMoves ==
  ASSUME ServiceTypes, RowsStep, AlertsKept, NEW p \in Workers, PlaceSound(p),
         st'[p].pc \in {"once", "drain", "unbound", "plan", "analyze", "status", "cadence"},
         st'[p].pc = "once" => st'[p].second = FALSE,
         st'[p].todo = st[p].todo \/ st'[p].todo = <<>>,
         \/ st'[p].alert = st[p].alert /\ st'[p].pc # "analyze"
         \/ st'[p].alert = 0 /\ st'[p].pc # "analyze"
         \/ st'[p].alert = Len(alerts') /\ Len(alerts') \in DOMAIN alerts'
  PROVE  PlaceSound(p)'
<1>1. p \in Procs /\ st[p] \in Places
  BY DEF ServiceTypes, Procs
<1>2. (/\ \A k \in DOMAIN st[p].todo : Listing(st[p].todo[k])
       /\ ItemsDiffer(st[p].todo))'
  <2>1. CASE st'[p].todo = st[p].todo
    <3>1. PICK t : t = st[p].todo
      OBVIOUS
    <3>2. \A k \in DOMAIN t : Listing(t[k])'
      BY <3>1, ListingKept DEF PlaceSound
    <3> QED
      BY <2>1, <3>1, <3>2 DEF PlaceSound
  <2>2. CASE st'[p].todo = <<>>
    BY <2>2 DEF ItemsDiffer
  <2> QED
    BY <2>1, <2>2
<1>3. st'[p].alert <= Len(alerts')
  <2>1. st[p].alert <= Len(alerts) /\ Len(alerts) <= Len(alerts') /\ st[p].alert \in Nat
    BY <1>1 DEF PlaceSound, AlertsKept, Places
  <2>2. Len(alerts) \in Nat
    BY DEF ServiceTypes
  <2>3. st[p].alert <= Len(alerts') /\ 0 <= Len(alerts')
    BY <2>1, <2>2
  <2> QED
    BY <2>3
<1>4. st'[p].pc = "analyze" => st'[p].alert \in DOMAIN alerts'
  OBVIOUS
<1> QED
  BY <1>1, <1>2, <1>3, <1>4 DEF PlaceSound, Sending, Asked, AtWork

LEMMA HolderMoves ==
  ASSUME NEW p \in Procs,
         st'[p].pc \in {"drain", "unbound", "plan", "analyze", "status", "cadence"},
         guard' = p,
         st'[p].pc # "cadence" /\ (st'[p].second \/ st'[p].pc \in {"analyze", "status"})
           => cycle' = "started"
  PROVE  HolderSound(p)'
BY DEF HolderSound, Sending

\* The item at hand, and those behind it.
LEMMA ItemSound ==
  ASSUME QueueTypes, ServiceTypes, RowsInv, NEW p \in Procs, PlaceSound(p), st[p].todo # <<>>
  PROVE  /\ 1 \in DOMAIN st[p].todo /\ Item(p) = st[p].todo[1] /\ Item(p) \in Items
         /\ Listing(Item(p)) /\ Revision(Item(p).id) \in DOMAIN alerts
         /\ Item(p).id \in Intents
<1>1. st[p].todo \in Seq(Items)
  BY DEF ServiceTypes, Places
<1>2. 1 \in DOMAIN st[p].todo /\ Item(p) = st[p].todo[1] /\ Item(p) \in Items
  BY <1>1 DEF Item
<1>3. Listing(Item(p))
  BY <1>2 DEF PlaceSound
<1> QED
  BY <1>2, <1>3 DEF Listing, RowsInv, RowSound, QueueTypes

LEMMA RestOfList ==
  ASSUME ServiceTypes, NEW p \in Procs, PlaceSound(p), st[p].todo # <<>>
  PROVE  /\ \A k \in DOMAIN Tail(st[p].todo) :
              \E m \in DOMAIN st[p].todo :
                 Tail(st[p].todo)[k] = st[p].todo[m] /\ st[p].todo[m].id # Item(p).id
         /\ ItemsDiffer(Tail(st[p].todo))
<1>1. PICK s : s = st[p].todo
  OBVIOUS
<1>2. s \in Seq(Items) /\ s # <<>> /\ Item(p) = s[1] /\ ItemsDiffer(s)
  BY <1>1 DEF ServiceTypes, Places, Item, PlaceSound
<1>3. Tail(s) \in Seq(Items) /\ Len(Tail(s)) = Len(s) - 1 /\ Len(s) \in Nat /\ Len(s) # 0
  BY <1>2
<1>4. \A k \in 1..(Len(s) - 1) : Tail(s)[k] = s[k + 1] /\ k + 1 \in 1..Len(s) /\ k + 1 # 1
  BY <1>2, <1>3
<1>5. DOMAIN Tail(s) = 1..(Len(s) - 1) /\ DOMAIN s = 1..Len(s)
  BY <1>2, <1>3, LenProperties
<1>6. 1 \in 1..Len(s)
  BY <1>3
<1>7. \A k \in DOMAIN Tail(s) : \E m \in DOMAIN s : Tail(s)[k] = s[m] /\ s[m].id # Item(p).id
  BY <1>2, <1>4, <1>5, <1>6 DEF ItemsDiffer
<1>8. ItemsDiffer(Tail(s))
  <2> SUFFICES ASSUME NEW j \in 1..(Len(s) - 1), NEW k \in 1..(Len(s) - 1), j # k
               PROVE  Tail(s)[j].id # Tail(s)[k].id
    BY <1>5 DEF ItemsDiffer
  <2>1. j + 1 # k + 1 /\ j + 1 \in DOMAIN s /\ k + 1 \in DOMAIN s
    BY <1>4, <1>5
  <2> QED
    BY <1>2, <1>4, <2>1 DEF ItemsDiffer
<1> QED
  BY <1>1, <1>7, <1>8

\* The next item of the list.
LEMMA NextPlace ==
  ASSUME ServiceTypes, RowsStep, AlertsKept, NEW p \in Workers, PlaceSound(p),
         st[p].todo # <<>>, st'[p].todo = Tail(st[p].todo), st'[p].alert = st[p].alert,
         \/ st'[p].pc = "unbound"
         \/ st'[p].pc = "due" /\ st[p].pc \in Sending \cup {"due"}
  PROVE  PlaceSound(p)'
<1>1. p \in Procs /\ st[p] \in Places
  BY DEF ServiceTypes, Procs
<1>2. /\ \A k \in DOMAIN st'[p].todo : \E m \in DOMAIN st[p].todo : st'[p].todo[k] = st[p].todo[m]
      /\ ItemsDiffer(st'[p].todo)
  BY <1>1, RestOfList
<1>3. (\A k \in DOMAIN st[p].todo : Listing(st[p].todo[k]))'
  <2>1. PICK t : t = st'[p].todo
    OBVIOUS
  <2>2. \A k \in DOMAIN t : Listing(t[k])'
    BY <1>2, <2>1, ListingKept DEF PlaceSound
  <2> QED
    BY <2>1, <2>2
<1>4. st'[p].alert <= Len(alerts')
  <2>1. st[p].alert <= Len(alerts) /\ Len(alerts) <= Len(alerts') /\ st[p].alert \in Nat
    BY <1>1 DEF PlaceSound, AlertsKept, Places
  <2>2. Len(alerts) \in Nat
    BY DEF ServiceTypes
  <2> QED
    BY <2>1, <2>2
<1>5. st'[p].pc = "due" => \A k \in DOMAIN st'[p].todo : st'[p].todo[k].status \in {"pending", "failed"}
  BY <1>2 DEF PlaceSound
<1>6. st'[p].pc \in AtWork /\ st'[p].pc \notin Sending \cup Asked \cup {"idle", "once", "analyze"}
  BY DEF AtWork, Sending, Asked
<1> QED
  BY <1>1, <1>2, <1>3, <1>4, <1>5, <1>6 DEF PlaceSound

\* Its row aside, no row of the list has changed.
LEMMA NextHolder ==
  ASSUME ServiceTypes, NEW p \in Workers, PlaceSound(p), HolderSound(p), st[p].todo # <<>>,
         st'[p].todo = Tail(st[p].todo), st'[p].second = st[p].second,
         \A j \in DOMAIN rows \ {Item(p).id} : j \in DOMAIN rows' /\ rows'[j] = rows[j],
         guard' = guard, cycle' = cycle, st[p].pc \in AtWork \ {"cadence", "analyze", "status"},
         \/ st'[p].pc = "unbound"
         \/ st'[p].pc = "due" /\ st[p].pc \in Sending \cup {"due"}
  PROVE  HolderSound(p)'
<1>1. p \in Procs
  BY DEF Procs
<1>2. \A k \in DOMAIN st'[p].todo : \E m \in DOMAIN st[p].todo :
        st'[p].todo[k] = st[p].todo[m] /\ st[p].todo[m].id # Item(p).id
  BY <1>1, RestOfList
<1>3. st[p].pc \notin {"idle", "once"} /\ guard' = p
  BY DEF HolderSound, AtWork
<1>4. st'[p].pc = "due" => \A k \in DOMAIN st'[p].todo :
         /\ st'[p].todo[k].id \in Sendable'
         /\ rows'[st'[p].todo[k].id].count = st'[p].todo[k].count
  BY <1>2 DEF HolderSound, Sendable
<1>5. st'[p].second => cycle' = "started"
  BY DEF HolderSound, AtWork
<1> QED
  BY <1>3, <1>4, <1>5 DEF HolderSound, Sending

LEMMA ServiceKept ==
  ASSUME ServiceTypes, st' \in [Procs -> Places], guard' \in Procs \cup {None},
         UNCHANGED <<accepted, controlVars, cycleVars, env, lost>>,
         events' = events \/ Happens
  PROVE  ServiceTypes' /\ AlertsKept
<1>1. UNCHANGED <<accepted, alerts, plan, due, cycle, env, lost>>
  BY DEF controlVars, cycleVars
<1>2. events' \in 0..MaxEvents
  BY ServiceAssumption DEF ServiceTypes, Happens
<1> QED
  BY <1>1, <1>2 DEF ServiceTypes, AlertsKept

---------------------------------------------------------------------------
\* The steps of the worker.

LEMMA PollSound ==
  ASSUME QueueInv, NEW w \in Workers, Poll(w)
  PROVE  QueueInv' /\ SettledStep
<1>1. w \in Procs /\ QueueTypes /\ ServiceTypes /\ RowsInv /\ PlaceSound(w) /\ st[w] \in Places
  BY DEF QueueInv, PlacesInv, ServiceTypes, Procs
<1>2. PICK h : h = [Idle EXCEPT !.pc = "drain"]
  OBVIOUS
<1>3. h \in Places /\ h.pc = "drain" /\ h.todo = <<>> /\ h.second = FALSE /\ h.alert = 0
  BY <1>2, IdleIsPlace DEF Places, AtWork
<1>4. /\ guard = None /\ guard' = w /\ st' = [st EXCEPT ![w] = h]
      /\ UNCHANGED <<queueVars, controlVars, cycleVars, env, lost, accepted, events>>
  BY <1>2 DEF Poll, Acquires
<1>5. st' \in [Procs -> Places] /\ st'[w] = h /\ \A q \in Procs \ {w} : st'[q] = st[q]
  BY <1>1, <1>3, <1>4, Moved
<1>6. ServiceTypes' /\ AlertsKept
  BY <1>1, <1>4, <1>5, ServiceKept
<1>7. QueueStep
  BY <1>1, <1>4, NothingStep DEF controlVars
<1>8. PlaceSound(w)'
  BY <1>1, <1>3, <1>5, <1>6, <1>7, PlaceMoves DEF QueueStep
<1>9. HolderSound(w)'
  BY <1>1, <1>3, <1>4, <1>5, HolderMoves
<1>10. SentIsBound'
  BY <1>1, <1>4, <1>7, SentKept DEF QueueInv, QueueStep
<1> QED
  BY <1>1, <1>4, <1>5, <1>6, <1>7, <1>8, <1>9, <1>10, StepKeeps

LEMMA ReadPlanSound ==
  ASSUME QueueInv, NEW w \in Workers, ReadPlan(w)
  PROVE  QueueInv' /\ SettledStep
<1>1. w \in Procs /\ QueueTypes /\ ServiceTypes /\ RowsInv /\ PlaceSound(w) /\ st[w] \in Places
  BY DEF QueueInv, PlacesInv, ServiceTypes, Procs
<1>2. PICK h : h = [Idle EXCEPT !.pc = "once", !.plan = plan.revision, !.once = TRUE]
  OBVIOUS
<1>3. h \in Places /\ h.pc = "once" /\ h.todo = <<>> /\ h.second = FALSE /\ h.alert = 0
  <2>1. plan.revision \in Nat
    BY <1>1 DEF ServiceTypes
  <2> QED
    BY <1>2, <2>1, IdleIsPlace DEF Places
<1>4. /\ Happens /\ st' = [st EXCEPT ![w] = h]
      /\ UNCHANGED <<queueVars, controlVars, cycleVars, env, guard, lost, accepted>>
  BY <1>2 DEF ReadPlan
<1>5. st' \in [Procs -> Places] /\ st'[w] = h /\ \A q \in Procs \ {w} : st'[q] = st[q]
  BY <1>1, <1>3, <1>4, Moved
<1>6. ServiceTypes' /\ AlertsKept
  BY <1>1, <1>4, <1>5, ServiceKept DEF ServiceTypes
<1>7. QueueStep
  BY <1>1, <1>4, NothingStep DEF controlVars
<1>8. PlaceSound(w)'
  BY <1>1, <1>3, <1>5, <1>6, <1>7, PlaceMoves DEF QueueStep
<1>9. HolderSound(w)'
  BY <1>3, <1>5 DEF HolderSound, Sending
<1>10. SentIsBound'
  BY <1>1, <1>4, <1>7, SentKept DEF QueueInv, QueueStep
<1>11. UNCHANGED <<rows, log, alerts, cycle, guard>> /\ lost' = lost /\ env' = env
  BY <1>4 DEF queueVars, controlVars, cycleVars
<1> QED
  BY <1>1, <1>5, <1>6, <1>7, <1>8, <1>9, <1>10, <1>11, StepKeeps

LEMMA RunOnceSound ==
  ASSUME QueueInv, NEW w \in Workers, RunOnce(w)
  PROVE  QueueInv' /\ SettledStep
<1>1. w \in Procs /\ QueueTypes /\ ServiceTypes /\ RowsInv /\ PlaceSound(w) /\ st[w] \in Places
  BY DEF QueueInv, PlacesInv, ServiceTypes, Procs
<1>2. /\ UNCHANGED <<queueVars, controlVars, cycleVars, env, lost, accepted, events>>
      /\ st[w].pc = "once"
  BY DEF RunOnce, At
<1>3. QueueStep
  BY <1>1, <1>2, NothingStep DEF controlVars
<1>4. SentIsBound'
  BY <1>1, <1>2, <1>3, SentKept DEF QueueInv, QueueStep
<1>5. CASE guard = None
  <2>1. guard' = w /\ Goes(w, "drain")
    BY <1>5 DEF RunOnce
  <2>2. /\ st' \in [Procs -> Places] /\ \A q \in Procs \ {w} : st'[q] = st[q]
        /\ st'[w].pc = "drain" /\ st'[w].todo = st[w].todo /\ st'[w].second = st[w].second
        /\ st'[w].alert = st[w].alert
    BY <1>1, <2>1, Going DEF Pcs, AtWork
  <2>3. ServiceTypes' /\ AlertsKept
    BY <1>1, <1>2, <2>1, <2>2, ServiceKept
  <2>4. PlaceSound(w)'
    BY <1>1, <1>3, <2>2, <2>3, PlaceMoves DEF QueueStep
  <2>5. st[w].second = FALSE
    BY <1>1, <1>2 DEF PlaceSound
  <2>6. HolderSound(w)'
    BY <1>1, <2>1, <2>2, <2>5, HolderMoves
  <2> QED
    BY <1>1, <1>2, <1>3, <1>4, <1>5, <2>2, <2>3, <2>4, <2>6, StepKeeps
<1>6. CASE guard # None
  <2>1. st' = [st EXCEPT ![w] = Idle] /\ guard' = guard
    BY <1>6 DEF RunOnce
  <2>2. st' \in [Procs -> Places] /\ st'[w] = Idle /\ \A q \in Procs \ {w} : st'[q] = st[q]
    BY <1>1, <2>1, IdleIsPlace, Moved
  <2>3. ServiceTypes' /\ AlertsKept
    BY <1>1, <1>2, <2>1, <2>2, ServiceKept DEF ServiceTypes
  <2>4. PlaceSound(w)' /\ HolderSound(w)'
    BY <1>1, <2>2, <2>3, IdleSound DEF ServiceTypes
  <2>5. UNCHANGED <<rows, log, alerts, cycle, guard>> /\ lost' = lost /\ env' = env
    BY <1>2, <2>1 DEF queueVars, controlVars, cycleVars
  <2> QED
    BY <1>1, <1>3, <1>4, <2>2, <2>3, <2>4, <2>5, StepKeeps
<1> QED
  BY <1>5, <1>6

\* What is listed is what is stored.
LEMMA SnapshotsSound ==
  ASSUME QueueTypes, RowsInv, NEW seq \in Seq(Intents), IsInjective(seq),
         \A k \in DOMAIN seq : seq[k] \in Open
  PROVE  /\ Listed(seq) \in Seq(Items) /\ ItemsDiffer(Listed(seq)) /\ DOMAIN Listed(seq) = DOMAIN seq
         /\ \A k \in DOMAIN seq :
              /\ Listing(Listed(seq)[k])
              /\ Listed(seq)[k].id = seq[k] /\ Listed(seq)[k].status = rows[seq[k]].status
              /\ Listed(seq)[k].count = rows[seq[k]].count
<1>1. PICK s : s = Listed(seq)
  OBVIOUS
<1>2. /\ DOMAIN s = DOMAIN seq
      /\ \A k \in DOMAIN seq : /\ s[k].id = seq[k] /\ s[k].status = rows[seq[k]].status
                               /\ s[k].count = rows[seq[k]].count /\ s[k].fp = rows[seq[k]].fp
  BY <1>1 DEF Listed, Snapshot
<1>3. \A k \in DOMAIN seq : seq[k] \in DOMAIN rows /\ rows[seq[k]] \in Rows /\ RowSound(seq[k])
  BY DEF Open, Sendable, Unbound, QueueTypes, RowsInv
<1>4. s \in Seq(Items)
  <2>1. Len(seq) \in Nat /\ DOMAIN seq = 1..Len(seq)
    BY LenProperties
  <2>2. \A k \in DOMAIN seq : Snapshot(seq[k]) \in Items
    BY <1>3 DEF Snapshot, Items, Rows, QueueTypes
  <2>3. s \in [1..Len(seq) -> Items]
    BY <1>1, <2>1, <2>2 DEF Listed
  <2> QED
    BY <2>1, <2>3, SeqDef
<1>5. ItemsDiffer(s)
  BY <1>2 DEF ItemsDiffer, IsInjective
<1>6. \A k \in DOMAIN seq : Listing(s[k])
  BY <1>2, <1>3 DEF Listing, RowSound
<1> QED
  BY <1>1, <1>2, <1>4, <1>5, <1>6

LEMMA InLineSound ==
  ASSUME QueueTypes, NEW S, S \subseteq DOMAIN rows, NEW seq \in InLine(S)
  PROVE  seq \in Seq(Intents) /\ IsInjective(seq) /\ \A k \in DOMAIN seq : seq[k] \in S
<1>1. S \cap ToSet(line) \subseteq Intents /\ IsFiniteSet(S \cap ToSet(line))
  BY FS_Subset DEF QueueTypes
<1>2. seq \in Orders(S \cap ToSet(line))
  BY DEF InLine
<1>3. seq \in Seq(Intents) /\ IsInjective(seq) /\ ToSet(seq) \subseteq S \cap ToSet(line)
  BY <1>1, <1>2, OrdersAreLines
<1> QED
  BY <1>3 DEF ToSet

LEMMA ListToProbeSound ==
  ASSUME QueueInv, NEW w \in Workers, ListToProbe(w)
  PROVE  QueueInv' /\ SettledStep
<1>1. w \in Procs /\ QueueTypes /\ ServiceTypes /\ RowsInv /\ PlaceSound(w) /\ st[w] \in Places
  BY DEF QueueInv, PlacesInv, ServiceTypes, Procs
<1>2. /\ UNCHANGED <<queueVars, controlVars, cycleVars, env, guard, lost, accepted, events>>
      /\ st[w].pc = "drain"
  BY DEF ListToProbe, At
<1>3. PICK list \in ListUnbound : st' = [st EXCEPT ![w].pc = "unbound", ![w].todo = list]
  BY DEF ListToProbe
<1>4. PICK seq \in InLine(Unbound) : list = Listed(seq)
  BY <1>3 DEF ListUnbound
<1>5. Unbound \subseteq DOMAIN rows /\ Unbound \subseteq Open
  BY DEF Unbound, Open
<1>6. seq \in Seq(Intents) /\ IsInjective(seq) /\ \A k \in DOMAIN seq : seq[k] \in Open
  BY <1>1, <1>5, InLineSound
<1>7. list \in Seq(Items) /\ ItemsDiffer(list) /\ \A k \in DOMAIN list : Listing(list[k])
  BY <1>1, <1>4, <1>6, SnapshotsSound
<1>8. /\ st' \in [Procs -> Places] /\ \A q \in Procs \ {w} : st'[q] = st[q]
      /\ st'[w].pc = "unbound" /\ st'[w].todo = list /\ st'[w].second = st[w].second
      /\ st'[w].alert = st[w].alert
  BY <1>1, <1>3, <1>7, GoingWith DEF Pcs, AtWork
<1>9. QueueStep
  BY <1>1, <1>2, NothingStep DEF controlVars
<1>10. SentIsBound'
  BY <1>1, <1>2, <1>9, SentKept DEF QueueInv, QueueStep
<1>11. ServiceTypes' /\ AlertsKept
  BY <1>1, <1>2, <1>8, ServiceKept DEF ServiceTypes
<1>12. PlaceSound(w)'
  <2>1. \A k \in DOMAIN list : Listing(list[k])'
    BY <1>7, <1>9, ListingKept DEF QueueStep
  <2>2. st[w].alert <= Len(alerts')
    BY <1>1, <1>2 DEF PlaceSound, controlVars
  <2> QED
    BY <1>7, <1>8, <2>1, <2>2 DEF PlaceSound, AtWork, Asked, Sending
<1>13. ~lost => HolderSound(w)'
  <2> SUFFICES ASSUME ~lost
               PROVE  HolderSound(w)'
    OBVIOUS
  <2>1. HolderSound(w)
    BY <1>1 DEF QueueInv, HolderInv
  <2>2. guard' = w /\ (st'[w].second => cycle' = "started")
    BY <1>2, <1>8, <2>1 DEF HolderSound, cycleVars
  <2> QED
    BY <1>1, <1>8, <2>2, HolderMoves
<1> QED
  BY <1>1, <1>2, <1>8, <1>9, <1>10, <1>11, <1>12, <1>13, StepKeeps DEF AtRest

LEMMA ListToSendSound ==
  ASSUME QueueInv, NEW w \in Workers, ListToSend(w)
  PROVE  QueueInv' /\ SettledStep
<1>1. w \in Procs /\ QueueTypes /\ ServiceTypes /\ RowsInv /\ PlaceSound(w) /\ st[w] \in Places
  BY DEF QueueInv, PlacesInv, ServiceTypes, Procs
<1>2. /\ UNCHANGED <<queueVars, controlVars, cycleVars, env, guard, lost, accepted, events>>
      /\ st[w].pc = "unbound"
  BY DEF ListToSend, At
<1>3. PICK list \in ListDue(SendBudget) : st' = [st EXCEPT ![w].pc = "due", ![w].todo = list]
  BY DEF ListToSend
<1>4. PICK seq \in InLine(Sendable) :
        list = Listed([k \in 1..(IF Len(seq) < SendBudget THEN Len(seq) ELSE SendBudget) |-> seq[k]])
  BY <1>3 DEF ListDue
<1>5. PICK n : n = IF Len(seq) < SendBudget THEN Len(seq) ELSE SendBudget
  OBVIOUS
<1>6. PICK page : page = [k \in 1..n |-> seq[k]]
  OBVIOUS
<1>7. Sendable \subseteq DOMAIN rows /\ Sendable \subseteq Open
  BY DEF Sendable, Open
<1>8. seq \in Seq(Intents) /\ IsInjective(seq) /\ \A k \in DOMAIN seq : seq[k] \in Sendable
  BY <1>1, <1>7, InLineSound
<1>9. /\ page \in Seq(Intents) /\ IsInjective(page) /\ \A k \in DOMAIN page : page[k] \in Sendable
  <2>1. n \in Nat /\ 1..n \subseteq DOMAIN seq
    BY <1>5, <1>8, LenProperties, ServiceAssumption
  <2>2. page \in [1..n -> Intents]
    BY <1>6, <1>8, <2>1
  <2> QED
    BY <1>6, <1>8, <2>1, <2>2, SeqDef DEF IsInjective
<1>10. list = Listed(page)
  BY <1>4, <1>5, <1>6
<1>11. \A k \in DOMAIN page : page[k] \in Open
  BY <1>7, <1>9
<1>12. /\ list \in Seq(Items) /\ ItemsDiffer(list) /\ \A k \in DOMAIN list : Listing(list[k])
       /\ \A k \in DOMAIN list : /\ list[k].status \in {"pending", "failed"} /\ list[k].id \in Sendable
                                 /\ rows[list[k].id].count = list[k].count
  BY <1>1, <1>9, <1>10, <1>11, SnapshotsSound DEF Sendable
<1>13. /\ st' \in [Procs -> Places] /\ \A q \in Procs \ {w} : st'[q] = st[q]
       /\ st'[w].pc = "due" /\ st'[w].todo = list /\ st'[w].second = st[w].second
       /\ st'[w].alert = st[w].alert
  BY <1>1, <1>3, <1>12, GoingWith DEF Pcs, AtWork
<1>14. QueueStep
  BY <1>1, <1>2, NothingStep DEF controlVars
<1>15. SentIsBound'
  BY <1>1, <1>2, <1>14, SentKept DEF QueueInv, QueueStep
<1>16. ServiceTypes' /\ AlertsKept
  BY <1>1, <1>2, <1>13, ServiceKept DEF ServiceTypes
<1>17. PlaceSound(w)'
  <2>1. \A k \in DOMAIN list : Listing(list[k])'
    BY <1>12, <1>14, ListingKept DEF QueueStep
  <2>2. st[w].alert <= Len(alerts')
    BY <1>1, <1>2 DEF PlaceSound, controlVars
  <2> QED
    BY <1>12, <1>13, <2>1, <2>2 DEF PlaceSound, AtWork, Asked, Sending
<1>18. ~lost => HolderSound(w)'
  <2> SUFFICES ASSUME ~lost
               PROVE  HolderSound(w)'
    OBVIOUS
  <2>1. HolderSound(w)
    BY <1>1 DEF QueueInv, HolderInv
  <2>2. guard' = w /\ (st'[w].second => cycle' = "started")
    BY <1>2, <1>13, <2>1 DEF HolderSound, cycleVars
  <2>3. rows' = rows
    BY <1>2 DEF queueVars
  <2> QED
    BY <1>12, <1>13, <2>2, <2>3 DEF HolderSound, Sendable, Sending
<1> QED
  BY <1>1, <1>2, <1>13, <1>14, <1>15, <1>16, <1>17, <1>18, StepKeeps DEF AtRest

LEMMA AlertTyped ==
  ASSUME ServiceTypes, NEW p \in Procs
  PROVE  /\ Len(alerts) \in DOMAIN alerts /\ Len(alerts) \in Nat \ {0} /\ Alert = alerts[Len(alerts)]
         /\ \A k \in DOMAIN alerts :
              /\ alerts[k] \in Documents /\ alerts[k].selects \subseteq Notifications
              /\ Fingerprint(alerts[k], p) \in Endpoints \cup {None}
              /\ k \in Nat \ {0} /\ k <= Len(alerts)
<1>1. alerts \in Seq(Documents) /\ alerts # <<>> /\ env[p] \in Urls \cup {None}
  BY DEF ServiceTypes
<1>2. /\ Len(alerts) \in Nat \ {0} /\ DOMAIN alerts = 1..Len(alerts)
      /\ \A k \in DOMAIN alerts : alerts[k] \in Documents
  BY <1>1, LenProperties
<1>3. \A k \in DOMAIN alerts : /\ alerts[k].selects \subseteq Notifications
                               /\ Fingerprint(alerts[k], p) \in Endpoints \cup {None}
  BY <1>1, <1>2, ServiceAssumption DEF Fingerprint, Endpoints
<1> QED
  BY <1>2, <1>3 DEF Alert

\* The transactions on one row change no other.
LEMMA OnlyRow ==
  ASSUME QueueTypes, NEW i \in DOMAIN rows,
         \/ \E fp : ProbeIntent(i, fp)
         \/ BlockIntent(i)
         \/ MarkDelivered(i)
         \/ \E count, delivered : FinishAttempt(i, count, delivered)
  PROVE  \A j \in DOMAIN rows \ {i} : j \in DOMAIN rows' /\ rows'[j] = rows[j]
<1>1. CASE \E fp : ProbeIntent(i, fp)
  BY <1>1 DEF ProbeIntent, QueueTypes
<1>2. CASE BlockIntent(i)
  BY <1>2 DEF BlockIntent, QueueTypes
<1>3. CASE MarkDelivered(i)
  BY <1>3 DEF MarkDelivered, QueueTypes
<1>4. CASE \E count, delivered : FinishAttempt(i, count, delivered)
  BY <1>4 DEF FinishAttempt, QueueTypes, queueVars
<1> QED
  BY <1>1, <1>2, <1>3, <1>4

\* A process that is done with an item of its list.
LEMMA NextSound ==
  ASSUME QueueInv, QueueStep, NEW w \in Workers, st[w].todo # <<>>, NEW pc, NextItem(w, pc),
         \/ pc = "unbound" /\ st[w].pc = "unbound"
         \/ pc = "due" /\ st[w].pc \in Sending \cup {"due"},
         \A j \in DOMAIN rows \ {Item(w).id} : j \in DOMAIN rows' /\ rows'[j] = rows[j],
         UNCHANGED <<controlVars, cycleVars, env, guard, lost, accepted, events>>
  PROVE  QueueInv' /\ SettledStep
<1>1. w \in Procs /\ QueueTypes /\ ServiceTypes /\ RowsInv /\ PlaceSound(w) /\ st[w] \in Places
  BY DEF QueueInv, PlacesInv, ServiceTypes, Procs
<1>2. /\ st' \in [Procs -> Places] /\ \A q \in Procs \ {w} : st'[q] = st[q]
      /\ st'[w].pc = pc /\ st'[w].todo = Tail(st[w].todo) /\ st'[w].second = st[w].second
      /\ st'[w].alert = st[w].alert
  BY <1>1, GoingOn DEF Pcs, AtWork
<1>3. ServiceTypes' /\ AlertsKept
  BY <1>1, <1>2, ServiceKept DEF ServiceTypes
<1>4. SentIsBound'
  BY <1>1, SentKept DEF QueueInv, QueueStep
<1>5. PlaceSound(w)'
  BY <1>1, <1>2, <1>3, NextPlace DEF QueueStep
<1>6. ~lost => HolderSound(w)'
  <2>1. st[w].pc \in AtWork \ {"cadence", "analyze", "status"}
    BY DEF AtWork, Sending
  <2>2. ~lost => HolderSound(w)
    BY <1>1 DEF QueueInv, HolderInv
  <2>3. guard' = guard /\ cycle' = cycle
    BY DEF cycleVars
  <2> QED
    BY <1>1, <1>2, <2>1, <2>2, <2>3, NextHolder
<1>7. ~AtRest(w)
  BY DEF AtRest, Sending
<1> QED
  BY <1>1, <1>2, <1>3, <1>4, <1>5, <1>6, <1>7, StepKeeps

LEMMA ProbeSound ==
  ASSUME QueueInv, NEW w \in Workers, Probe(w)
  PROVE  QueueInv' /\ SettledStep
<1>1. w \in Procs /\ QueueTypes /\ ServiceTypes /\ RowsInv /\ PlaceSound(w)
  BY DEF QueueInv, PlacesInv, Procs
<1>2. PICK i : i = Item(w).id
  OBVIOUS
<1>3. /\ st[w].pc = "unbound" /\ st[w].todo # <<>> /\ NextItem(w, "unbound")
      /\ IF Matches(Item(w), w) THEN ProbeIntent(i, Fingerprint(Alert, w)) ELSE BlockIntent(i)
      /\ UNCHANGED <<controlVars, cycleVars, env, guard, lost, accepted, events>>
  BY <1>2 DEF Probe, At
<1>4. i \in DOMAIN rows
  BY <1>1, <1>2, <1>3, ItemSound DEF Listing
<1>5. alerts' = alerts
  BY <1>3 DEF controlVars
<1>6. Fingerprint(Alert, w) \in Endpoints \cup {None}
  BY <1>1, AlertTyped
<1>7. QueueStep /\ \A j \in DOMAIN rows \ {i} : j \in DOMAIN rows' /\ rows'[j] = rows[j]
  <2>1. CASE Matches(Item(w), w)
    <3>1. ProbeIntent(i, Fingerprint(Alert, w))
      BY <1>3, <2>1
    <3> QED
      BY <1>1, <1>4, <1>5, <1>6, <3>1, ProbeStep, OnlyRow
  <2>2. CASE ~Matches(Item(w), w)
    <3>1. BlockIntent(i)
      BY <1>3, <2>2
    <3> QED
      BY <1>1, <1>4, <1>5, <3>1, BlockStep, OnlyRow
  <2> QED
    BY <2>1, <2>2
<1> QED
  BY <1>2, <1>3, <1>7, NextSound

\* What is sent is bound to where this process sends it, and was not delivered
\* there, if the row is still as listed.
LEMMA PrepareSound ==
  ASSUME QueueInv, NEW w \in Workers, Prepare(w)
  PROVE  QueueInv' /\ SettledStep
<1>1. w \in Procs /\ QueueTypes /\ ServiceTypes /\ RowsInv /\ PlaceSound(w) /\ st[w] \in Places
  BY DEF QueueInv, PlacesInv, ServiceTypes, Procs
<1>2. PICK i : i = Item(w).id
  OBVIOUS
<1>3. /\ st[w].pc = "due" /\ st[w].todo # <<>>
      /\ UNCHANGED <<controlVars, cycleVars, env, guard, lost, accepted, events>>
  BY DEF Prepare, At
<1>4. i \in DOMAIN rows /\ Listing(Item(w)) /\ 1 \in DOMAIN st[w].todo /\ Item(w) = st[w].todo[1]
  BY <1>1, <1>2, <1>3, ItemSound DEF Listing
<1>5. alerts' = alerts
  BY <1>3 DEF controlVars
<1>6. CASE ~Matches(Item(w), w)
  <2>1. BlockIntent(i) /\ NextItem(w, "due")
    BY <1>2, <1>6 DEF Prepare
  <2>2. QueueStep /\ \A j \in DOMAIN rows \ {i} : j \in DOMAIN rows' /\ rows'[j] = rows[j]
    BY <1>1, <1>4, <1>5, <2>1, BlockStep, OnlyRow
  <2> QED
    BY <1>2, <1>3, <2>1, <2>2, NextSound
<1>7. CASE Matches(Item(w), w) /\ PreviouslyDelivered(i, Item(w).count)
  <2>1. MarkDelivered(i) /\ NextItem(w, "due") /\ i \in Sendable
    BY <1>2, <1>7 DEF Prepare, PreviouslyDelivered, Unchanged
  <2>2. QueueStep /\ \A j \in DOMAIN rows \ {i} : j \in DOMAIN rows' /\ rows'[j] = rows[j]
    BY <1>1, <1>4, <1>5, <2>1, DeliveredStep, OnlyRow
  <2> QED
    BY <1>2, <1>3, <2>1, <2>2, NextSound
<1>8. CASE Matches(Item(w), w) /\ ~PreviouslyDelivered(i, Item(w).count)
  <2>1. Goes(w, "send") /\ UNCHANGED queueVars
    BY <1>2, <1>8 DEF Prepare
  <2>2. /\ st' \in [Procs -> Places] /\ \A q \in Procs \ {w} : st'[q] = st[q]
        /\ st'[w].pc = "send" /\ st'[w].todo = st[w].todo /\ st'[w].second = st[w].second
        /\ st'[w].alert = st[w].alert
    BY <1>1, <2>1, Going DEF Pcs, AtWork
  <2>3. QueueStep
    BY <1>1, <1>5, <2>1, NothingStep
  <2>4. SentIsBound'
    BY <1>1, <1>3, <2>3, SentKept DEF QueueInv, QueueStep
  <2>5. ServiceTypes' /\ AlertsKept
    BY <1>1, <1>3, <2>2, ServiceKept DEF ServiceTypes
  <2>6. /\ Item(w)' = Item(w) /\ Revision(Item(w).id) = Len(alerts)
        /\ Item(w).id.of \in Alert.selects
        /\ Item(w).status \in {"pending", "failed"}
        /\ Fingerprint(alerts[Revision(Item(w).id)], w) = Item(w).fp
    <3>1. Item(w).status \in {"pending", "failed"}
      BY <1>1, <1>3, <1>4 DEF PlaceSound
    <3> QED
      BY <1>8, <2>2, <3>1 DEF Matches, Alert, Item
  <2>7. PlaceSound(w)'
    <3>1. (\A k \in DOMAIN st[w].todo : Listing(st[w].todo[k]))'
      <4>1. PICK t : t = st[w].todo
        OBVIOUS
      <4>2. \A k \in DOMAIN t : Listing(t[k])'
        BY <1>1, <2>3, <4>1, ListingKept DEF PlaceSound, QueueStep
      <4> QED
        BY <2>2, <4>1, <4>2
    <3>2. (Fingerprint(alerts[Revision(Item(w).id)], w) = Item(w).fp)'
      BY <1>3, <1>5, <2>6 DEF Fingerprint, Revision
    <3>3. /\ \A k \in DOMAIN st'[w].todo : st'[w].todo[k].status \in {"pending", "failed"}
          /\ ItemsDiffer(st'[w].todo) /\ st'[w].alert <= Len(alerts') /\ st'[w].todo # <<>>
      BY <1>1, <1>3, <1>5, <2>2 DEF PlaceSound
    <3> QED
      BY <2>2, <3>1, <3>2, <3>3 DEF PlaceSound, AtWork, Sending, Asked
  <2>8. ~lost => HolderSound(w)'
    <3> SUFFICES ASSUME ~lost
                 PROVE  HolderSound(w)'
      OBVIOUS
    <3>1. HolderSound(w)
      BY <1>1 DEF QueueInv, HolderInv
    <3>2. i \in Sendable /\ rows[i].count = Item(w).count
      BY <1>2, <1>3, <1>4, <3>1 DEF HolderSound
    <3>3. rows[i].fp = Item(w).fp
      BY <1>2, <1>4, <2>6 DEF Listing
    <3>4. <<Item(w).id.of, Item(w).fp>> \notin log
      BY <1>2, <1>8, <3>2, <3>3 DEF PreviouslyDelivered, Unchanged
    <3>5. rows' = rows /\ log' = log /\ guard' = w /\ cycle' = cycle /\ Alert' = Alert
      BY <1>3, <2>1, <3>1 DEF queueVars, cycleVars, controlVars, Alert, HolderSound
    <3>6. (/\ <<Item(w).id.of, Item(w).fp>> \notin log
           /\ Revision(Item(w).id) = Len(alerts)
           /\ Item(w).id.of \in Alert.selects)'
      BY <1>5, <2>6, <3>4, <3>5 DEF Revision
    <3>7. (\A k \in DOMAIN st[w].todo :
             /\ st[w].todo[k].id \in Sendable
             /\ rows[st[w].todo[k].id].count = st[w].todo[k].count)'
      BY <1>3, <2>2, <3>1, <3>5 DEF HolderSound, Sendable
    <3>8. st[w].second => cycle = "started"
      BY <1>3, <3>1 DEF HolderSound
    <3> QED
      BY <2>2, <3>5, <3>6, <3>7, <3>8 DEF HolderSound, Sending
  <2> QED
    BY <1>1, <1>3, <2>2, <2>3, <2>4, <2>5, <2>7, <2>8, StepKeeps DEF AtRest
<1> QED
  BY <1>6, <1>7, <1>8

\* The notification leaves for the endpoint its row is bound to.
LEMMA SendSound ==
  ASSUME QueueInv, NEW w \in Workers, Send(w)
  PROVE  QueueInv' /\ SettledStep
<1>1. w \in Procs /\ QueueTypes /\ ServiceTypes /\ RowsInv /\ PlaceSound(w) /\ st[w] \in Places
  BY DEF QueueInv, PlacesInv, ServiceTypes, Procs
<1>2. PICK id, fp, to : /\ id = Item(w).id /\ fp = Fingerprint(alerts[Revision(id)], w)
                        /\ to = <<id.of, fp>>
  OBVIOUS
<1>3. /\ st[w].pc = "send"
      /\ UNCHANGED <<queueVars, controlVars, cycleVars, env, guard, lost, events>>
      /\ \/ accepted' = accepted \cup {to} /\ Goes(w, "delivered")
         \/ accepted' \in {accepted, accepted \cup {to}} /\ Goes(w, "refused")
  BY <1>2 DEF Send, At
<1>4. PICK pc \in {"delivered", "refused"} : Goes(w, pc)
  BY <1>3
<1>5. accepted' \in {accepted, accepted \cup {to}}
  BY <1>3
<1>6. /\ st' \in [Procs -> Places] /\ \A q \in Procs \ {w} : st'[q] = st[q]
      /\ st'[w].pc = pc /\ st'[w].todo = st[w].todo /\ st'[w].second = st[w].second
      /\ st'[w].alert = st[w].alert
  BY <1>1, <1>4, Going DEF Pcs, AtWork
<1>7. alerts' = alerts /\ rows' = rows /\ log' = log /\ plan' = plan /\ due' = due /\ cycle' = cycle
  BY <1>3 DEF queueVars, controlVars, cycleVars
<1>8. QueueStep
  BY <1>1, <1>3, <1>7, NothingStep
<1>9. st[w].todo # <<>> /\ fp = Item(w).fp
  BY <1>1, <1>2, <1>3 DEF PlaceSound, Sending
<1>10. /\ 1 \in DOMAIN st[w].todo /\ Item(w) = st[w].todo[1] /\ Listing(Item(w))
       /\ id \in Intents /\ id \in DOMAIN rows
  BY <1>1, <1>2, <1>9, ItemSound DEF Listing
<1>11. Item(w).status \in {"pending", "failed"}
  BY <1>1, <1>3, <1>10 DEF PlaceSound, Sending
<1>12. fp \in Endpoints /\ rows[id].fp = fp /\ id.of \in Notifications
  BY <1>2, <1>9, <1>10, <1>11 DEF Listing, Intents
<1>13. ServiceTypes' /\ AlertsKept
  <2>1. accepted' \subseteq Notifications \X Endpoints
    BY SMTT(30), <1>1, <1>2, <1>5, <1>12 DEF ServiceTypes
  <2> QED
    BY <1>1, <1>3, <1>6, <1>7, <2>1, AlertsUnchanged DEF ServiceTypes
<1>14. SentIsBound'
  BY <1>2, <1>5, <1>7, <1>10, <1>12 DEF SentIsBound, QueueInv
<1>15. Item(w)' = Item(w)
  BY <1>6 DEF Item
<1>16. PlaceSound(w)'
  <2>1. (\A k \in DOMAIN st[w].todo : Listing(st[w].todo[k]))'
    BY <1>1, <1>6, <1>7 DEF PlaceSound, Listing
  <2>2. (Fingerprint(alerts[Revision(Item(w).id)], w) = Item(w).fp)'
    BY <1>2, <1>3, <1>7, <1>9, <1>15 DEF Fingerprint, Revision
  <2> QED
    BY <1>1, <1>3, <1>6, <1>7, <2>1, <2>2 DEF PlaceSound, AtWork, Sending, Asked
<1>17. ~lost => HolderSound(w)'
  <2> SUFFICES ASSUME ~lost
               PROVE  HolderSound(w)'
    OBVIOUS
  <2>1. HolderSound(w)
    BY <1>1 DEF QueueInv, HolderInv
  <2> QED
    BY <1>3, <1>6, <1>7, <2>1 DEF HolderSound, Sending, Sendable
<1> QED
  BY <1>1, <1>3, <1>6, <1>8, <1>13, <1>14, <1>16, <1>17, StepKeeps DEF AtRest

LEMMA RecordSound ==
  ASSUME QueueInv, NEW w \in Workers, Record(w)
  PROVE  QueueInv' /\ SettledStep
<1>1. w \in Procs /\ QueueTypes /\ ServiceTypes /\ RowsInv /\ PlaceSound(w)
  BY DEF QueueInv, PlacesInv, Procs
<1>2. PICK i, count, delivered : i = Item(w).id /\ count = Item(w).count /\ delivered = At(w, "delivered")
  OBVIOUS
<1>3. /\ st[w].pc \in {"delivered", "refused"} /\ NextItem(w, "due")
      /\ FinishAttempt(i, count, delivered)
      /\ UNCHANGED <<controlVars, cycleVars, env, guard, lost, accepted, events>>
  BY <1>2 DEF Record
<1>4. st[w].todo # <<>>
  BY <1>1, <1>3 DEF PlaceSound, Sending
<1>5. i \in DOMAIN rows
  BY <1>1, <1>2, <1>4, ItemSound DEF Listing
<1>6. delivered \in BOOLEAN /\ alerts' = alerts
  BY <1>2, <1>3 DEF At, controlVars
<1>7. QueueStep
  BY <1>1, <1>3, <1>5, <1>6, FinishStep
<1>8. \A j \in DOMAIN rows \ {i} : j \in DOMAIN rows' /\ rows'[j] = rows[j]
  BY <1>1, <1>3, <1>5, OnlyRow
<1> QED
  BY <1>2, <1>3, <1>4, <1>7, <1>8, NextSound DEF Sending

\* The holder goes on, and the cycle it is in reads as started.
LEMMA WorkSound ==
  ASSUME QueueInv, QueueStep, alerts' = alerts, ServiceTypes', SentIsBound',
         NEW w \in Workers, ~AtRest(w), \A q \in Procs \ {w} : st'[q] = st[q],
         env' = env, lost' = lost, guard' = guard,
         st'[w].pc \in {"drain", "plan", "analyze", "status", "cadence"},
         st'[w].todo = st[w].todo \/ st'[w].todo = <<>>,
         \/ st'[w].alert = st[w].alert /\ st'[w].pc # "analyze"
         \/ st'[w].alert = Len(alerts),
         HolderSound(w) /\ st'[w].pc # "cadence" /\ (st'[w].second \/ st'[w].pc \in {"analyze", "status"})
           => cycle' = "started"
  PROVE  QueueInv' /\ SettledStep
<1>1. w \in Procs /\ QueueTypes /\ ServiceTypes /\ RowsInv /\ PlaceSound(w)
  BY DEF QueueInv, PlacesInv, Procs
<1>2. AlertsKept
  BY <1>1, AlertsUnchanged
<1>3. Len(alerts') \in DOMAIN alerts'
  BY <1>1, AlertTyped
<1>4. PlaceSound(w)'
  BY <1>1, <1>2, <1>3, PlaceMoves DEF QueueStep
<1>5. ~lost => HolderSound(w)'
  <2> SUFFICES ASSUME ~lost
               PROVE  HolderSound(w)'
    OBVIOUS
  <2>1. HolderSound(w)
    BY <1>1 DEF QueueInv, HolderInv
  <2>2. guard' = w
    BY <2>1 DEF HolderSound, AtRest
  <2> QED
    BY <1>1, <2>1, <2>2, HolderMoves
<1> QED
  BY <1>1, <1>2, <1>4, <1>5, StepKeeps

\* A process lets go.
LEMMA ReleaseSound ==
  ASSUME QueueInv, QueueStep, alerts' = alerts, NEW p \in Procs, Releases(p),
         accepted' = accepted, lost' = lost, \A q \in Procs \ {p} : env'[q] = env[q],
         env' \in [Procs -> Urls \cup {None}],
         plan' = plan, due' \in [revision : Nat, ready : BOOLEAN],
         cycle' \in {"none", "started", "finished"}, events' = events \/ Happens,
         ~AtRest(p) \/ UNCHANGED <<rows, log, cycle>>
  PROVE  QueueInv' /\ SettledStep
<1>1. QueueTypes /\ ServiceTypes /\ RowsInv
  BY DEF QueueInv
<1>2. st' = [st EXCEPT ![p] = Idle] /\ guard' = IF guard = p THEN None ELSE guard
  BY DEF Releases
<1>3. st' \in [Procs -> Places] /\ st'[p] = Idle /\ \A q \in Procs \ {p} : st'[q] = st[q]
  BY <1>1, <1>2, IdleIsPlace, Moved
<1>4. events' \in 0..MaxEvents
  BY <1>1, ServiceAssumption DEF ServiceTypes, Happens
<1>5. guard' \in Procs \cup {None}
  BY <1>1, <1>2 DEF ServiceTypes
<1>6. ServiceTypes'
  BY <1>1, <1>3, <1>4, <1>5 DEF ServiceTypes
<1>7. AlertsKept
  BY <1>1, AlertsUnchanged
<1>8. SentIsBound'
  BY <1>1, SentKept DEF QueueInv, QueueStep
<1>9. PlaceSound(p)' /\ HolderSound(p)'
  BY <1>3, <1>6, IdleSound DEF ServiceTypes
<1>10. \/ ~AtRest(p) \/ guard \in {p, None}
       \/ UNCHANGED <<rows, log, alerts, cycle, guard>>
  BY <1>2
<1> QED
  BY <1>3, <1>6, <1>7, <1>8, <1>9, <1>10, StepKeeps

LEMMA DrainEndsSound ==
  ASSUME QueueInv, NEW w \in Workers, DrainEnds(w)
  PROVE  QueueInv' /\ SettledStep
<1>1. w \in Procs /\ QueueTypes /\ ServiceTypes /\ RowsInv
  BY DEF QueueInv, Procs
<1>2. PICK pc : pc = IF st[w].second THEN "status" ELSE "plan"
  OBVIOUS
<1>3. /\ st[w].pc = "due" /\ Goes(w, pc)
      /\ UNCHANGED <<queueVars, controlVars, cycleVars, env, guard, lost, accepted, events>>
  BY <1>2 DEF DrainEnds, At
<1>4. pc \in {"plan", "status"}
  BY <1>2
<1>5. /\ st' \in [Procs -> Places] /\ \A q \in Procs \ {w} : st'[q] = st[q]
      /\ st'[w].pc = pc /\ st'[w].todo = st[w].todo /\ st'[w].second = st[w].second
      /\ st'[w].alert = st[w].alert
  BY <1>1, <1>3, <1>4, Going DEF Pcs, AtWork
<1>6. alerts' = alerts /\ cycle' = cycle
  BY <1>3 DEF controlVars, cycleVars
<1>7. QueueStep
  BY <1>1, <1>3, <1>6, NothingStep
<1>8. SentIsBound'
  BY <1>1, <1>3, <1>7, SentKept DEF QueueInv, QueueStep
<1>9. ServiceTypes'
  BY <1>1, <1>3, <1>5, ServiceKept DEF ServiceTypes
<1>10. HolderSound(w) /\ (st'[w].second \/ st'[w].pc = "status") => cycle' = "started"
  BY <1>2, <1>3, <1>5, <1>6, <1>1 DEF HolderSound
<1> QED
  BY <1>3, <1>4, <1>5, <1>6, <1>7, <1>8, <1>9, <1>10, WorkSound DEF AtRest

LEMMA BeginCycleSound ==
  ASSUME QueueInv, NEW w \in Workers, BeginCycle(w)
  PROVE  QueueInv' /\ SettledStep
<1>1. w \in Procs /\ QueueTypes /\ ServiceTypes /\ RowsInv /\ st[w] \in Places
  BY DEF QueueInv, ServiceTypes, Procs
<1>2. /\ st[w].pc = "plan"
      /\ UNCHANGED <<queueVars, controlVars, env, lost, accepted, events>>
      /\ \/ /\ due' = [revision |-> plan.revision, ready |-> FALSE]
            /\ cycle' = "started"
            /\ st' = [st EXCEPT ![w].pc = "analyze", ![w].alert = Len(alerts),
                                ![w].plan = plan.revision]
            /\ guard' = guard
         \/ Releases(w) /\ UNCHANGED cycleVars
  BY DEF BeginCycle, At
<1>3. alerts' = alerts /\ plan' = plan
  BY <1>2 DEF controlVars
<1>4. QueueStep
  BY <1>1, <1>2, <1>3, NothingStep
<1>5. SentIsBound'
  BY <1>1, <1>2, <1>4, SentKept DEF QueueInv, QueueStep
<1>6. CASE Releases(w) /\ UNCHANGED cycleVars
  BY <1>1, <1>2, <1>3, <1>4, <1>6, ReleaseSound DEF AtRest, cycleVars, ServiceTypes
<1>7. CASE /\ due' = [revision |-> plan.revision, ready |-> FALSE]
           /\ cycle' = "started"
           /\ st' = [st EXCEPT ![w].pc = "analyze", ![w].alert = Len(alerts),
                               ![w].plan = plan.revision]
           /\ guard' = guard
  <2>1. PICK n, r : n = Len(alerts) /\ r = plan.revision
    OBVIOUS
  <2>2. PICK h : h = [st[w] EXCEPT !.pc = "analyze", !.alert = n, !.plan = r]
    OBVIOUS
  <2>3. n \in Nat /\ r \in Nat
    BY <1>1, <2>1 DEF ServiceTypes
  <2>4. /\ h \in Places /\ h.pc = "analyze" /\ h.todo = st[w].todo /\ h.second = st[w].second
        /\ h.alert = n
    BY <1>1, <2>2, <2>3 DEF Places, AtWork
  <2>5. st' = [st EXCEPT ![w] = h]
    BY <1>1, <1>7, <2>1, <2>2 DEF ServiceTypes
  <2>6. st' \in [Procs -> Places] /\ st'[w] = h /\ \A q \in Procs \ {w} : st'[q] = st[q]
    BY <1>1, <2>4, <2>5, Moved
  <2>7. ServiceTypes'
    BY <1>1, <1>2, <1>3, <1>7, <2>1, <2>3, <2>6 DEF ServiceTypes
  <2> QED
    BY <1>2, <1>3, <1>4, <1>5, <1>7, <2>1, <2>4, <2>6, <2>7, WorkSound DEF AtRest
<1> QED
  BY <1>2, <1>6, <1>7

\* The selected notifications, as intents of one revision.
LEMMA FoundAreIntents ==
  ASSUME NEW found \in SUBSET Notifications, NEW a \in Nat \ {0}
  PROVE  LET S == {[of |-> n, chain |-> <<a>>] : n \in found}
         IN /\ S \subseteq Intents /\ IsFiniteSet(S)
            /\ \A i \in S : Len(i.chain) = 1 /\ i.chain # <<>> /\ Revision(i) = a
<1> DEFINE S == {[of |-> n, chain |-> <<a>>] : n \in found}
           f == [n \in found |-> [of |-> n, chain |-> <<a>>]]
<1>1. \A n \in found : [of |-> n, chain |-> <<a>>] \in Intents
  BY DEF Intents
<1>2. IsFiniteSet(found)
  BY QueueAssumption, FS_Subset
<1>3. f \in Surjection(found, S)
  BY DEF Surjection
<1>4. IsFiniteSet(S)
  <2> HIDE DEF S, f
  <2> QED
    BY <1>2, <1>3, FS_Surjection
<1>5. Len(<<a>>) = 1 /\ <<a>> # <<>> /\ <<a>>[1] = a
  OBVIOUS
<1> QED
  BY <1>1, <1>4, <1>5 DEF Revision, Last

LEMMA AnalyzeSound ==
  ASSUME QueueInv, NEW w \in Workers, Analyze(w)
  PROVE  QueueInv' /\ SettledStep
<1>1. w \in Procs /\ QueueTypes /\ ServiceTypes /\ RowsInv /\ st[w] \in Places /\ PlaceSound(w)
  BY DEF QueueInv, PlacesInv, ServiceTypes, Procs
<1>2. PICK a, doc, fp : a = st[w].alert /\ doc = alerts[a] /\ fp = Fingerprint(doc, w)
  OBVIOUS
<1>3. PICK found \in SUBSET doc.selects :
        InsertIntents({[of |-> n, chain |-> <<a>>] : n \in found}, fp)
  BY <1>2 DEF Analyze
<1>4. /\ st[w].pc = "analyze"
      /\ st' = [st EXCEPT ![w].pc = "drain", ![w].second = TRUE]
      /\ UNCHANGED <<controlVars, cycleVars, env, guard, lost, accepted, events>>
  BY DEF Analyze, At
<1>5. alerts' = alerts /\ cycle' = cycle
  BY <1>4 DEF controlVars, cycleVars
<1>6. a \in DOMAIN alerts
  BY <1>1, <1>2, <1>4 DEF PlaceSound
<1>7. a \in Nat \ {0} /\ fp \in Endpoints \cup {None} /\ found \in SUBSET Notifications
  BY <1>1, <1>2, <1>6, AlertTyped
<1>8. QueueStep
  <2> DEFINE S == {[of |-> n, chain |-> <<a>>] : n \in found}
  <2>1. /\ S \subseteq Intents /\ IsFiniteSet(S)
        /\ \A i \in S : Len(i.chain) = 1 /\ i.chain # <<>> /\ Revision(i) = a
    BY <1>7, FoundAreIntents
  <2>2. InsertIntents(S, fp)
    BY <1>3
  <2> HIDE DEF S
  <2> QED
    BY <1>1, <1>5, <1>6, <1>7, <2>1, <2>2, InsertStep
<1>9. PICK h : h = [st[w] EXCEPT !.pc = "drain", !.second = TRUE]
  OBVIOUS
<1>10. /\ h \in Places /\ h.pc = "drain" /\ h.todo = st[w].todo /\ h.alert = st[w].alert
  BY <1>1, <1>9 DEF Places, AtWork
<1>11. st' = [st EXCEPT ![w] = h]
  BY <1>1, <1>4, <1>9 DEF ServiceTypes
<1>12. st' \in [Procs -> Places] /\ st'[w] = h /\ \A q \in Procs \ {w} : st'[q] = st[q]
  BY <1>1, <1>10, <1>11, Moved
<1>13. ServiceTypes'
  BY <1>1, <1>4, <1>12, ServiceKept DEF ServiceTypes
<1>14. SentIsBound'
  BY <1>1, <1>4, <1>8, SentKept DEF QueueInv, QueueStep
<1>15. HolderSound(w) => cycle' = "started"
  BY <1>4, <1>5 DEF HolderSound
<1> QED
  BY <1>4, <1>5, <1>8, <1>10, <1>12, <1>13, <1>14, <1>15, WorkSound DEF AtRest

LEMMA CycleFailsSound ==
  ASSUME QueueInv, NEW w \in Workers, CycleFails(w)
  PROVE  QueueInv' /\ SettledStep
<1>1. w \in Procs /\ QueueTypes /\ ServiceTypes /\ RowsInv /\ st[w] \in Places
  BY DEF QueueInv, ServiceTypes, Procs
<1>2. /\ st[w].pc \in {"drain", "unbound", "due", "delivered", "refused", "analyze"} /\ Happens
      /\ UNCHANGED <<queueVars, controlVars, cycleVars, env, lost, accepted>>
  BY DEF CycleFails, At
<1>3. alerts' = alerts /\ plan' = plan /\ due' = due /\ cycle' = cycle /\ rows' = rows /\ log' = log
  BY <1>2 DEF controlVars, cycleVars, queueVars
<1>4. QueueStep
  BY <1>1, <1>2, <1>3, NothingStep
<1>5. ~AtRest(w)
  BY <1>2 DEF AtRest
<1>6. CASE st[w].second \/ st[w].pc = "analyze"
  <2>1. st' = [st EXCEPT ![w].pc = "status", ![w].todo = <<>>] /\ guard' = guard
    BY <1>6 DEF CycleFails, At
  <2>2. /\ st' \in [Procs -> Places] /\ \A q \in Procs \ {w} : st'[q] = st[q]
        /\ st'[w].pc = "status" /\ st'[w].todo = <<>> /\ st'[w].second = st[w].second
        /\ st'[w].alert = st[w].alert
    <3>1. PICK list : list = <<>>
      OBVIOUS
    <3>2. list \in Seq(Items) /\ st' = [st EXCEPT ![w].pc = "status", ![w].todo = list]
      BY <2>1, <3>1
    <3>3. "status" \in Pcs
      BY DEF Pcs, AtWork
    <3> QED
      BY <1>1, <3>1, <3>2, <3>3, GoingWith
  <2>3. ServiceTypes'
    BY <1>1, <1>2, <2>1, <2>2, ServiceKept DEF ServiceTypes
  <2>4. SentIsBound'
    BY <1>1, <1>2, <1>4, SentKept DEF QueueInv, QueueStep
  <2>5. HolderSound(w) => cycle' = "started"
    BY <1>2, <1>3, <1>6 DEF HolderSound
  <2> QED
    BY <1>2, <1>3, <1>4, <1>5, <2>1, <2>2, <2>3, <2>4, <2>5, WorkSound
<1>7. CASE ~(st[w].second \/ st[w].pc = "analyze")
  <2>1. Releases(w)
    BY <1>7 DEF CycleFails, At
  <2> QED
    BY <1>1, <1>2, <1>3, <1>4, <1>5, <2>1, ReleaseSound DEF ServiceTypes
<1> QED
  BY <1>6, <1>7

LEMMA FinishStatusSound ==
  ASSUME QueueInv, NEW w \in Workers, FinishStatus(w)
  PROVE  QueueInv' /\ SettledStep
<1>1. w \in Procs /\ QueueTypes /\ ServiceTypes /\ RowsInv /\ st[w] \in Places
  BY DEF QueueInv, ServiceTypes, Procs
<1>2. /\ st[w].pc = "status"
      /\ UNCHANGED <<queueVars, controlVars, due, env, lost, accepted, events>>
      /\ \/ cycle' = "finished" /\ Goes(w, "cadence") /\ guard' = guard
         \/ Releases(w) /\ cycle' = cycle
  BY DEF FinishStatus, At
<1>3. alerts' = alerts /\ plan' = plan
  BY <1>2 DEF controlVars
<1>4. QueueStep
  BY <1>1, <1>2, <1>3, NothingStep
<1>5. CASE cycle' = "finished" /\ Goes(w, "cadence") /\ guard' = guard
  <2>1. /\ st' \in [Procs -> Places] /\ \A q \in Procs \ {w} : st'[q] = st[q]
        /\ st'[w].pc = "cadence" /\ st'[w].todo = st[w].todo /\ st'[w].second = st[w].second
        /\ st'[w].alert = st[w].alert
    BY <1>1, <1>5, Going DEF Pcs, AtWork
  <2>2. ServiceTypes'
    BY <1>1, <1>2, <1>3, <1>5, <2>1 DEF ServiceTypes
  <2>3. SentIsBound'
    BY <1>1, <1>2, <1>4, SentKept DEF QueueInv, QueueStep
  <2> QED
    BY <1>2, <1>3, <1>4, <1>5, <2>1, <2>2, <2>3, WorkSound DEF AtRest
<1>6. CASE Releases(w) /\ cycle' = cycle
  BY <1>1, <1>2, <1>3, <1>4, <1>6, ReleaseSound DEF ServiceTypes, AtRest
<1> QED
  BY <1>2, <1>5, <1>6

LEMMA FinishDueSound ==
  ASSUME QueueInv, NEW w \in Workers, FinishDue(w)
  PROVE  QueueInv' /\ SettledStep
<1>1. w \in Procs /\ QueueTypes /\ ServiceTypes /\ RowsInv
  BY DEF QueueInv, Procs
<1>2. /\ st[w].pc = "cadence" /\ Releases(w)
      /\ UNCHANGED <<queueVars, controlVars, cycle, env, lost, accepted, events>>
  BY DEF FinishDue, At
<1>3. due' = due \/ due' = [due EXCEPT !.ready = FALSE]
  BY DEF FinishDue
<1>4. due' \in [revision : Nat, ready : BOOLEAN]
  BY <1>1, <1>3 DEF ServiceTypes
<1>5. alerts' = alerts /\ plan' = plan
  BY <1>2 DEF controlVars
<1>6. QueueStep
  BY <1>1, <1>2, <1>5, NothingStep
<1> QED
  BY <1>1, <1>2, <1>4, <1>5, <1>6, ReleaseSound DEF ServiceTypes, AtRest

---------------------------------------------------------------------------
\* Time, failures, and the dashboard.

LEMMA HoldersKept ==
  ASSUME HolderInv, ~lost, UNCHANGED <<rows, log, alerts, cycle, guard, st>>, NEW q \in Procs
  PROVE  HolderSound(q)'
<1>1. HolderSound(q)
  BY DEF HolderInv
<1>2. Item(q)' = Item(q) /\ Sendable' = Sendable /\ Alert' = Alert
  BY DEF Item, Sendable, Alert
<1> QED
  BY <1>1, <1>2 DEF HolderSound, Revision

LEMMA TimeSound ==
  ASSUME QueueInv, DueTimeComes \/ \E n \in Notifications : RetryTimeComes(n)
  PROVE  QueueInv' /\ SettledStep
<1>1. QueueTypes /\ ServiceTypes /\ RowsInv /\ HolderInv
  BY DEF QueueInv
<1>2. CASE DueTimeComes
  <2>1. /\ due' = [due EXCEPT !.ready = TRUE]
        /\ UNCHANGED <<queueVars, controlVars, cycle, env, st, guard, lost, accepted, events>>
    BY <1>2 DEF DueTimeComes
  <2>2. due' \in [revision : Nat, ready : BOOLEAN]
    BY <1>1, <2>1 DEF ServiceTypes
  <2>3. alerts' = alerts /\ plan' = plan /\ rows' = rows /\ log' = log
    BY <2>1 DEF controlVars, queueVars
  <2>4. ServiceTypes' /\ AlertsKept
    BY <1>1, <2>1, <2>2, <2>3, AlertsUnchanged DEF ServiceTypes
  <2>5. QueueStep
    BY <1>1, <2>1, <2>3, NothingStep
  <2>6. ~lost => \A q \in Procs : HolderSound(q)'
    BY <1>1, <2>1, <2>3, HoldersKept
  <2> QED
    BY <2>1, <2>4, <2>5, <2>6, OutsideKeeps
<1>3. CASE \E n \in Notifications : RetryTimeComes(n)
  <2>1. PICK n \in Notifications : RetryTimeComes(n)
    BY <1>3
  <2>2. /\ TimePasses(n)
        /\ UNCHANGED <<controlVars, cycleVars, env, st, guard, lost, accepted, events>>
    BY <2>1 DEF RetryTimeComes
  <2>3. alerts' = alerts /\ cycle' = cycle /\ rows' = rows /\ log' = log
    BY <2>2 DEF controlVars, cycleVars, TimePasses
  <2>4. ServiceTypes' /\ AlertsKept
    BY <1>1, <2>2, ServiceKept DEF ServiceTypes
  <2>5. QueueStep
    BY <1>1, <2>2, <2>3, TimeStep
  <2>6. ~lost => \A q \in Procs : HolderSound(q)'
    BY <1>1, <2>2, <2>3, HoldersKept
  <2> QED
    BY <2>2, <2>4, <2>5, <2>6, OutsideKeeps
<1> QED
  BY <1>2, <1>3

LEMMA RestartSound ==
  ASSUME QueueInv, NEW p \in Procs, Restart(p)
  PROVE  QueueInv' /\ SettledStep
<1>1. QueueTypes /\ ServiceTypes /\ RowsInv
  BY DEF QueueInv
<1>2. /\ Happens /\ Releases(p)
      /\ UNCHANGED <<queueVars, controlVars, cycleVars, lost, accepted>>
      /\ \E url \in Urls \cup {None} : env' = [env EXCEPT ![p] = url]
  BY DEF Restart
<1>3. env' \in [Procs -> Urls \cup {None}] /\ \A q \in Procs \ {p} : env'[q] = env[q]
  BY <1>1, <1>2 DEF ServiceTypes
<1>4. alerts' = alerts /\ plan' = plan /\ due' = due /\ cycle' = cycle /\ rows' = rows /\ log' = log
  BY <1>2 DEF controlVars, cycleVars, queueVars
<1>5. QueueStep
  BY <1>1, <1>2, <1>4, NothingStep
<1>6. /\ due' \in [revision : Nat, ready : BOOLEAN] /\ cycle' \in {"none", "started", "finished"}
  BY <1>1, <1>4 DEF ServiceTypes
<1> QED
  BY <1>2, <1>3, <1>4, <1>5, <1>6, ReleaseSound

LEMMA LoseGuardSound ==
  ASSUME QueueInv, LoseGuard
  PROVE  QueueInv' /\ SettledStep
<1>1. QueueTypes /\ ServiceTypes /\ RowsInv
  BY DEF QueueInv
<1>2. /\ Happens /\ guard' = None /\ lost' = TRUE
      /\ UNCHANGED <<queueVars, controlVars, cycleVars, env, st, accepted>>
  BY DEF LoseGuard
<1>3. alerts' = alerts /\ plan' = plan /\ due' = due /\ cycle' = cycle
  BY <1>2 DEF controlVars, cycleVars
<1>4. events' \in 0..MaxEvents
  BY <1>1, <1>2, ServiceAssumption DEF ServiceTypes, Happens
<1>5. ServiceTypes' /\ AlertsKept
  BY <1>1, <1>2, <1>3, <1>4, AlertsUnchanged DEF ServiceTypes
<1>6. QueueStep
  BY <1>1, <1>2, <1>3, NothingStep
<1> QED
  BY <1>2, <1>5, <1>6, OutsideKeeps

LEMMA EditPlanSound ==
  ASSUME QueueInv, EditPlan
  PROVE  QueueInv' /\ SettledStep
<1>1. QueueTypes /\ ServiceTypes /\ RowsInv /\ HolderInv
  BY DEF QueueInv
<1>2. /\ Happens
      /\ \E active \in BOOLEAN : plan' = [revision |-> plan.revision + 1, active |-> active]
      /\ UNCHANGED <<queueVars, alerts, cycleVars, env, st, guard, lost, accepted>>
  BY DEF EditPlan
<1>3. plan' \in [revision : Nat, active : BOOLEAN]
  <2>1. plan.revision + 1 \in Nat
    BY <1>1 DEF ServiceTypes
  <2> QED
    BY <1>2, <2>1
<1>4. due' = due /\ cycle' = cycle /\ rows' = rows /\ log' = log
  BY <1>2 DEF cycleVars, queueVars
<1>5. events' \in 0..MaxEvents
  BY <1>1, <1>2, ServiceAssumption DEF ServiceTypes, Happens
<1>6. ServiceTypes' /\ AlertsKept
  BY <1>1, <1>2, <1>3, <1>4, <1>5, AlertsUnchanged DEF ServiceTypes
<1>7. QueueStep
  BY <1>1, <1>2, NothingStep
<1>8. ~lost => \A q \in Procs : HolderSound(q)'
  BY <1>1, <1>2, <1>4, HoldersKept
<1> QED
  BY <1>2, <1>6, <1>7, <1>8, OutsideKeeps

\* The document is edited while nobody is at work, unless a guard was lost.
LEMMA EditAlertSound ==
  ASSUME QueueInv, EditAlert
  PROVE  QueueInv' /\ SettledStep
<1>1. QueueTypes /\ ServiceTypes /\ RowsInv /\ HolderInv /\ PlacesInv
  BY DEF QueueInv
<1>2. PICK doc \in Documents : alerts' = Append(alerts, doc)
  BY DEF EditAlert
<1>3. /\ Happens /\ guard = None
      /\ UNCHANGED <<queueVars, plan, cycleVars, env, st, guard, lost, accepted>>
  BY DEF EditAlert
<1>4. due' = due /\ cycle' = cycle /\ rows' = rows /\ log' = log /\ line' = line
  BY <1>3 DEF cycleVars, queueVars
<1>5. events' \in 0..MaxEvents
  BY <1>1, <1>3, ServiceAssumption DEF ServiceTypes, Happens
<1>6. /\ alerts' \in Seq(Documents) /\ alerts' # <<>> /\ Len(alerts') = Len(alerts) + 1
      /\ Len(alerts) \in Nat
      /\ \A k \in 1..Len(alerts) : alerts'[k] = alerts[k]
  BY <1>1, <1>2 DEF ServiceTypes
<1>7. AlertsKept
  BY <1>1, <1>6, LenProperties DEF AlertsKept, ServiceTypes
<1>8. ServiceTypes'
  BY <1>1, <1>3, <1>4, <1>5, <1>6 DEF ServiceTypes
<1>9. QueueStep
  <2>1. QueueTypes'
    BY <1>1, <1>4 DEF QueueTypes, Open, Sendable, Unbound
  <2>2. RowsInv'
    <3> SUFFICES ASSUME NEW i \in DOMAIN rows
                 PROVE  RowSound(i)'
      BY <1>4 DEF RowsInv
    <3>1. RowSound(i)
      BY <1>1 DEF RowsInv
    <3>2. (Revision(i) \in DOMAIN alerts)'
      BY <1>7, <3>1 DEF RowSound, AlertsKept, Revision
    <3> QED
      BY <1>4, <3>1, <3>2 DEF RowSound
  <2> QED
    BY <1>4, <2>1, <2>2 DEF QueueStep, RowsStep, SettledStep
<1>10. ~lost => \A q \in Procs : HolderSound(q)'
  <2> SUFFICES ASSUME ~lost, NEW q \in Procs
               PROVE  HolderSound(q)'
    OBVIOUS
  <2>1. HolderSound(q) /\ PlaceSound(q) /\ None \notin Procs
    BY <1>1, ServiceAssumption DEF HolderInv, PlacesInv
  <2>2. st[q].pc \in {"idle", "once"} /\ st[q].second = FALSE
    BY <1>3, <2>1 DEF HolderSound, PlaceSound
  <2> QED
    BY <1>3, <2>2 DEF HolderSound, Sending
<1> QED
  BY <1>3, <1>7, <1>8, <1>9, <1>10, OutsideKeeps

LEMMA SnapshotSound ==
  ASSUME QueueTypes, RowsInv, NEW i \in DOMAIN rows
  PROVE  Snapshot(i) \in Items /\ Listing(Snapshot(i)) /\ Snapshot(i).id = i
<1>1. rows[i] \in Rows /\ RowSound(i) /\ i \in Intents
  BY DEF QueueTypes, RowsInv
<1> QED
  BY <1>1 DEF Snapshot, Items, Rows, Listing, RowSound

\* The dashboard has the guard and one row, as it was shown.
LEMMA AskedSound ==
  ASSUME QueueInv, NEW i \in DOMAIN rows, Happens,
         NEW h, Acquires(Dashboard, h), h \in Places, h.pc \in Asked, h.todo = <<Snapshot(i)>>,
         h.second = FALSE, h.alert \in {0, Len(alerts)},
         UNCHANGED <<queueVars, controlVars, cycleVars, env, lost, accepted>>
  PROVE  QueueInv' /\ SettledStep
<1>1. Dashboard \in Procs /\ QueueTypes /\ ServiceTypes /\ RowsInv
  BY DEF QueueInv, Procs
<1>2. guard = None /\ guard' = Dashboard /\ st' = [st EXCEPT ![Dashboard] = h]
  BY DEF Acquires
<1>3. st' \in [Procs -> Places] /\ st'[Dashboard] = h /\ \A q \in Procs \ {Dashboard} : st'[q] = st[q]
  BY <1>1, <1>2, Moved
<1>4. ServiceTypes' /\ AlertsKept
  BY <1>1, <1>2, <1>3, ServiceKept
<1>5. rows' = rows /\ alerts' = alerts
  BY DEF queueVars, controlVars
<1>6. QueueStep
  BY <1>1, <1>5, NothingStep
<1>7. SentIsBound'
  BY <1>1, <1>6, SentKept DEF QueueInv, QueueStep
<1>8. PlaceSound(Dashboard)'
  <2>1. PICK item : item = Snapshot(i)
    OBVIOUS
  <2>2. Listing(item)'
    BY <1>1, <1>6, <2>1, SnapshotSound, ListingKept DEF QueueStep
  <2>3. st'[Dashboard].todo = <<item>> /\ DOMAIN <<item>> = {1} /\ <<item>>[1] = item /\ <<item>> # <<>>
    BY <1>3, <2>1
  <2>4. 0 <= Len(alerts') /\ Len(alerts') <= Len(alerts')
    BY <1>4 DEF ServiceTypes
  <2>5. st'[Dashboard].alert <= Len(alerts')
    BY <1>3, <1>5, <2>4
  <2>6. st'[Dashboard].pc \notin AtWork \cup Sending \cup {"once", "due", "analyze"}
    BY <1>3 DEF Asked, AtWork, Sending
  <2>7. (\A k \in DOMAIN st[Dashboard].todo : Listing(st[Dashboard].todo[k]))'
    BY <2>2, <2>3
  <2>8. ItemsDiffer(st[Dashboard].todo)'
    BY <2>3 DEF ItemsDiffer
  <2>9. st'[Dashboard].pc \in Asked /\ st'[Dashboard].todo # <<>> /\ st'[Dashboard].second = FALSE
    BY <1>3, <2>3
  <2> QED
    BY <2>5, <2>6, <2>7, <2>8, <2>9 DEF PlaceSound
<1>9. HolderSound(Dashboard)'
  BY <1>2, <1>3 DEF HolderSound, Asked, Sending
<1> QED
  BY <1>1, <1>2, <1>3, <1>4, <1>6, <1>7, <1>8, <1>9, StepKeeps

LEMMA ReplayAskedSound ==
  ASSUME QueueInv, NEW i \in DOMAIN rows, ReplayAsked(i)
  PROVE  QueueInv' /\ SettledStep
<1>1. PICK h : h = [Idle EXCEPT !.pc = "replay", !.todo = <<Snapshot(i)>>]
  OBVIOUS
<1>2. Snapshot(i) \in Items
  BY SnapshotSound DEF QueueInv
<1>3. /\ h \in Places /\ h.pc \in Asked /\ h.todo = <<Snapshot(i)>> /\ h.second = FALSE /\ h.alert = 0
  <2>1. PICK t : t = <<Snapshot(i)>>
    OBVIOUS
  <2>2. t \in Seq(Items)
    BY <1>2, <2>1
  <2> QED
    BY <1>1, <2>1, <2>2 DEF Idle, Places, Asked
<1>4. /\ Happens /\ Acquires(Dashboard, h)
      /\ UNCHANGED <<queueVars, controlVars, cycleVars, env, lost, accepted>>
  BY <1>1 DEF ReplayAsked
<1> QED
  BY <1>3, <1>4, AskedSound

LEMMA RebindAskedSound ==
  ASSUME QueueInv, NEW i \in DOMAIN rows, RebindAsked(i)
  PROVE  QueueInv' /\ SettledStep
<1>1. PICK h : h = [Idle EXCEPT !.pc = "rebind", !.todo = <<Snapshot(i)>>, !.alert = Len(alerts)]
  OBVIOUS
<1>2. Snapshot(i) \in Items
  BY SnapshotSound DEF QueueInv
<1>3. /\ h \in Places /\ h.pc \in Asked /\ h.todo = <<Snapshot(i)>> /\ h.second = FALSE
      /\ h.alert = Len(alerts)
  <2>1. PICK t, n : t = <<Snapshot(i)>> /\ n = Len(alerts)
    OBVIOUS
  <2>2. t \in Seq(Items) /\ n \in Nat
    BY <1>2, <2>1 DEF QueueInv, ServiceTypes
  <2> QED
    BY <1>1, <2>1, <2>2 DEF Idle, Places, Asked
<1>4. /\ Happens /\ Acquires(Dashboard, h)
      /\ UNCHANGED <<queueVars, controlVars, cycleVars, env, lost, accepted>>
  BY <1>1 DEF RebindAsked
<1> QED
  BY <1>3, <1>4, AskedSound

LEMMA DashboardSound ==
  ASSUME QueueInv, DashboardWork
  PROVE  QueueInv' /\ SettledStep
<1>1. Dashboard \in Procs /\ QueueTypes /\ ServiceTypes /\ RowsInv /\ PlaceSound(Dashboard)
  BY DEF QueueInv, PlacesInv, Procs
<1>2. /\ st[Dashboard].pc \in Asked /\ Releases(Dashboard)
      /\ UNCHANGED <<controlVars, cycleVars, env, lost, accepted, events>>
  BY DEF DashboardWork, Replay, Rebind, At, Asked
<1>3. alerts' = alerts /\ plan' = plan /\ due' = due /\ cycle' = cycle
  BY <1>2 DEF controlVars, cycleVars
<1>4. PICK old : old = Item(Dashboard)
  OBVIOUS
<1>5. old.id \in DOMAIN rows
  BY <1>1, <1>2, <1>4, ItemSound DEF PlaceSound, Listing
<1>6. CASE Replay
  <2>1. ReplayIntent(old.id, old.count)
    BY <1>4, <1>6 DEF Replay
  <2>2. QueueStep
    BY <1>1, <1>3, <1>5, <2>1, ReplayStep
  <2> QED
    BY <1>1, <1>2, <1>3, <2>2, ReleaseSound DEF AtRest, Asked, ServiceTypes
<1>7. CASE Rebind
  <2>1. PICK r, fp : r = Len(alerts) /\ fp = Fingerprint(Alert, Dashboard)
    OBVIOUS
  <2>2. UNCHANGED queueVars \/ (Rebindable(old, r, fp) /\ RebindIntent(old, r, fp))
    BY <1>4, <1>7, <2>1 DEF Rebind
  <2>3. r \in Nat \ {0} /\ r \in DOMAIN alerts /\ fp \in Endpoints \cup {None}
    BY <1>1, <2>1, AlertTyped
  <2>4. QueueStep
    <3>1. CASE UNCHANGED queueVars
      BY <1>1, <1>3, <3>1, NothingStep
    <3>2. CASE Rebindable(old, r, fp) /\ RebindIntent(old, r, fp)
      BY <1>1, <1>3, <1>5, <2>3, <3>2, RebindStep
    <3> QED
      BY <2>2, <3>1, <3>2
  <2> QED
    BY <1>1, <1>2, <1>3, <2>4, ReleaseSound DEF AtRest, Asked, ServiceTypes
<1> QED
  BY <1>6, <1>7 DEF DashboardWork

---------------------------------------------------------------------------
\* The invariant.

LEMMA InitQueueInv ==
  Init => QueueInv
<1> SUFFICES ASSUME Init
             PROVE  QueueInv
  OBVIOUS
<1>1. rows = << >> /\ line = <<>> /\ log = {} /\ DOMAIN rows = {}
  BY DEF Init, InitQueue
<1>2. QueueTypes
  <2>1. IsFiniteSet(DOMAIN rows)
    BY <1>1, FS_EmptySet
  <2>2. line \in Seq(Intents) /\ ToSet(line) = {} /\ IsInjective(line)
    BY <1>1 DEF ToSet, IsInjective
  <2>3. rows \in [DOMAIN rows -> Rows]
    BY <1>1
  <2> QED
    BY <1>1, <2>1, <2>2, <2>3 DEF QueueTypes
<1>3. RowsInv
  BY <1>1 DEF RowsInv
<1>4. PICK d \in Documents : alerts = <<d>>
  BY DEF Init
<1>5. alerts \in Seq(Documents) /\ alerts # <<>> /\ Len(alerts) = 1
  BY <1>4
<1>6. st \in [Procs -> Places] /\ \A p \in Procs : st[p] = Idle
  BY IdleIsPlace DEF Init
<1>7. ServiceTypes
  <2>1. plan \in [revision : Nat, active : BOOLEAN] /\ due \in [revision : Nat, ready : BOOLEAN]
    BY DEF Init
  <2>2. env \in [Procs -> Urls \cup {None}]
    BY DEF Init
  <2>3. /\ accepted = {} /\ cycle = "none" /\ guard = None /\ lost = FALSE /\ events = 0
        /\ 0 \in 0..MaxEvents
    BY ServiceAssumption DEF Init
  <2> QED
    BY <1>5, <1>6, <2>1, <2>2, <2>3 DEF ServiceTypes
<1>8. PlacesInv
  BY <1>5, <1>6, IdleIsPlace DEF PlacesInv, PlaceSound, ItemsDiffer, Sending, AtWork, Asked
<1>9. HolderInv
  BY <1>6, IdleIsPlace DEF HolderInv, HolderSound, Sending
<1>10. SentIsBound
  BY DEF Init, SentIsBound
<1> QED
  BY <1>2, <1>3, <1>7, <1>8, <1>9, <1>10 DEF QueueInv

LEMMA QueueInvStuttering ==
  ASSUME QueueInv, UNCHANGED vars
  PROVE  QueueInv'
<1>1. /\ UNCHANGED <<rows, line, log, alerts, plan, due, cycle, env, st, guard, lost, accepted, events>>
  BY DEF vars, queueVars, controlVars, cycleVars
<1>2. QueueTypes /\ ServiceTypes /\ RowsInv /\ HolderInv
  BY DEF QueueInv
<1>3. UNCHANGED queueVars
  BY <1>1 DEF queueVars
<1>4. QueueStep
  BY <1>1, <1>2, <1>3, NothingStep
<1>5. ServiceTypes' /\ AlertsKept
  BY <1>1, <1>2, AlertsUnchanged DEF ServiceTypes
<1>6. ~lost => \A q \in Procs : HolderSound(q)'
  BY <1>1, <1>2, HoldersKept
<1> QED
  BY <1>1, <1>4, <1>5, <1>6, OutsideKeeps

\* One step for each action.
LEMMA NextQueueInv ==
  ASSUME QueueInv, Next
  PROVE  QueueInv' /\ SettledStep
<1>1. ASSUME NEW w \in Workers, Poll(w)
      PROVE  QueueInv' /\ SettledStep
  BY <1>1, PollSound
<1>2. ASSUME NEW w \in Workers, ReadPlan(w)
      PROVE  QueueInv' /\ SettledStep
  BY <1>2, ReadPlanSound
<1>3. ASSUME NEW w \in Workers, Work(w)
      PROVE  QueueInv' /\ SettledStep
  BY <1>3, RunOnceSound, ListToProbeSound, ListToSendSound, ProbeSound, PrepareSound, SendSound,
     RecordSound, DrainEndsSound, BeginCycleSound, AnalyzeSound, FinishStatusSound,
     FinishDueSound DEF Work
<1>4. ASSUME NEW w \in Workers, CycleFails(w)
      PROVE  QueueInv' /\ SettledStep
  BY <1>4, CycleFailsSound
<1>5. ASSUME NEW p \in Procs, Restart(p)
      PROVE  QueueInv' /\ SettledStep
  BY <1>5, RestartSound
<1>6. CASE DashboardWork
  BY <1>6, DashboardSound
<1>7. ASSUME NEW i \in DOMAIN rows, ReplayAsked(i)
      PROVE  QueueInv' /\ SettledStep
  BY <1>7, ReplayAskedSound
<1>8. ASSUME NEW i \in DOMAIN rows, RebindAsked(i)
      PROVE  QueueInv' /\ SettledStep
  BY <1>8, RebindAskedSound
<1>9. CASE EditPlan
  BY <1>9, EditPlanSound
<1>10. CASE EditAlert
  BY <1>10, EditAlertSound
<1>11. CASE LoseGuard
  BY <1>11, LoseGuardSound
<1>12. CASE DueTimeComes \/ \E n \in Notifications : RetryTimeComes(n)
  BY <1>12, TimeSound
<1> QED
  BY <1>1, <1>2, <1>3, <1>4, <1>5, <1>6, <1>7, <1>8, <1>9, <1>10, <1>11, <1>12 DEF Next

\* The rows, the lists of the processes, the holder of the guard and what was sent
\* fit together.
THEOREM QueueInvariant == Spec => []QueueInv
<1>1. Init => QueueInv
  BY InitQueueInv
<1>2. QueueInv /\ [Next]_vars => QueueInv'
  BY NextQueueInv, QueueInvStuttering
<1> QED
  BY <1>1, <1>2, PTL DEF Spec

\* The state keeps to its types, and a notification is in line once.
THEOREM QueueTypesHold == Spec => []TypeOK
<1>1. QueueInv => TypeOK
  <2> SUFFICES ASSUME QueueInv
               PROVE  TypeOK
    OBVIOUS
  <2>1. QueueTypes /\ ServiceTypes /\ RowsInv /\ PlacesInv
    BY DEF QueueInv
  <2>2. QueueTypeOK
    BY <2>1 DEF QueueTypeOK, QueueTypes, RowsInv, RowSound
  <2>3. ASSUME NEW p \in Procs
        PROVE  /\ DOMAIN st[p] = DOMAIN Idle
               /\ \A k \in DOMAIN st[p].todo : st[p].todo[k].id \in DOMAIN rows
               /\ st[p].alert \in 0..Len(alerts)
    <3>1. st[p] \in Places /\ PlaceSound(p)
      BY <2>1 DEF ServiceTypes, PlacesInv
    <3>2. DOMAIN st[p] = DOMAIN Idle
      BY <3>1 DEF Places, Idle
    <3>3. \A k \in DOMAIN st[p].todo : st[p].todo[k].id \in DOMAIN rows
      BY <3>1 DEF PlaceSound, Listing
    <3>4. st[p].alert \in Nat /\ st[p].alert <= Len(alerts) /\ Len(alerts) \in Nat
      BY <2>1, <3>1 DEF Places, PlaceSound, ServiceTypes
    <3> QED
      BY <3>2, <3>3, <3>4
  <2> QED
    BY <2>1, <2>2, <2>3 DEF TypeOK, ServiceTypes
<1> QED
  BY <1>1, QueueInvariant, PTL

\* Attempts are bounded, and each replay buys one, whoever races with whom.
THEOREM AttemptsAreBounded == Spec => []AttemptsBounded
<1>1. QueueInv => AttemptsBounded
  BY DEF QueueInv, RowsInv, RowSound, AttemptsBounded
<1> QED
  BY <1>1, QueueInvariant, PTL

\* What leaves the process is what some intent was bound to it for and, while nobody
\* has lost the guard, what was reviewed and not delivered before.
THEOREM NotificationsAreSentAsIntended == Spec => []SentAsIntended
<1>1. QueueInv => SentAsIntended
  <2> SUFFICES ASSUME QueueInv
               PROVE  SentOnceAsReviewed /\ SentIsBound
    BY DEF SentAsIntended
  <2>1. SentOnceAsReviewed
    BY DEF QueueInv, HolderInv, HolderSound, SentOnceAsReviewed, At, Procs
  <2> QED
    BY <2>1 DEF QueueInv
<1> QED
  BY <1>1, QueueInvariant, PTL

\* A cycle that has begun reads as started until it has finished.
THEOREM StatusesAreHonest == Spec => []StatusIsHonest
<1>1. QueueInv => StatusIsHonest
  BY DEF QueueInv, HolderInv, HolderSound, StatusIsHonest, At, Procs
<1> QED
  BY <1>1, QueueInvariant, PTL

\* A delivered or superseded intent stays so.
THEOREM SettledStaysSettled == Spec => SettledForGood
<1>1. QueueInv /\ [Next]_vars =>
        [\A i \in DOMAIN rows :
           rows[i].status \in {"delivered", "superseded"} => rows'[i] = rows[i]]_queueVars
  <2>1. QueueInv /\ Next => SettledStep
    BY NextQueueInv
  <2> QED
    BY <2>1 DEF SettledStep, vars
<1> QED
  BY <1>1, QueueInvariant, PTL DEF Spec, SettledForGood

=============================================================================
