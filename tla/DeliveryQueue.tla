----------------------------- MODULE DeliveryQueue -----------------------------
(***************************************************************************)
(* The table of notification obligations (delivery_queue.py and the        *)
(* transactions on notification_delivery_queue of storage/sqlite.py and    *)
(* storage/postgres.py).  Each operation below is one transaction.         *)
(*                                                                         *)
(* An intent is identified by its notification and by the revisions of the *)
(* alert document under which it was created and then rebound, the last of *)
(* which determines destination and environment variable.  Due times are   *)
(* kept as an order: line holds the intents whose time has come, in the    *)
(* order of next_due_at or next_probe_at; other open intents wait for it.  *)
(***************************************************************************)
EXTENDS Integers, Sequences, FiniteSets, Functions, SequencesExt

CONSTANTS
  Notifications,
  Urls,        \* valid webhook URLs, which stand for their fingerprints
  None,        \* no URL
  MaxAttempts  \* max_attempts of finish_delivery_intent_attempt

LocalLog == "local_log"
Endpoints == Urls \cup {LocalLog}

ASSUME QueueAssumption ==
  IsFiniteSet(Notifications) /\ None \notin Endpoints /\ MaxAttempts \in Nat \ {0}

VARIABLES
  rows, \* rows[i], for every intent stored so far
  line, \* intents whose time has come
  log   \* notification and endpoint of every attempt recorded as delivered

queueVars == <<rows, line, log>>

Intents == [of : Notifications, chain : Seq(Nat \ {0})]
Revision(i) == Last(i.chain)

Rows ==
  [status : {"pending", "unbound", "failed", "delivered", "blocked", "exhausted", "superseded"},
   fp : Endpoints \cup {None}, count : Nat, replays : Nat]

Sendable == {i \in DOMAIN rows : rows[i].status \in {"pending", "failed"}}
Unbound == {i \in DOMAIN rows : rows[i].status = "unbound"}
Open == Sendable \cup Unbound

QueueTypeOK ==
  /\ DOMAIN rows \subseteq Intents
  /\ \A i \in DOMAIN rows : rows[i] \in Rows /\ (rows[i].status = "unbound" => rows[i].fp = None)
  /\ ToSet(line) \subseteq Open /\ IsInjective(line)
  /\ log \subseteq Notifications \X Endpoints

InitQueue == rows = << >> /\ line = <<>> /\ log = {}

---------------------------------------------------------------------------
Place(i) == CHOOSE k \in DOMAIN line : line[k] = i
Without(i) ==
  IF i \in ToSet(line)
  THEN [k \in 1..(Len(line) - 1) |-> IF k < Place(i) THEN line[k] ELSE line[k + 1]]
  ELSE line

\* Intents that become due at one time do so in the order of their hashes.
Orders(S) == {seq \in [1..Cardinality(S) -> S] : IsInjective(seq)}

\* The intents of a set that are in line: the one sequence that has its order.
InLine(S) ==
  {seq \in Orders(S \cap ToSet(line)) :
     \A j, k \in DOMAIN seq : j < k => Place(seq[j]) < Place(seq[k])}

\* A row of the two lists of the drain, as read.
Snapshot(i) == [id |-> i, status |-> rows[i].status, count |-> rows[i].count, fp |-> rows[i].fp]
Listed(seq) == [k \in DOMAIN seq |-> Snapshot(seq[k])]

ListUnbound == {Listed(seq) : seq \in InLine(Unbound)}
ListDue(limit) ==
  {Listed([k \in 1..(IF Len(seq) < limit THEN Len(seq) ELSE limit) |-> seq[k]]) :
     seq \in InLine(Sendable)}

\* A faulty variant: a failed attempt leaves no time for the next one.
TimePassesUnbound(n) ==
  LET waiting == {i \in Unbound \ ToSet(line) : i.of = n}
  IN /\ waiting # {}
     /\ \E seq \in Orders(waiting) : line' = line \o seq
     /\ UNCHANGED <<rows, log>>

\* The time of the intents that wait comes.  (Those of one notification wait
\* together.)
TimePasses(n) ==
  LET waiting == {i \in Open \ ToSet(line) : i.of = n}
  IN /\ waiting # {}
     /\ \E seq \in Orders(waiting) : line' = line \o seq
     /\ UNCHANGED <<rows, log>>

NewRow(fp) ==
  [status |-> IF fp = None THEN "unbound" ELSE "pending", fp |-> fp, count |-> 0, replays |-> 0]

\* Intents that are stored already stay as they are.
InsertIntents(S, fp) ==
  LET new == S \ DOMAIN rows
  IN /\ rows' = [i \in DOMAIN rows \cup S |-> IF i \in new THEN NewRow(fp) ELSE rows[i]]
     /\ \E seq \in Orders(new) : line' = line \o seq
     /\ UNCHANGED log

\* A URL has been found for the intent, or is to be looked for later.
ProbeIntent(i, fp) ==
  /\ IF i \in Unbound
     THEN /\ rows' = IF fp = None THEN rows
                     ELSE [rows EXCEPT ![i].status = "pending", ![i].fp = fp]
          /\ line' = IF fp = None THEN Without(i) ELSE Append(Without(i), i)
     ELSE UNCHANGED <<rows, line>>
  /\ UNCHANGED log

BlockIntent(i) ==
  /\ IF i \in Open
     THEN rows' = [rows EXCEPT ![i].status = "blocked"] /\ line' = Without(i)
     ELSE UNCHANGED <<rows, line>>
  /\ UNCHANGED log

\* The row is as the caller saw it.
Unchanged(i, count) == i \in Sendable /\ rows[i].count = count

\* Some intent of the notification has been delivered to this endpoint before.
PreviouslyDelivered(i, count) == Unchanged(i, count) /\ <<i.of, rows[i].fp>> \in log

MarkDelivered(i) ==
  /\ rows' = [rows EXCEPT ![i].status = "delivered"]
  /\ line' = Without(i)
  /\ UNCHANGED log

\* A faulty variant: the attempt is recorded whatever became of the row.
FinishAttemptBlindly(i, count, delivered) ==
  LET status == CASE delivered -> "delivered"
                  [] ~delivered /\ count + 1 >= MaxAttempts -> "exhausted"
                  [] OTHER -> "failed"
  IN /\ rows' = [rows EXCEPT ![i].status = status, ![i].count = count + 1]
     /\ line' = Without(i)
     /\ log' = IF delivered THEN log \cup {<<i.of, rows[i].fp>>} ELSE log

\* The attempt and what becomes of the intent are recorded together, unless the
\* row has changed since it was listed.
FinishAttempt(i, count, delivered) ==
  LET status == CASE delivered -> "delivered"
                  [] ~delivered /\ count + 1 >= MaxAttempts -> "exhausted"
                  [] OTHER -> "failed"
  IN IF Unchanged(i, count)
     THEN /\ rows' = [rows EXCEPT ![i].status = status, ![i].count = @ + 1]
          /\ line' = Without(i)
          /\ log' = IF delivered THEN log \cup {<<i.of, rows[i].fp>>} ELSE log
     ELSE UNCHANGED queueVars

\* An exhausted intent gets one more attempt.
ReplayIntent(i, count) ==
  IF rows[i].status = "exhausted" /\ rows[i].count = count
  THEN /\ rows' = [rows EXCEPT ![i].status = "failed", ![i].replays = @ + 1]
       /\ line' = Append(Without(i), i)
       /\ UNCHANGED log
  ELSE UNCHANGED queueVars

\* May an intent be replaced by one of alert revision r and endpoint fp, when its
\* row was last seen as old?
Rebindable(old, r, fp) ==
  /\ rows[old.id].status = old.status /\ rows[old.id].count = old.count
  /\ old.status \in {"pending", "failed", "blocked", "exhausted"}
  /\ r # Revision(old.id) \/ fp # rows[old.id].fp

Rebound(i, r) == [of |-> i.of, chain |-> Append(i.chain, r)]
Supersedes(i, new, fp) ==
  rows' = [j \in DOMAIN rows \cup {new} |->
             CASE j = new -> NewRow(fp)
               [] j = i   -> [rows[i] EXCEPT !.status = "superseded"]
               [] OTHER   -> rows[j]]

\* A faulty variant: the old intent stays in line.
RebindBeside(old, r, fp) ==
  LET new == Rebound(old.id, r)
  IN /\ Supersedes(old.id, new, fp)
     /\ line' = Append(line, new)
     /\ UNCHANGED log

\* The old intent is superseded by one that carries on its notification.
RebindIntent(old, r, fp) ==
  LET new == Rebound(old.id, r)
  IN /\ Supersedes(old.id, new, fp)
     /\ line' = Append(Without(old.id), new)
     /\ UNCHANGED log

=============================================================================
