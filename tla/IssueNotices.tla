----------------------------- MODULE IssueNotices -----------------------------
(***************************************************************************)
(* Notices of recorded failures, and the later passes that users attach to *)
(* them (dashboard/issue_notices.py).  A scan looks at all evidence since  *)
(* the activation of the schedule, first events and then runs, in pages    *)
(* that are transactions of their own; evidence comes and goes in between. *)
(* Scans overlap when the cycle guard is lost.                             *)
(***************************************************************************)
EXTENDS Integers, FiniteSets

CONSTANTS
  Scans,
  Evidence,    \* all that may be recorded: events, and runs that failed or timed out
  Failed(_),   \* the events that recorded_event_issue gives a code, and the runs
  Activation,  \* the time of the first active schedule
  PageSize,    \* page_size
  MaxRechecks  \* MAX_RECHECKS_PER_NOTICE

\* Evidence has a time and a name, which order it.
ASSUME NoticesAssumption ==
  /\ Evidence \subseteq [kind : {"event", "run"}, at : Nat, id : Nat]
  /\ PageSize \in Nat \ {0} /\ MaxRechecks \in Nat

VARIABLES
  recorded, \* the evidence there is
  notice,   \* notice[e]: the state of the notice of e
  rechecks, \* rechecks[e]: what is attached to it
  scan      \* scan[s]: where a scan is, and what it owes: the evidence there was when
            \* it began, unless it is gone

noticeVars == <<recorded, notice, rechecks, scan>>

NoScan == [pc |-> "none", at |-> -1, id |-> -1, owes |-> {}]

NoticesTypeOK ==
  /\ recorded \subseteq Evidence
  /\ notice \in [Evidence -> {"none", "open", "reviewed"}]
  /\ \A e \in Evidence : /\ rechecks[e] \subseteq Evidence
                         /\ Cardinality(rechecks[e]) <= MaxRechecks
                         /\ rechecks[e] # {} => notice[e] # "none"
  /\ \A s \in Scans : scan[s].owes \subseteq recorded

NoticesInit ==
  /\ recorded = {} /\ notice = [e \in Evidence |-> "none"]
  /\ rechecks = [e \in Evidence |-> {}]
  /\ scan = [s \in Scans |-> NoScan]

---------------------------------------------------------------------------
\* Imports bring evidence of any time; the events of a rewritten history go.

Recorded(e) ==
  /\ e \notin recorded
  /\ recorded' = recorded \cup {e}
  /\ UNCHANGED <<notice, rechecks, scan>>

Withdraw(e) ==
  /\ e \in recorded /\ e.kind = "event"
  /\ recorded' = recorded \ {e}
  /\ scan' = [s \in Scans |-> [scan[s] EXCEPT !.owes = @ \ {e}]]
  /\ UNCHANGED <<notice, rechecks>>

---------------------------------------------------------------------------
\* scan.

Follows(e, at, id) == e.at > at \/ (e.at = at /\ e.id > id)

Precedes(e, f) == Follows(f, e.at, e.id)

\* A faulty variant: the next page begins at the next time.
AheadByTime(kind, at, id) ==
  {e \in recorded : e.kind = kind /\ e.at >= Activation /\ e.at > at}

\* What is left for a cursor.
Ahead(kind, at, id) ==
  {e \in recorded : e.kind = kind /\ e.at >= Activation /\ Follows(e, at, id)}

\* The first PageSize of them.
PageOf(left) == {e \in left : Cardinality({f \in left : Precedes(f, e)}) < PageSize}

ScanBegins(s) ==
  /\ scan[s].pc = "none"
  /\ scan' = [scan EXCEPT ![s] = [NoScan EXCEPT !.pc = "event",
                                  !.owes = {e \in recorded : e.at >= Activation /\ Failed(e)}]]
  /\ UNCHANGED <<recorded, notice, rechecks>>

\* Notices that are there stay as they are.
NoticeAll(page) ==
  notice' = [e \in Evidence |-> IF e \in page /\ Failed(e) /\ notice[e] = "none" THEN "open"
                                ELSE notice[e]]

\* A page, and the commit after it.  The cursor moves to its last row; a page that is
\* not full was the last one.
ScanPage(s, kind) ==
  LET page == PageOf(Ahead(kind, scan[s].at, scan[s].id))
  IN /\ scan[s].pc = kind
     /\ NoticeAll(page)
     /\ IF Cardinality(page) < PageSize
        THEN scan' = [scan EXCEPT ![s].pc = IF kind = "event" THEN "run" ELSE "done",
                                  ![s].at = -1, ![s].id = -1]
        ELSE \E last \in page :
               /\ \A e \in page : e = last \/ Precedes(e, last)
               /\ scan' = [scan EXCEPT ![s].at = last.at, ![s].id = last.id]
     /\ UNCHANGED <<recorded, rechecks>>

\* The scan is over, or its process.
ScanEnds(s) ==
  /\ scan[s].pc # "none"
  /\ scan' = [scan EXCEPT ![s] = NoScan]
  /\ UNCHANGED <<recorded, notice, rechecks>>

---------------------------------------------------------------------------
\* transition: only an open notice is acknowledged or dismissed.
Review(e) ==
  /\ notice[e] = "open"
  /\ notice' = [notice EXCEPT ![e] = "reviewed"]
  /\ UNCHANGED <<recorded, rechecks, scan>>

\* attach_recheck, one transaction: both events are there, the second is a later pass;
\* what is attached but gone makes room.
AttachRecheck(e, f) ==
  LET kept == rechecks[e] \cap recorded
  IN /\ notice[e] # "none" /\ e.kind = "event" /\ f.kind = "event"
     /\ {e, f} \subseteq recorded /\ ~Failed(f) /\ f.at > e.at
     /\ f \in kept \/ Cardinality(kept) < MaxRechecks
     /\ rechecks' = [rechecks EXCEPT ![e] = kept \cup {f}]
     /\ UNCHANGED <<recorded, notice, scan>>

NoticesNext ==
  \/ \E e \in Evidence : Recorded(e) \/ Withdraw(e) \/ Review(e) \/ \E f \in Evidence : AttachRecheck(e, f)
  \/ \E s \in Scans : ScanBegins(s) \/ ScanPage(s, "event") \/ ScanPage(s, "run") \/ ScanEnds(s)

---------------------------------------------------------------------------
\* Properties.

\* A scan that ends has looked at all failures that were there when it began: no page
\* skips any although evidence is written and withdrawn between the pages.
ScannedIsNoticed ==
  \A s \in Scans : scan[s].pc = "done" => \A e \in scan[s].owes : notice[e] # "none"

===============================================================================
