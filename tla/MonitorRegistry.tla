---------------------------- MODULE MonitorRegistry ----------------------------
(***************************************************************************)
(* The drift monitors of one scope: policies and their snapshots, as kept  *)
(* by the transactions on monitor_policies and monitor_snapshots of        *)
(* storage/sqlite.py and storage/postgres.py, and their users: previews    *)
(* and activations of dashboard/monitor_routes.py, and advance_monitor of  *)
(* monitor_inputs.py, which the worker and the dashboard both run.         *)
(*                                                                         *)
(* A snapshot is a manifest with the comparison that follows from it, and  *)
(* is identified by its content.  Only prospective units are modelled;     *)
(* what a historical cohort holds is evidence that has happened before.    *)
(***************************************************************************)
EXTENDS Integers, Sequences, FiniteSets, SequencesExt

CONSTANTS
  Policies,
  Units,
  Target,     \* prospective_target: the size of a cohort
  Drifted,    \* cohorts that compare as alert or reference_stale
  Worker,     \* the run of the worker, which passes delivery_intent_factory
  Dashboards, \* runs of the dashboard, which do not
  Requests,   \* activation requests
  NoPolicy

Runs == {Worker} \cup Dashboards

ASSUME MonitorAssumption ==
  /\ Target \in Nat \ {0} /\ Drifted \subseteq SUBSET Units
  /\ Worker \notin Dashboards /\ NoPolicy \notin Policies

VARIABLES
  state,    \* state of every policy, "none" if there is none yet
  chain,    \* its snapshots, in the order they were written
  happened, \* units in the order of their event times
  arrived,  \* those whose traces are stored
  intents,  \* snapshots (of a policy) with a notification intent
  run,      \* run[r]: where a run is
  request   \* request[a]: where an activation is

policyVars == <<state, chain>>
evidenceVars == <<happened, arrived>>
monitorVars == <<policyVars, evidenceVars, intents, run, request>>

\* start holds the units before prospective_start_at, consumed those of the
\* prospective cohorts so far, index counts the comparisons.
Snapshots ==
  [index : Nat, start : SUBSET Units, current : SUBSET Units, consumed : SUBSET Units]

Historical == [index |-> 0, start |-> {}, current |-> {}, consumed |-> {}]

IsOpen(s) == s.index > 0 /\ Cardinality(s.current) < Target

\* An open cohort compares as insufficient.
IsAlert(s) == s.index > 0 /\ ~IsOpen(s) /\ s.current \in Drifted

IdleRun == [pc |-> "idle", policy |-> NoPolicy, before |-> Historical, after |-> Historical]
NoRequest == [pc |-> "asked", policy |-> NoPolicy, expected |-> NoPolicy, prepared |-> Historical]
Over(a) == [request EXCEPT ![a] = [NoRequest EXCEPT !.pc = "over"]]

MonitorTypeOK ==
  /\ state \in [Policies -> {"none", "candidate", "active", "retired"}]
  /\ \A p \in Policies : /\ \A k \in DOMAIN chain[p] : chain[p][k] \in Snapshots
                         /\ state[p] = "none" <=> chain[p] = <<>>
                         /\ IsInjective(chain[p])
  /\ IsInjective(happened) /\ arrived \subseteq ToSet(happened)
  /\ \A i \in intents : i[1] \in Policies /\ i[2] \in ToSet(chain[i[1]])
  /\ \A r \in Runs : run[r].policy \in Policies \cup {NoPolicy}
  /\ \A a \in Requests : request[a].expected \in Policies \cup {NoPolicy}

MonitorInit ==
  /\ state = [p \in Policies |-> "none"]
  /\ chain = [p \in Policies |-> <<>>]
  /\ happened = <<>> /\ arrived = {} /\ intents = {}
  /\ run = [r \in Runs |-> IdleRun]
  /\ request = [a \in Requests |-> NoRequest]

---------------------------------------------------------------------------
Latest(p) == Last(chain[p])

Active == {p \in Policies : state[p] = "active"}

\* The first n units of S by event time.
Earliest(n, S) ==
  {happened[i] : i \in {k \in DOMAIN happened : /\ happened[k] \in S
                                               /\ Cardinality({j \in 1..k : happened[j] \in S}) <= n}}

\* plan_prospective_manifest: the stored units since the boundary that no cohort
\* has, first by event time, fill the open cohort, or else the next one.
Plan(s) ==
  LET room == IF IsOpen(s) THEN Target - Cardinality(s.current) ELSE Target
      admitted == Earliest(room, arrived \ (s.start \cup s.consumed))
  IN [s EXCEPT !.index = IF IsOpen(s) THEN @ ELSE @ + 1,
               !.current = admitted \cup IF IsOpen(s) THEN @ ELSE {},
               !.consumed = @ \cup admitted]

\* The same at the activation of a candidate: an empty cohort from now on.
PlanFromNow == [Historical EXCEPT !.index = 1, !.start = ToSet(happened)]

\* A faulty variant: a successor of whatever the head is now.
SucceedsAnyway(p, expected, head) == state[p] = expected

\* _save_monitor_successor is refused unless state and head are as expected.
Succeeds(p, expected, head) == state[p] = expected /\ Latest(p) = head

\* save_monitor_snapshot: a snapshot that is stored already stays where it is.
Stored(p, s) == chain' = [chain EXCEPT ![p] = IF s \in ToSet(@) THEN @ ELSE Append(@, s)]

---------------------------------------------------------------------------
\* Evidence: a unit happens, and its trace is stored some time later.

Happen(u) ==
  /\ u \notin ToSet(happened)
  /\ happened' = Append(happened, u)
  /\ UNCHANGED <<policyVars, arrived, intents, run, request>>

Arrive(u) ==
  /\ u \in ToSet(happened) \ arrived
  /\ arrived' = arrived \cup {u}
  /\ UNCHANGED <<policyVars, happened, intents, run, request>>

\* monitor_preview: save_monitor_candidate stores a policy and its historical
\* snapshot in one transaction.
Preview(p) ==
  /\ state[p] = "none"
  /\ state' = [state EXCEPT ![p] = "candidate"]
  /\ chain' = [chain EXCEPT ![p] = <<Historical>>]
  /\ UNCHANGED <<evidenceVars, intents, run, request>>

---------------------------------------------------------------------------
\* advance_monitor.

\* The active policy, its head and the units are read, and the next cohort planned.
\* (These are reads one after the other.  Were policy or head to change before the
\* units are read, the plan would be refused and forgotten.)
Compare(r) ==
  /\ run[r].pc = "idle"
  /\ \E p \in Active :
       run' = [run EXCEPT ![r] = [pc |-> "save", policy |-> p, before |-> Latest(p),
                                  after |-> Plan(Latest(p))]]
  /\ UNCHANGED <<policyVars, evidenceVars, intents, request>>

\* save_monitor_successor, or save_worker_monitor_successor with the intent.
Save(r) ==
  LET p == run[r].policy
      s == run[r].after
  IN /\ run[r].pc = "save"
     /\ IF Succeeds(p, "active", run[r].before)
        THEN /\ Stored(p, s)
             /\ intents' = IF r = Worker /\ IsAlert(s) THEN intents \cup {<<p, s>>} ELSE intents
             /\ run' = [run EXCEPT ![r].pc = "done"]
        ELSE run' = [run EXCEPT ![r].pc = "lost"] /\ UNCHANGED <<chain, intents>>
     /\ UNCHANGED <<state, evidenceVars, request>>

\* A faulty variant: whoever stored the alert is expected to notify of it.
YieldSilently(r) ==
  LET p == run[r].policy
      winner == Latest(p)
  IN /\ run[r].pc = "lost"
     /\ run' = IF state[p] # "active" \/ winner = run[r].before
               THEN [run EXCEPT ![r] = IdleRun]
               ELSE [run EXCEPT ![r].after = winner, ![r].pc = "done"]
     /\ UNCHANGED <<policyVars, evidenceVars, intents, request>>

\* Another run has been faster.  Its snapshot is the result of this one too, ...
Yield(r) ==
  LET p == run[r].policy
      winner == Latest(p)
  IN /\ run[r].pc = "lost"
     /\ run' = IF state[p] # "active" \/ winner = run[r].before
               THEN [run EXCEPT ![r] = IdleRun]
               ELSE [run EXCEPT ![r].after = winner,
                                ![r].pc = IF r = Worker /\ IsAlert(winner) THEN "attach" ELSE "done"]
     /\ UNCHANGED <<policyVars, evidenceVars, intents, request>>

\* ... and gets an intent, if it still is the head.
Attach(r) ==
  LET p == run[r].policy
      s == run[r].after
  IN /\ run[r].pc = "attach"
     /\ IF Succeeds(p, "active", s)
        THEN intents' = intents \cup {<<p, s>>} /\ run' = [run EXCEPT ![r].pc = "done"]
        ELSE run' = [run EXCEPT ![r] = IdleRun] /\ UNCHANGED intents
     /\ UNCHANGED <<policyVars, evidenceVars, request>>

\* The result is reported, or the process ends, whatever it was at.
EndRun(r) ==
  /\ run[r].pc # "idle"
  /\ run' = [run EXCEPT ![r] = IdleRun]
  /\ UNCHANGED <<policyVars, evidenceVars, intents, request>>

---------------------------------------------------------------------------
\* monitor_activate.

\* An operator has seen a candidate and the active policy.
ActivationAsked(a) ==
  /\ request[a].pc = "asked"
  /\ \E p \in Policies, e \in IF Active = {} THEN {NoPolicy} ELSE Active :
       /\ state[p] = "candidate"
       /\ request' = [request EXCEPT ![a] = [NoRequest EXCEPT !.pc = "check", !.policy = p,
                                                              !.expected = e]]
  /\ UNCHANGED <<policyVars, evidenceVars, intents, run>>

\* _prepared_activation_snapshot: an empty first cohort.
IsPrepared(s) == s.index = 1 /\ s.current = {}

\* The policy must be a candidate, which is prepared now unless it was before.
Check(a) ==
  LET head == Latest(request[a].policy)
  IN /\ request[a].pc = "check"
     /\ request' = IF state[request[a].policy] = "candidate"
                   THEN IF head = Historical
                        THEN [request EXCEPT ![a].pc = "prepare", ![a].prepared = PlanFromNow]
                        ELSE [request EXCEPT ![a].pc = "activate", ![a].prepared = head]
                   ELSE Over(a)
     /\ UNCHANGED <<policyVars, evidenceVars, intents, run>>

Prepare(a) ==
  LET p == request[a].policy
  IN /\ request[a].pc = "prepare"
     /\ IF Succeeds(p, "candidate", Historical)
        THEN Stored(p, request[a].prepared) /\ request' = [request EXCEPT ![a].pc = "activate"]
        ELSE request' = [request EXCEPT ![a].pc = "reread"] /\ UNCHANGED chain
     /\ UNCHANGED <<state, evidenceVars, intents, run>>

\* Another request may have prepared it.
Reread(a) ==
  LET head == Latest(request[a].policy)
  IN /\ request[a].pc = "reread"
     /\ request' = IF IsPrepared(head)
                   THEN [request EXCEPT ![a].pc = "activate", ![a].prepared = head]
                   ELSE Over(a)
     /\ UNCHANGED <<policyVars, evidenceVars, intents, run>>

\* A faulty variant: the policy that was active is not compared.
ActivateAnyway(a) ==
  LET p == request[a].policy
  IN /\ request[a].pc = "activate"
     /\ state' = [q \in Policies |-> CASE q = p -> "active"
                                       [] q # p /\ state[q] \in {"active", "candidate"} -> "retired"
                                       [] OTHER -> state[q]]
     /\ request' = [request EXCEPT ![a].pc = "answered"]
     /\ UNCHANGED <<chain, evidenceVars, intents, run>>

\* activate_monitor_policy
Activate(a) ==
  LET p == request[a].policy
  IN /\ request[a].pc = "activate"
     /\ IF Active = {request[a].expected} \ {NoPolicy}
        THEN /\ state' = [q \in Policies |-> CASE q = p -> "active"
                                               [] q # p /\ state[q] \in {"active", "candidate"} -> "retired"
                                               [] OTHER -> state[q]]
             /\ request' = [request EXCEPT ![a].pc = "answered"]
        ELSE request' = Over(a) /\ UNCHANGED state
     /\ UNCHANGED <<chain, evidenceVars, intents, run>>

\* The operator has the answer, or the process has ended.
EndRequest(a) ==
  /\ request[a].pc \notin {"asked", "over"}
  /\ request' = Over(a)
  /\ UNCHANGED <<policyVars, evidenceVars, intents, run>>

---------------------------------------------------------------------------
Advance(r) == Compare(r) \/ Save(r) \/ Yield(r) \/ Attach(r) \/ EndRun(r)

Activation(a) ==
  ActivationAsked(a) \/ Check(a) \/ Prepare(a) \/ Reread(a) \/ Activate(a) \/ EndRequest(a)

MonitorNext ==
  \/ \E u \in Units : Happen(u) \/ Arrive(u)
  \/ \E p \in Policies : Preview(p)
  \/ \E r \in Runs : Advance(r)
  \/ \E a \in Requests : Activation(a)

---------------------------------------------------------------------------
\* Properties.

\* At most one policy is active, and a policy that was retired is never active
\* again, although an activation trusts a state it read some time ago.
RetiredForGood ==
  [][/\ Cardinality(Active') <= 1
     /\ \A p \in Policies : state[p] = "retired" => state'[p] = "retired"]_policyVars

\* Whoever advances the monitor, from one snapshot to the next the open cohort
\* grows, or the next cohort begins, with units that no cohort has.
CohortsAreDisjoint ==
  \A p \in Policies : \A k \in 2..Len(chain[p]) :
    LET old == chain[p][k - 1]
        new == chain[p][k]
    IN /\ new.index = IF IsOpen(old) THEN old.index ELSE old.index + 1
       /\ IF IsOpen(old) THEN old.current \subseteq new.current
                         ELSE new.current \cap old.consumed = {}
       /\ Cardinality(new.current) <= Target
       /\ new.consumed = old.consumed \cup new.current

\* ADR-008: activation stores an immutable event-time boundary, and evidence whose
\* event time predates it never enters a later current cohort.  It is the boundary
\* that the activation has answered with.
BoundaryIsImmutable ==
  /\ \A p \in Policies : \A k \in 2..Len(chain[p]) :
       /\ chain[p][k].start = chain[p][2].start
       /\ chain[p][k].consumed \cap chain[p][2].start = {}
  /\ \A a \in Requests : request[a].pc = "answered" =>
       chain[request[a].policy][2] = request[a].prepared

\* Cohorts are what a comparison rests on, in tables that keep to their indexes.
CohortsAreSound == MonitorTypeOK /\ CohortsAreDisjoint /\ BoundaryIsImmutable

\* When the worker reports an alert, it has a notification intent, although a run
\* of the dashboard may have stored it.
ReportedIsNotified ==
  run[Worker].pc = "done" /\ IsAlert(run[Worker].after) =>
    <<run[Worker].policy, run[Worker].after>> \in intents

==============================================================================
