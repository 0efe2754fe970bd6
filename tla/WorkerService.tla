---------------------------- MODULE WorkerService ----------------------------
(***************************************************************************)
(* The worker cycle of service.py with dashboard/worker_status.py, and the *)
(* dashboard operations of control_routes.py that share its guard: editing *)
(* the alert document, replaying and rebinding intents.                    *)
(*                                                                         *)
(* A worker process polls: it takes the cycle guard, drains the delivery   *)
(* queue, runs a cycle if one is due, drains again, and lets go.  The      *)
(* guard is a file lock or, with PostgreSQL, a lock of a database session, *)
(* which may end while its process goes on.  Several processes exist when  *)
(* an old worker has not stopped yet.  The revisions of alert document and *)
(* schedule are those of ControlStore.                                     *)
(***************************************************************************)
EXTENDS DeliveryQueue

CONSTANTS
  Workers,     \* worker processes
  Dashboard,   \* the process of the dashboard
  Documents,   \* alert documents: what is to be sent, and where to
  SendBudget,  \* DELIVERY_SEND_BUDGET
  MaxEvents    \* bound: edits, replays, rebinds, restarts, lost guards

Procs == Workers \cup {Dashboard}

\* A document that is not active selects no notification.
ASSUME ServiceAssumption ==
  /\ Documents \subseteq [selects : SUBSET Notifications, destination : {"webhook", LocalLog}]
  /\ Dashboard \notin Workers /\ None \notin Procs /\ SendBudget \in Nat \ {0} /\ MaxEvents \in Nat

VARIABLES
  alerts,   \* revisions of the alert document
  plan,     \* the schedule document: revision, and is it active?
  due,      \* verdict_worker_due: revision, and has the time come?
  cycle,    \* the latest cycle status
  env,      \* env[p]: the webhook URL in the environment of process p
  st,       \* st[p]: where process p is
  guard,    \* who holds the cycle guard
  lost,     \* history: has a holder lost the guard?
  accepted, \* what webhook receivers and the log have got
  events    \* events so far

controlVars == <<alerts, plan>>
cycleVars == <<due, cycle>>
vars == <<queueVars, controlVars, cycleVars, env, st, guard, lost, accepted, events>>

Idle == [pc |-> "idle", todo |-> <<>>, second |-> FALSE, alert |-> 0, plan |-> 0, once |-> FALSE]

TypeOK ==
  /\ QueueTypeOK
  /\ alerts \in Seq(Documents)
  /\ plan \in [revision : Nat, active : BOOLEAN]
  /\ due \in [revision : Nat, ready : BOOLEAN]
  /\ cycle \in {"none", "started", "finished"}
  /\ env \in [Procs -> Urls \cup {None}]
  /\ \A p \in Procs :
       /\ DOMAIN st[p] = DOMAIN Idle
       /\ \A k \in DOMAIN st[p].todo : st[p].todo[k].id \in DOMAIN rows
       /\ st[p].alert \in 0..Len(alerts)
  /\ guard \in Procs \cup {None}
  /\ lost \in BOOLEAN
  /\ accepted \subseteq Notifications \X Endpoints
  /\ events \in 0..MaxEvents

Init ==
  /\ InitQueue
  /\ alerts \in {<<d>> : d \in Documents}
  /\ plan = [revision |-> 1, active |-> TRUE]
  /\ due = [revision |-> 0, ready |-> TRUE]
  /\ cycle = "none"
  /\ env \in {[p \in Procs |-> url] : url \in Urls \cup {None}}
  /\ st = [p \in Procs |-> Idle]
  /\ guard = None /\ lost = FALSE
  /\ accepted = {}
  /\ events = 0

---------------------------------------------------------------------------
Alert == alerts[Len(alerts)]

\* The fingerprint a document gives in the environment of a process.
Fingerprint(doc, p) == IF doc.destination = LocalLog THEN LocalLog ELSE env[p]

\* _intent_destination_matches: the intent's revision is the current one, still
\* selects it and, once it is bound, still leads to the same endpoint.
Matches(item, p) ==
  /\ Revision(item.id) = Len(alerts)
  /\ item.id.of \in Alert.selects
  /\ item.status # "unbound" => Fingerprint(Alert, p) = item.fp

At(p, pc) == st[p].pc = pc
Goes(p, pc) == st' = [st EXCEPT ![p].pc = pc]
Item(p) == Head(st[p].todo)
NextItem(p, pc) == st' = [st EXCEPT ![p].pc = pc, ![p].todo = Tail(@)]

Happens == events < MaxEvents /\ events' = events + 1

\* The end of `with cycle_guard`, and the process is where it started.
Releases(p) ==
  /\ guard' = IF guard = p THEN None ELSE guard
  /\ st' = [st EXCEPT ![p] = Idle]

\* A faulty variant: a guard in use is no obstacle.
AcquiresAnyway(p, state) ==
  /\ At(p, "idle")
  /\ guard' = p
  /\ st' = [st EXCEPT ![p] = state]

Acquires(p, state) ==
  /\ At(p, "idle") /\ guard = None
  /\ guard' = p
  /\ st' = [st EXCEPT ![p] = state]

---------------------------------------------------------------------------
\* The worker.

\* poll_cycle
Poll(w) ==
  /\ Acquires(w, [Idle EXCEPT !.pc = "drain"])
  /\ UNCHANGED <<queueVars, controlVars, cycleVars, env, lost, accepted, events>>

\* run_cycle: the schedule is read, and only then the guard taken.
ReadPlan(w) ==
  /\ At(w, "idle") /\ plan.active
  /\ Happens
  /\ st' = [st EXCEPT ![w] = [Idle EXCEPT !.pc = "once", !.plan = plan.revision, !.once = TRUE]]
  /\ UNCHANGED <<queueVars, controlVars, cycleVars, env, guard, lost, accepted>>

RunOnce(w) ==
  /\ At(w, "once")
  /\ IF guard = None
     THEN guard' = w /\ Goes(w, "drain")
     ELSE st' = [st EXCEPT ![w] = Idle] /\ UNCHANGED guard
  /\ UNCHANGED <<queueVars, controlVars, cycleVars, env, lost, accepted, events>>

\* _drain_delivery_queue: first the unbound intents, ...
ListToProbe(w) ==
  /\ At(w, "drain")
  /\ \E list \in ListUnbound : st' = [st EXCEPT ![w].pc = "unbound", ![w].todo = list]
  /\ UNCHANGED <<queueVars, controlVars, cycleVars, env, guard, lost, accepted, events>>

\* ... then a page of those that are due.
ListToSend(w) ==
  /\ At(w, "unbound") /\ st[w].todo = <<>>
  /\ \E list \in ListDue(SendBudget) : st' = [st EXCEPT ![w].pc = "due", ![w].todo = list]
  /\ UNCHANGED <<queueVars, controlVars, cycleVars, env, guard, lost, accepted, events>>

\* For each: is the destination still the one that was reviewed?  (This reads the
\* document only, and the transaction that follows the queue only: they are one
\* step, since what others do in between they might do before or after.)
Probe(w) ==
  LET i == Item(w).id
  IN /\ At(w, "unbound") /\ st[w].todo # <<>>
     /\ IF Matches(Item(w), w) THEN ProbeIntent(i, Fingerprint(Alert, w)) ELSE BlockIntent(i)
     /\ NextItem(w, "unbound")
     /\ UNCHANGED <<controlVars, cycleVars, env, guard, lost, accepted, events>>

\* A faulty variant: nobody looks whether the notification was delivered before.
PrepareUnmarked(w) ==
  LET i == Item(w).id
  IN /\ At(w, "due") /\ st[w].todo # <<>>
     /\ IF Matches(Item(w), w)
        THEN Goes(w, "send") /\ UNCHANGED queueVars
        ELSE BlockIntent(i) /\ NextItem(w, "due")
     /\ UNCHANGED <<controlVars, cycleVars, env, guard, lost, accepted, events>>

\* A due intent is blocked, or closed since its notification has been delivered to
\* its endpoint before, or sent.
Prepare(w) ==
  LET i == Item(w).id
  IN /\ At(w, "due") /\ st[w].todo # <<>>
     /\ IF ~Matches(Item(w), w)
        THEN BlockIntent(i) /\ NextItem(w, "due")
        ELSE IF PreviouslyDelivered(i, Item(w).count)
             THEN MarkDelivered(i) /\ NextItem(w, "due")
             ELSE Goes(w, "send") /\ UNCHANGED queueVars
     /\ UNCHANGED <<controlVars, cycleVars, env, guard, lost, accepted, events>>

\* The notification is logged, or posted to the URL that this process has for the
\* intent's document.  A post may be refused, or accepted with the answer lost.
Send(w) ==
  LET id == Item(w).id
      fp == Fingerprint(alerts[Revision(id)], w)
      to == <<id.of, fp>>
  IN /\ At(w, "send")
     /\ \/ accepted' = accepted \cup {to} /\ Goes(w, "delivered")
        \/ fp # LocalLog /\ accepted' \in {accepted, accepted \cup {to}} /\ Goes(w, "refused")
     /\ UNCHANGED <<queueVars, controlVars, cycleVars, env, guard, lost, events>>

Record(w) ==
  /\ st[w].pc \in {"delivered", "refused"}
  /\ FinishAttempt(Item(w).id, Item(w).count, At(w, "delivered"))
  /\ NextItem(w, "due")
  /\ UNCHANGED <<controlVars, cycleVars, env, guard, lost, accepted, events>>

DrainEnds(w) ==
  /\ At(w, "due") /\ st[w].todo = <<>>
  /\ Goes(w, IF st[w].second THEN "status" ELSE "plan")
  /\ UNCHANGED <<queueVars, controlVars, cycleVars, env, guard, lost, accepted, events>>

\* A faulty variant: no cycle begins while one reads as started.
BeginUnlessStarted(w) ==
  LET mayRun == /\ cycle # "started"
                /\ IF st[w].once THEN plan = [revision |-> st[w].plan, active |-> TRUE]
                   ELSE plan.active /\ (due.ready \/ due.revision # plan.revision)
  IN /\ At(w, "plan")
     /\ IF mayRun
        THEN /\ due' = [revision |-> plan.revision, ready |-> FALSE]
             /\ cycle' = "started"
             /\ st' = [st EXCEPT ![w].pc = "analyze", ![w].alert = Len(alerts),
                                 ![w].plan = plan.revision]
             /\ UNCHANGED guard
        ELSE Releases(w) /\ UNCHANGED cycleVars
     /\ UNCHANGED <<queueVars, controlVars, env, lost, accepted, events>>

\* A cycle that is due, or was asked for under the plan as it still is, begins:
\* due again soon, started, and with the alert document as it is now.
BeginCycle(w) ==
  LET mayRun == IF st[w].once THEN plan = [revision |-> st[w].plan, active |-> TRUE]
                ELSE plan.active /\ (due.ready \/ due.revision # plan.revision)
  IN /\ At(w, "plan")
     /\ IF mayRun
        THEN /\ due' = [revision |-> plan.revision, ready |-> FALSE]
             /\ cycle' = "started"
             /\ st' = [st EXCEPT ![w].pc = "analyze", ![w].alert = Len(alerts),
                                 ![w].plan = plan.revision]
             /\ UNCHANGED guard
        ELSE Releases(w) /\ UNCHANGED cycleVars
     /\ UNCHANGED <<queueVars, controlVars, env, lost, accepted, events>>

\* _run_cycle_unlocked: what is found and selected becomes obligations, together
\* with the analysis or snapshot it was found in.
Analyze(w) ==
  LET doc == alerts[st[w].alert]
  IN /\ At(w, "analyze")
     /\ \E found \in SUBSET doc.selects :
           InsertIntents({[of |-> n, chain |-> <<st[w].alert>>] : n \in found}, Fingerprint(doc, w))
     /\ st' = [st EXCEPT ![w].pc = "drain", ![w].second = TRUE]
     /\ UNCHANGED <<controlVars, cycleVars, env, guard, lost, accepted, events>>

\* An exception anywhere in the cycle, the second drain included, ends it; in the
\* first drain, the poll.
CycleFails(w) ==
  /\ st[w].pc \in {"drain", "unbound", "due", "delivered", "refused", "analyze"}
  /\ Happens
  /\ IF st[w].second \/ At(w, "analyze")
     THEN st' = [st EXCEPT ![w].pc = "status", ![w].todo = <<>>] /\ UNCHANGED guard
     ELSE Releases(w)
  /\ UNCHANGED <<queueVars, controlVars, cycleVars, env, lost, accepted>>

\* WorkerCycleStatus.finish, which raises if no cycle is under way.
FinishStatus(w) ==
  /\ At(w, "status")
  /\ IF cycle = "started"
     THEN cycle' = "finished" /\ Goes(w, "cadence") /\ UNCHANGED guard
     ELSE Releases(w) /\ UNCHANGED cycle
  /\ UNCHANGED <<queueVars, controlVars, due, env, lost, accepted, events>>

\* WorkerDue.finish: due again after the interval of the plan the cycle began with.
FinishDue(w) ==
  /\ At(w, "cadence")
  /\ due' = IF due.revision = st[w].plan THEN [due EXCEPT !.ready = FALSE] ELSE due
  /\ Releases(w)
  /\ UNCHANGED <<queueVars, controlVars, cycle, env, lost, accepted, events>>

---------------------------------------------------------------------------
\* Time, failures, and the dashboard.

DueTimeComes ==
  /\ ~due.ready
  /\ due' = [due EXCEPT !.ready = TRUE]
  /\ UNCHANGED <<queueVars, controlVars, cycle, env, st, guard, lost, accepted, events>>

RetryTimeComes(n) ==
  /\ TimePasses(n)
  /\ UNCHANGED <<controlVars, cycleVars, env, st, guard, lost, accepted, events>>

\* A process is replaced by one with another environment.
Restart(p) ==
  /\ Happens
  /\ \E url \in Urls \cup {None} : env' = [env EXCEPT ![p] = url]
  /\ Releases(p)
  /\ UNCHANGED <<queueVars, controlVars, cycleVars, lost, accepted>>

\* The database session of a PostgreSQL guard ends.
LoseGuard ==
  /\ guard # None
  /\ Happens
  /\ guard' = None
  /\ lost' = TRUE
  /\ UNCHANGED <<queueVars, controlVars, cycleVars, env, st, accepted>>

\* The schedule is edited without the guard, ...
EditPlan ==
  /\ Happens
  /\ \E active \in BOOLEAN : plan' = [revision |-> plan.revision + 1, active |-> active]
  /\ UNCHANGED <<queueVars, alerts, cycleVars, env, st, guard, lost, accepted>>

\* ... the alert document with it.
EditAlert ==
  /\ guard = None
  /\ Happens
  /\ \E doc \in Documents : alerts' = Append(alerts, doc)
  /\ UNCHANGED <<queueVars, plan, cycleVars, env, st, guard, lost, accepted>>

\* delivery_replay: an exhausted intent that still matches ...
ReplayAsked(i) ==
  /\ rows[i].status = "exhausted"
  /\ Matches(Snapshot(i), Dashboard)
  /\ Happens
  /\ Acquires(Dashboard, [Idle EXCEPT !.pc = "replay", !.todo = <<Snapshot(i)>>])
  /\ UNCHANGED <<queueVars, controlVars, cycleVars, env, lost, accepted>>

\* ... is queued, unless it has changed.
Replay ==
  /\ At(Dashboard, "replay")
  /\ ReplayIntent(Item(Dashboard).id, Item(Dashboard).count)
  /\ Releases(Dashboard)
  /\ UNCHANGED <<controlVars, cycleVars, env, lost, accepted, events>>

\* delivery_rebind: the preview is what was confirmed, for an intent the current
\* document selects ...
RebindAsked(i) ==
  /\ rows[i].status \in {"pending", "failed", "blocked", "exhausted"}
  /\ i.of \in Alert.selects
  /\ Happens
  /\ Acquires(Dashboard, [Idle EXCEPT !.pc = "rebind", !.todo = <<Snapshot(i)>>,
                                      !.alert = Len(alerts)])
  /\ UNCHANGED <<queueVars, controlVars, cycleVars, env, lost, accepted>>

\* ... and one transaction replaces it, if neither row nor document has changed.
Rebind ==
  LET old == Item(Dashboard)
      fp  == Fingerprint(Alert, Dashboard)
  IN /\ At(Dashboard, "rebind")
     /\ IF st[Dashboard].alert = Len(alerts) /\ Rebindable(old, Len(alerts), fp)
        THEN RebindIntent(old, Len(alerts), fp)
        ELSE UNCHANGED queueVars
     /\ Releases(Dashboard)
     /\ UNCHANGED <<controlVars, cycleVars, env, lost, accepted, events>>

---------------------------------------------------------------------------
Work(w) ==
  \/ RunOnce(w) \/ ListToProbe(w) \/ ListToSend(w) \/ Probe(w)
  \/ Prepare(w) \/ Send(w) \/ Record(w) \/ DrainEnds(w) \/ BeginCycle(w)
  \/ Analyze(w) \/ FinishStatus(w) \/ FinishDue(w)

DashboardWork == Replay \/ Rebind

Next ==
  \/ \E w \in Workers : Poll(w) \/ ReadPlan(w) \/ Work(w) \/ CycleFails(w)
  \/ \E p \in Procs : Restart(p)
  \/ DashboardWork
  \/ \E i \in DOMAIN rows : ReplayAsked(i) \/ RebindAsked(i)
  \/ EditPlan \/ EditAlert \/ LoseGuard
  \/ DueTimeComes \/ \E n \in Notifications : RetryTimeComes(n)

Spec == Init /\ [][Next]_vars

\* Processes that are at work go on, the guard does not stay free, and time
\* passes.  Nothing makes events happen.
FairSpec ==
  /\ Spec
  /\ \A w \in Workers : WF_vars(Work(w))
  /\ WF_vars(\E w \in Workers : Poll(w))
  /\ WF_vars(DashboardWork)
  /\ WF_vars(DueTimeComes)
  /\ \A n \in Notifications : WF_vars(RetryTimeComes(n))

---------------------------------------------------------------------------
\* Properties.

\* As long as no holder loses the guard: "a recorded successful delivery is not sent
\* again" (ADR-008), under whatever intent, and nothing is sent that the document,
\* as it is then, does not select.
SentOnceAsReviewed ==
  ~lost => \A w \in Workers : At(w, "send") =>
             /\ <<Item(w).id.of, Item(w).fp>> \notin log
             /\ Revision(Item(w).id) = Len(alerts)
             /\ Item(w).id.of \in Alert.selects

\* Even without the guard, a receiver gets only what some intent was bound to it for.
SentIsBound ==
  \A to \in accepted : \E i \in DOMAIN rows : <<i.of, rows[i].fp>> = to

\* Both: what leaves the process, with the guard and without.
SentAsIntended == SentOnceAsReviewed /\ SentIsBound

\* Attempts are bounded, and each replay buys one, whoever races with whom.
AttemptsBounded == \A i \in DOMAIN rows : rows[i].count <= MaxAttempts + rows[i].replays

\* A delivered or superseded intent stays so: also a worker that lost the guard
\* does not revive it or count a further attempt.
SettledForGood ==
  [][\A i \in DOMAIN rows : rows[i].status \in {"delivered", "superseded"} => rows'[i] = rows[i]]_queueVars

\* The status of a cycle is that of a cycle: one that has begun reads as started
\* until it has finished.
StatusIsHonest ==
  LET InCycle(w) == ~At(w, "cadence") /\ (st[w].second \/ st[w].pc \in {"analyze", "status"})
  IN ~lost => \A w \in Workers : InCycle(w) => cycle = "started"

\* Every obligation to a bound endpoint is settled, although a drain sends few and
\* other intents keep failing.
ObligationsSettle ==
  \A n \in Notifications :
    (\E i \in Sendable : i.of = n) ~> ~(\E i \in Sendable : i.of = n)

\* A cycle that was interrupted is run again while the plan stays active.
CyclesFinish == cycle = "started" ~> cycle # "started" \/ ~plan.active

=============================================================================
