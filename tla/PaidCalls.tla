------------------------------- MODULE PaidCalls -------------------------------
(***************************************************************************)
(* Calls of paid models that a user has approved, each for one preview of  *)
(* the evidence (dashboard/scoped_evaluation.py, day_explanation.py and    *)
(* evidence_explanation.py over the documents of control_plane.py):        *)
(*   direct     execute_scoped, at once                                    *)
(*   scheduled  run_scheduled_once, for an approval that was stored        *)
(*   explained  run_day_explanation and run_explanation                    *)
(* The callers are processes: the worker, and those of the dashboard.  One *)
(* guard per store lets one of them call at a time: a file lock or, with   *)
(* PostgreSQL, the lock of a session, which may end while its process goes *)
(* on.  A plan, identified by its fingerprint, is for one version of the   *)
(* evidence.                                                               *)
(***************************************************************************)
EXTENDS Integers, FiniteSets

CONSTANTS
  Callers,
  Approvals,       \* documents of kind scheduled_evaluation
  NoApproval,
  Nobody,          \* the guard is free
  MaxPlans,        \* bound: versions of the evidence
  MaxRequests,     \* bound: requests of users
  MaxMishaps       \* bound: guards lost and processes ended

ASSUME CallsAssumption ==
  /\ NoApproval \notin Approvals
  /\ IsFiniteSet(Callers) /\ Nobody \notin Callers
  /\ MaxPlans \in Nat \ {0} /\ MaxRequests \in Nat /\ MaxMishaps \in Nat

Plans == 1..MaxPlans
Outcomes == {"completed", "error"}

VARIABLES
  evidence,  \* its version, and with it the plan that is current
  approval,  \* approval[a]: state and plan of an approval
  results,   \* results[n]: outcomes saved as scoped_evaluation documents of plan n
  answers,   \* answers[n]: the explanation document of plan n
  caller,    \* caller[c]: where a caller is
  paying,    \* who holds the guard
  spent,     \* history: the calls made for an approval, a result, an answer
  requests,  \* so far
  mishaps    \* so far

documentVars == <<approval, results, answers>>
callVars == <<evidence, documentVars, caller, paying, spent, requests, mishaps>>

\* "spent" is the reservation of the attempt, "recorded" its outcome.
ApprovalStates == {"none", "pending", "spent", "recorded", "cancelled"}

Resting == [pc |-> "rest", kind |-> "none", plan |-> 0, approval |-> NoApproval, outcome |-> "none"]

CallsTypeOK ==
  /\ evidence \in Plans
  /\ approval \in [Approvals -> [state : ApprovalStates, plan : Plans \cup {0}]]
  /\ results \in [Plans -> SUBSET Outcomes]
  /\ answers \in [Plans -> {"none", "reserved"} \cup Outcomes]
  /\ \A c \in Callers : DOMAIN caller[c] = DOMAIN Resting
  /\ paying \in Callers \cup {Nobody}
  /\ requests \in 0..MaxRequests /\ mishaps \in 0..MaxMishaps

CallsInit ==
  /\ evidence = 1
  /\ approval = [a \in Approvals |-> [state |-> "none", plan |-> 0]]
  /\ results = [n \in Plans |-> {}] /\ answers = [n \in Plans |-> "none"]
  /\ caller = [c \in Callers |-> Resting]
  /\ paying = Nobody
  /\ spent = [approved |-> [a \in Approvals |-> 0], judged |-> [n \in Plans |-> 0],
              explained |-> [n \in Plans |-> 0]]
  /\ requests = 0 /\ mishaps = 0

---------------------------------------------------------------------------
Is(c, pc, kinds) == caller[c].pc = pc /\ caller[c].kind \in kinds
Steps(c, pc) == caller' = [caller EXCEPT ![c].pc = pc]

\* The end of `with _LOCK, _cross_process_scoped_guard`, and of the request.
Leaves(c) ==
  /\ caller' = [caller EXCEPT ![c] = Resting]
  /\ paying' = IF paying = c THEN Nobody ELSE paying

\* A capture or an import changes what previews are made of.
EvidenceChanges ==
  /\ evidence < MaxPlans
  /\ evidence' = evidence + 1
  /\ UNCHANGED <<documentVars, caller, paying, spent, requests, mishaps>>

---------------------------------------------------------------------------
\* Approvals are documents under compare and set; only a pending one may change, and
\* its revision is that of its state.

\* A faulty variant: an approval is taken whatever became of it.
TakeAnyway(a, new) == approval' = [approval EXCEPT ![a].state = new]

\* A pending approval gets its next state, unless it has it already.
Take(a, new) ==
  IF approval[a].state = "pending" THEN approval' = [approval EXCEPT ![a].state = new]
  ELSE UNCHANGED approval

\* schedule_scoped_once
Approve(a) ==
  /\ approval[a].state = "none"
  /\ \A b \in Approvals : approval[b] # [state |-> "pending", plan |-> evidence]
  /\ approval' = [approval EXCEPT ![a] = [state |-> "pending", plan |-> evidence]]
  /\ UNCHANGED <<evidence, results, answers, caller, paying, spent, requests, mishaps>>

\* cancel_scheduled_once
CancelApproval(a) ==
  /\ approval[a].state = "pending"
  /\ Take(a, "cancelled")
  /\ UNCHANGED <<evidence, results, answers, caller, paying, spent, requests, mishaps>>

---------------------------------------------------------------------------
\* Up to the guard.

\* run_scheduled_once lists the approvals and takes a pending one.
Pick(c, a) ==
  /\ caller[c].pc = "rest" /\ approval[a].state = "pending"
  /\ caller' = [caller EXCEPT ![c] = [Resting EXCEPT !.pc = "preflight", !.kind = "scheduled",
                                      !.plan = approval[a].plan, !.approval = a]]
  /\ UNCHANGED <<evidence, documentVars, paying, spent, requests, mishaps>>

\* cancel_before_egress: the approval is stale, or a dependency is missing.
CancelsItself(c) ==
  /\ Take(caller[c].approval, "cancelled")
  /\ Leaves(c)
  /\ UNCHANGED <<evidence, results, answers, spent, requests, mishaps>>

\* Without a key the approval waits for another cycle.
WaitsForKey(c) == Leaves(c) /\ UNCHANGED <<evidence, documentVars, spent, requests, mishaps>>

Preflight(c) ==
  /\ Is(c, "preflight", {"scheduled"})
  /\ \/ CancelsItself(c)
     \/ caller[c].plan = evidence /\ WaitsForKey(c)
     \/ /\ caller[c].plan = evidence /\ Steps(c, "enter")
        /\ UNCHANGED <<evidence, documentVars, paying, spent, requests, mishaps>>

\* A user runs what he has seen in a preview.
Request(c) ==
  /\ caller[c].pc = "rest" /\ requests < MaxRequests
  /\ requests' = requests + 1
  /\ \E kind \in {"direct", "explained"}, n \in 1..evidence :
       caller' = [caller EXCEPT ![c] = [Resting EXCEPT !.pc = "enter", !.kind = kind, !.plan = n]]
  /\ UNCHANGED <<evidence, documentVars, paying, spent, mishaps>>

Enter(c) ==
  /\ caller[c].pc = "enter" /\ paying = Nobody
  /\ paying' = c
  /\ Steps(c, "check")
  /\ UNCHANGED <<evidence, documentVars, spent, requests, mishaps>>

---------------------------------------------------------------------------
\* Under the guard.

\* The approval is checked once more, and cancelled if it is stale.
CheckApproval(c) ==
  /\ Is(c, "check", {"scheduled"})
  /\ \/ CancelsItself(c)
     \/ caller[c].plan = evidence /\ WaitsForKey(c)
     \/ /\ caller[c].plan = evidence /\ Steps(c, "reserve")
        /\ UNCHANGED <<evidence, documentVars, paying, spent, requests, mishaps>>

\* An approval that changed in the meantime is left alone.
ReserveApproval(c) ==
  LET a == caller[c].approval
  IN /\ Is(c, "reserve", {"scheduled"})
     /\ Take(a, "spent")
     /\ IF approval[a].state = "pending" THEN Steps(c, "look") /\ UNCHANGED paying ELSE Leaves(c)
     /\ UNCHANGED <<evidence, results, answers, spent, requests, mishaps>>

\* A request for a plan that is no longer current, or too expensive, is refused.
CheckRequest(c) ==
  /\ Is(c, "check", {"direct", "explained"})
  /\ \/ Leaves(c)
     \/ /\ caller[c].plan = evidence /\ UNCHANGED paying
        /\ Steps(c, IF caller[c].kind = "direct" THEN "look" ELSE "reserve")
  /\ UNCHANGED <<evidence, documentVars, spent, requests, mishaps>>

\* An explanation that was asked for before is shown as it is, also if nobody knows
\* what became of it.
ReserveAnswer(c) ==
  LET n == caller[c].plan
  IN /\ Is(c, "reserve", {"explained"})
     /\ IF answers[n] = "none"
        THEN answers' = [answers EXCEPT ![n] = "reserved"] /\ Steps(c, "call") /\ UNCHANGED paying
        ELSE Leaves(c) /\ UNCHANGED answers
     /\ UNCHANGED <<evidence, approval, results, spent, requests, mishaps>>

\* _saved_result: a result that was saved for the plan is the result of this call,
\* a completed one first.  Otherwise the provider is asked, unless its configuration
\* has changed.
Look(c) ==
  LET saved == results[caller[c].plan]
      outcome == IF "completed" \in saved THEN "completed" ELSE "error"
  IN /\ Is(c, "look", {"direct", "scheduled"})
     /\ \/ /\ saved # {} /\ caller[c].kind = "scheduled" /\ UNCHANGED paying
           /\ caller' = [caller EXCEPT ![c].pc = "record", ![c].outcome = outcome]
        \/ saved = {} /\ Steps(c, "call") /\ UNCHANGED paying
        \/ (saved # {} => caller[c].kind = "direct") /\ Leaves(c)
     /\ UNCHANGED <<evidence, documentVars, spent, requests, mishaps>>

\* The provider answers or fails; what it does is paid for either way.
Call(c) ==
  LET n == caller[c].plan
  IN /\ caller[c].pc = "call"
     /\ \E outcome \in Outcomes :
          caller' = [caller EXCEPT ![c].pc = "recheck", ![c].outcome = outcome]
     /\ spent' = CASE caller[c].kind = "direct" -> [spent EXCEPT !.judged[n] = @ + 1]
                   [] caller[c].kind = "explained" -> [spent EXCEPT !.explained[n] = @ + 1]
                   [] caller[c].kind = "scheduled" ->
                        [spent EXCEPT !.judged[n] = @ + 1, !.approved[caller[c].approval] = @ + 1]
     /\ UNCHANGED <<evidence, documentVars, paying, requests, mishaps>>

\* Evidence that has changed during the call makes its result an error.
Recheck(c) ==
  /\ caller[c].pc = "recheck"
  /\ caller' = [caller EXCEPT ![c].pc = "store",
                              ![c].outcome = IF caller[c].plan = evidence THEN @ ELSE "error"]
  /\ UNCHANGED <<evidence, documentVars, paying, spent, requests, mishaps>>

\* A result that is saved already stays.  If it was saved between the last look and
\* the append, the conflict ends the request.
StoreResult(c) ==
  LET n == caller[c].plan
  IN /\ Is(c, "store", {"direct", "scheduled"})
     /\ results' = [results EXCEPT ![n] = @ \cup {caller[c].outcome}]
     /\ \/ caller[c].kind = "scheduled" /\ Steps(c, "record") /\ UNCHANGED paying
        \/ (caller[c].kind = "scheduled" => caller[c].outcome \in results[n]) /\ Leaves(c)
     /\ UNCHANGED <<evidence, approval, answers, spent, requests, mishaps>>

\* The approval tells which result it has led to.
RecordApproval(c) ==
  /\ Is(c, "record", {"scheduled"})
  /\ approval' = [approval EXCEPT ![caller[c].approval].state = "recorded"]
  /\ Leaves(c)
  /\ UNCHANGED <<evidence, results, answers, spent, requests, mishaps>>

StoreAnswer(c) ==
  /\ Is(c, "store", {"explained"})
  /\ answers' = [answers EXCEPT ![caller[c].plan] = caller[c].outcome]
  /\ Leaves(c)
  /\ UNCHANGED <<evidence, approval, results, spent, requests, mishaps>>

---------------------------------------------------------------------------
\* The process ends, or the store fails and an exception ends the request.
Stops(c) ==
  /\ caller[c].pc # "rest" /\ mishaps < MaxMishaps
  /\ mishaps' = mishaps + 1
  /\ Leaves(c)
  /\ UNCHANGED <<evidence, documentVars, spent, requests>>

\* The session that holds the guard ends.
GuardIsLost ==
  /\ paying # Nobody /\ mishaps < MaxMishaps
  /\ mishaps' = mishaps + 1
  /\ paying' = Nobody
  /\ UNCHANGED <<evidence, documentVars, caller, spent, requests>>

Proceeds(c) ==
  \/ Preflight(c) \/ Enter(c) \/ CheckApproval(c) \/ ReserveApproval(c) \/ CheckRequest(c)
  \/ ReserveAnswer(c) \/ Look(c) \/ Call(c) \/ Recheck(c) \/ StoreResult(c) \/ RecordApproval(c)
  \/ StoreAnswer(c) \/ Stops(c)

CallsNext ==
  \/ EvidenceChanges \/ GuardIsLost
  \/ \E a \in Approvals : Approve(a) \/ CancelApproval(a) \/ \E c \in Callers : Pick(c, a)
  \/ \E c \in Callers : Request(c) \/ Proceeds(c)

---------------------------------------------------------------------------
\* Properties.

\* run_scheduled_once: "Consume at most one pending approval before any network
\* call".  An approval pays for one call at most, for none once it is cancelled, and
\* the result it names is there; so it is even when the guard is lost.
ApprovalsAreHonoured ==
  \A a \in Approvals :
    /\ spent.approved[a] <= 1
    /\ spent.approved[a] > 0 => approval[a].state \in {"spent", "recorded"}
    /\ approval[a].state = "recorded" => results[approval[a].plan] # {}

\* No plan is explained twice, whatever happens.  None is judged again either, by an
\* approval or by a user, unless a caller stopped before it saved the result, or the
\* guard was lost; without that, its result is the only one.
CallsAreNotRepeated ==
  \A n \in Plans :
    /\ spent.explained[n] <= 1
    /\ spent.judged[n] <= 1 + mishaps
    /\ mishaps = 0 => Cardinality(results[n]) <= 1

\* What is paid for is what was approved, once.
PaidAsApproved == ApprovalsAreHonoured /\ CallsAreNotRepeated

================================================================================
