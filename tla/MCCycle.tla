-------------------------------- MODULE MCCycle --------------------------------
\* What the worker and the dashboard do beside each other with what was captured:
\* notifications, analyses, notices and judgments.  They share nothing: each is
\* explored while the others rest.
EXTENDS MCWorkerService, PaidCalls, TurnJudgments, AnalysisRuns, IssueNotices

\* A failed event before the schedule was activated, two failed events and a failed
\* run of one time since then, and an event that passed later.
MCEvidence ==
  {[kind |-> "event", at |-> 0, id |-> 1], [kind |-> "event", at |-> 1, id |-> 1],
   [kind |-> "event", at |-> 1, id |-> 2], [kind |-> "run", at |-> 1, id |-> 1],
   [kind |-> "event", at |-> 2, id |-> 1]}
MCFailed(e) == e.at < 2

\* The tables keep to their types, and a notification is attempted no more often than
\* reviewers have allowed.
TablesAreSound ==
  TypeOK /\ CallsTypeOK /\ JudgmentTypeOK /\ AnalysisTypeOK /\ NoticesTypeOK /\ AttemptsBounded

\* A part rests as it begins: the service with a paused alert and without a webhook,
\* the analysis with one of the inputs.
ServiceRests ==
  Init /\ (\A k \in DOMAIN alerts : alerts[k].selects = {}) /\ \A p \in Procs : env[p] = None
AnalysisRests == AnalysisInit /\ inputs[1] = CHOOSE i \in Inputs : TRUE

CycleNext ==
  \/ /\ CallsInit /\ JudgmentInit /\ AnalysisRests /\ NoticesInit
     /\ Next /\ UNCHANGED <<callVars, turnVars, analysisVars, noticeVars>>
  \/ /\ ServiceRests /\ JudgmentInit /\ AnalysisRests /\ NoticesInit
     /\ CallsNext /\ UNCHANGED <<vars, turnVars, analysisVars, noticeVars>>
  \/ /\ ServiceRests /\ CallsInit /\ AnalysisRests /\ NoticesInit
     /\ JudgmentNext /\ UNCHANGED <<vars, callVars, analysisVars, noticeVars>>
  \/ /\ ServiceRests /\ CallsInit /\ JudgmentInit /\ NoticesInit
     /\ AnalysisNext /\ UNCHANGED <<vars, callVars, turnVars, noticeVars>>
  \/ /\ ServiceRests /\ CallsInit /\ JudgmentInit /\ AnalysisRests
     /\ NoticesNext /\ UNCHANGED <<vars, callVars, turnVars, analysisVars>>

CycleInit == Init /\ CallsInit /\ JudgmentInit /\ AnalysisInit /\ NoticesInit

CycleSpec == CycleInit /\ [][CycleNext]_<<vars, callVars, turnVars, analysisVars, noticeVars>>
================================================================================
