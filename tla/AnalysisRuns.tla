----------------------------- MODULE AnalysisRuns -----------------------------
(***************************************************************************)
(* The deterministic analysis of a tenant: run_analysis of                 *)
(* dashboard/analysis_service.py over deterministic_analysis_runs,         *)
(* deterministic_analysis_current and evidence_revisions of                *)
(* storage/sqlite.py and storage/postgres.py.  The worker, the schedule    *)
(* page and the insights page run it, the last without the cycle guard.    *)
(*                                                                         *)
(* An analysis is identified by its input, a fingerprint of the evidence   *)
(* in the bounded scan; inputs may recur, the evidence revision grows.     *)
(***************************************************************************)
EXTENDS Integers, Sequences

CONSTANTS
  Builders,    \* computations of the analysis
  Inputs,
  Failure,     \* the input of attempts that failed (each has an analysis of its own)
  NoAnalysis,
  MaxRevisions \* bound

ASSUME AnalysisAssumption ==
  Failure \notin Inputs /\ NoAnalysis \notin Inputs \cup {Failure} /\ MaxRevisions \in Nat \ {0}

VARIABLES
  inputs,   \* inputs[r]: the input at revision r, up to the present one
  verified, \* verified_revision of every analysis stored
  current,  \* deterministic_analysis_current
  builder   \* builder[b]: where a computation is, with its snapshot of the evidence

analysisVars == <<inputs, verified, current, builder>>

\* evidence_revision is None, which counts as less than any revision.
Unrevised == 0
Waiting == [pc |-> "idle", input |-> NoAnalysis, revision |-> Unrevised]

Now == Len(inputs)

AnalysisTypeOK ==
  /\ inputs \in Seq(Inputs)
  /\ verified \in [Inputs \cup {Failure} -> -1..Now]
  /\ current # NoAnalysis => verified[current] >= 0
  /\ \A b \in Builders : builder[b].revision \in 0..Now

\* -1: not stored.
AnalysisInit ==
  /\ inputs \in {<<i>> : i \in Inputs}
  /\ verified = [i \in Inputs \cup {Failure} |-> -1]
  /\ current = NoAnalysis
  /\ builder = [b \in Builders |-> Waiting]

---------------------------------------------------------------------------
\* The revision grows in the transaction that writes traces or runs.
EvidenceWritten ==
  /\ Now < MaxRevisions
  /\ \E i \in Inputs : inputs' = Append(inputs, i)
  /\ UNCHANGED <<verified, current, builder>>

\* The evidence and its revision are read in one snapshot.
Builds(b) ==
  /\ builder[b].pc = "idle"
  /\ \E new \in {[pc |-> "built", input |-> inputs[Now], revision |-> Now],
                 [pc |-> "built", input |-> Failure, revision |-> Unrevised]} :
       builder' = [builder EXCEPT ![b] = new]
  /\ UNCHANGED <<inputs, verified, current>>

\* An analysis of the same input has only to be verified.
LooksUp(b) ==
  /\ builder[b].pc = "built"
  /\ builder' = [builder EXCEPT ![b].pc = IF verified[builder[b].input] >= 0 THEN "verify" ELSE "save"]
  /\ UNCHANGED <<inputs, verified, current>>

\* save_deterministic_analysis_run.  If another process has saved the same analysis
\* meanwhile, this one is refused for its time of completion, and verified after all.
SavesAnalysis(b) ==
  LET i == builder[b].input
  IN /\ builder[b].pc = "save"
     /\ IF verified[i] = -1
        THEN verified' = [verified EXCEPT ![i] = builder[b].revision] /\ current' = i
        ELSE UNCHANGED <<verified, current>>
     /\ builder' = [builder EXCEPT ![b].pc = "verify"]
     /\ UNCHANGED inputs

\* A faulty variant: the analysis is verified for the revision of the moment.
VerifiesLate(b) ==
  LET i == builder[b].input
  IN /\ builder[b].pc = "verify"
     /\ verified' = [verified EXCEPT ![i] = IF i = Failure THEN @ ELSE Now]
     /\ current' = i
     /\ builder' = [builder EXCEPT ![b] = Waiting]
     /\ UNCHANGED inputs

\* verify_deterministic_analysis_run, and the trigger that selects what it verifies.
VerifiesAnalysis(b) ==
  LET i == builder[b].input
      revision == builder[b].revision
  IN /\ builder[b].pc = "verify"
     /\ verified' = [verified EXCEPT ![i] = IF revision > @ THEN revision ELSE @]
     /\ current' = i
     /\ builder' = [builder EXCEPT ![b] = Waiting]
     /\ UNCHANGED inputs

BuilderStops(b) ==
  /\ builder[b].pc # "idle"
  /\ builder' = [builder EXCEPT ![b] = Waiting]
  /\ UNCHANGED <<inputs, verified, current>>

AnalysisNext ==
  \/ EvidenceWritten
  \/ \E b \in Builders : \/ Builds(b) \/ LooksUp(b) \/ SavesAnalysis(b) \/ VerifiesAnalysis(b)
                         \/ BuilderStops(b)

---------------------------------------------------------------------------
\* Properties.

\* The overview offers a refresh of the current analysis unless it was verified for
\* the revision of the evidence (needsRefresh).  Then it is the analysis of the
\* evidence as it is, although computations overlap with each other and with
\* captures, and the slower of them select an older analysis.
FreshIsCurrent ==
  /\ \A i \in Inputs : verified[i] > 0 => inputs[verified[i]] = i
  /\ current \in Inputs /\ verified[current] = Now => current = inputs[Now]

===============================================================================
