----------------------------- MODULE TurnJudgments -----------------------------
(***************************************************************************)
(* Judgments of one turn of an agent by one evaluator: the loop body of    *)
(* _execute_turn_evaluation (dashboard/evaluator_lab.py), the guard of a   *)
(* turn, and save_agent_turn_judgment_if_current of storage/sqlite.py and  *)
(* storage/postgres.py, whose decision is turn_judgment_write_decision     *)
(* (agent_judgment.py).  A scan of the turn's history may change it while  *)
(* it is judged; evidence is identified by its version.                    *)
(***************************************************************************)
EXTENDS Integers, FiniteSets

CONSTANTS
  Judges,    \* evaluations in different processes
  NoJudge,
  MaxEdits,  \* bound: versions of the turn
  MaxLosses  \* bound: guards lost

ASSUME JudgmentAssumption ==
  /\ IsFiniteSet(Judges) /\ NoJudge \notin Judges
  /\ MaxEdits \in Nat \ {0} /\ MaxLosses \in Nat

VARIABLES
  turn,     \* the version of the turn
  verdict,  \* the row of agent_turn_judgments: what was judged, and how it ended
  judge,    \* judge[j]: where an evaluation is, the version it has planned to judge
  judging,  \* who holds the guard of the turn
  answered, \* history: answered[v] is the number of completed answers about version v,
            \* without those that their process took with it
  losses    \* guards lost so far

turnVars == <<turn, verdict, judge, judging, answered, losses>>

NoVerdict == [turn |-> 0, status |-> "none"]
Away == [pc |-> "away", turn |-> 0, status |-> "none"]

JudgmentTypeOK ==
  /\ turn \in 1..MaxEdits
  /\ verdict \in [turn : 0..turn, status : {"none", "completed", "error"}]
  /\ \A j \in Judges : DOMAIN judge[j] = DOMAIN Away /\ judge[j].turn \in 0..turn
  /\ judging \in Judges \cup {NoJudge}
  /\ losses \in 0..MaxLosses

JudgmentInit ==
  /\ turn = 1 /\ verdict = NoVerdict
  /\ judge = [j \in Judges |-> Away] /\ judging = NoJudge
  /\ answered = [v \in 1..MaxEdits |-> 0] /\ losses = 0

---------------------------------------------------------------------------
\* A judgment of the turn as it is now.
IsJudged == verdict = [turn |-> turn, status |-> "completed"]

GoesAway(j) ==
  /\ judge' = [judge EXCEPT ![j] = Away]
  /\ judging' = IF judging = j THEN NoJudge ELSE judging

TurnChanges ==
  /\ turn < MaxEdits /\ turn' = turn + 1
  /\ UNCHANGED <<verdict, judge, judging, answered, losses>>

\* The turn is in the plan that the user has confirmed: it has no judgment yet.
PlansTurn(j) ==
  /\ judge[j].pc = "away" /\ ~IsJudged
  /\ judge' = [judge EXCEPT ![j] = [Away EXCEPT !.pc = "guard", !.turn = turn]]
  /\ UNCHANGED <<turn, verdict, judging, answered, losses>>

\* agent_turn_judge_guard: whoever does not get it leaves the turn to the other.
TakesTurn(j) ==
  /\ judge[j].pc = "guard"
  /\ IF judging = NoJudge
     THEN judging' = j /\ judge' = [judge EXCEPT ![j].pc = "read"]
     ELSE GoesAway(j)
  /\ UNCHANGED <<turn, verdict, answered, losses>>

\* The turn is read again; it must be as planned, and not judged by now.
ReadsTurn(j) ==
  /\ judge[j].pc = "read"
  /\ IF judge[j].turn = turn /\ ~IsJudged
     THEN judge' = [judge EXCEPT ![j].pc = "ask"] /\ UNCHANGED judging
     ELSE GoesAway(j)
  /\ UNCHANGED <<turn, verdict, answered, losses>>

AsksJudge(j) ==
  /\ judge[j].pc = "ask"
  /\ \E status \in {"completed", "error"} :
       /\ judge' = [judge EXCEPT ![j].pc = "write", ![j].status = status]
       /\ answered' = IF status = "completed" THEN [answered EXCEPT ![judge[j].turn] = @ + 1] ELSE answered
  /\ UNCHANGED <<turn, verdict, judging, losses>>

\* A faulty variant: only a completed judgment of this version is kept.
WritableUnlessCompleted(new) ==
  ~(verdict.turn = new.turn /\ verdict.status = "completed")

\* turn_judgment_write_decision: the turn is still what was judged, and a judgment of
\* it is there only to be replaced by a completed one after an error.
Writable(new) ==
  /\ new.turn = turn
  /\ verdict.turn = new.turn => verdict.status = "error" /\ new.status = "completed"

WritesVerdict(j) ==
  LET new == [turn |-> judge[j].turn, status |-> judge[j].status]
  IN /\ judge[j].pc = "write"
     /\ verdict' = IF Writable(new) THEN new ELSE verdict
     /\ GoesAway(j)
     /\ UNCHANGED <<turn, answered, losses>>

\* The process ends, or an exception ends the evaluation, possibly with an answer of
\* the judge that nobody has stored.
JudgeStops(j) ==
  /\ judge[j].pc # "away" /\ losses < MaxLosses /\ losses' = losses + 1
  /\ answered' = IF judge[j].status = "completed" THEN [answered EXCEPT ![judge[j].turn] = @ - 1]
                 ELSE answered
  /\ GoesAway(j)
  /\ UNCHANGED <<turn, verdict>>

\* With PostgreSQL the guard is the lock of a session.
TurnGuardIsLost ==
  /\ judging # NoJudge /\ losses < MaxLosses
  /\ judging' = NoJudge /\ losses' = losses + 1
  /\ UNCHANGED <<turn, verdict, judge, answered>>

JudgmentNext ==
  \/ TurnChanges \/ TurnGuardIsLost
  \/ \E j \in Judges : \/ PlansTurn(j) \/ TakesTurn(j) \/ ReadsTurn(j) \/ AsksJudge(j)
                       \/ WritesVerdict(j) \/ JudgeStops(j)

---------------------------------------------------------------------------
\* Properties.

\* An answer about the turn as it is stays its judgment, whatever slower judges, with
\* older versions of the turn or with errors, store after it; and no version is
\* answered a second time unless the guard was lost.
JudgmentIsKept ==
  /\ answered[turn] > 0 =>
       IsJudged \/ \E j \in Judges : judge[j] = [pc |-> "write", turn |-> turn, status |-> "completed"]
  /\ \A v \in 1..MaxEdits : answered[v] <= 1 + losses

================================================================================
