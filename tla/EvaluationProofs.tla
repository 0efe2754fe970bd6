--------------------------- MODULE EvaluationProofs ----------------------------
(***************************************************************************)
(* Safety of what is concluded from evidence, for any number of processes, *)
(* plans, approvals and versions of the evidence: judgments that keep up   *)
(* with it, calls paid once, analyses shown as fresh, failures noticed.    *)
(* With the theorems about the queue they are about all of MCCycle.        *)
(***************************************************************************)
EXTENDS MCCycle, QueueProofs, WellFoundedInduction

---------------------------------------------------------------------------
\* Counting.

\* A set that differs from another in one element at most has its size, one more or
\* one less.
LEMMA CountChange ==
  ASSUME NEW U, IsFiniteSet(U), NEW S \in SUBSET U, NEW T \in SUBSET U,
         NEW x, S \ {x} = T \ {x}
  PROVE  /\ Cardinality(S) \in Nat /\ Cardinality(T) \in Nat
         /\ x \in S /\ x \in T => Cardinality(T) = Cardinality(S)
         /\ x \notin S /\ x \notin T => Cardinality(T) = Cardinality(S)
         /\ x \notin S /\ x \in T => Cardinality(T) = Cardinality(S) + 1
         /\ x \in S /\ x \notin T => Cardinality(T) = Cardinality(S) - 1
<1>1. IsFiniteSet(S) /\ IsFiniteSet(T)
  BY FS_Subset
<1>2. Cardinality(S) \in Nat /\ Cardinality(T) \in Nat
  BY <1>1, FS_CardinalityType
<1>3. CASE x \in S <=> x \in T
  <2>1. S = T
    BY <1>3
  <2> QED
    BY <2>1, <1>2, <1>3
<1>4. CASE x \notin S /\ x \in T
  <2>1. T = S \cup {x}
    BY <1>4
  <2> QED
    BY <2>1, <1>1, <1>2, <1>4, FS_AddElement
<1>5. CASE x \in S /\ x \notin T
  <2>1. T = S \ {x}
    BY <1>5
  <2> QED
    BY <2>1, <1>1, <1>2, <1>5, FS_RemoveElement
<1> QED
  BY <1>3, <1>4, <1>5

---------------------------------------------------------------------------
\* Judgments of a turn.

JudgmentSpec == JudgmentInit /\ [][JudgmentNext]_turnVars

Versions == 1..MaxEdits
JudgeStates ==
  [pc : {"away", "guard", "read", "ask", "write"}, turn : Versions \cup {0},
   status : {"none", "completed", "error"}]

\* What each evaluation is: of a version there is or was, with an answer only when it
\* has asked, and in possession of the guard only between taking and leaving it.
JudgesAreSound ==
  /\ turn \in Versions /\ losses \in Nat /\ losses <= MaxLosses
  /\ verdict \in [turn : Versions \cup {0}, status : {"none", "completed", "error"}]
  /\ verdict.turn <= turn /\ (verdict.turn > 0 => verdict.status # "none")
  /\ judge \in [Judges -> JudgeStates]
  /\ answered \in [Versions -> Int]
  /\ judging \in Judges \cup {NoJudge}
  /\ \A j \in Judges : /\ judge[j].turn <= turn
                       /\ judge[j].turn = 0 <=> judge[j].pc = "away"
                       /\ judge[j].status = "none" <=> judge[j].pc # "write"
                       /\ judging = j => judge[j].pc \in {"read", "ask", "write"}

\* Who holds a completed answer about version v that is not stored yet.
Holding(v) == {j \in Judges : judge[j].turn = v /\ judge[j].status = "completed"}

\* Nothing was answered about a version to come; of the answers about the turn as it
\* is, all are still to be stored unless one is.
AnswersAreCounted ==
  /\ \A v \in Versions : v > turn => answered[v] = 0
  /\ ~IsJudged => answered[turn] = Cardinality(Holding(turn))

\* Who will ask about version v without the guard, or is about to with it.
Asking(v) ==
  {j \in Judges : judge[j].turn = v /\ (judge[j].pc = "ask" \/ (judge[j].pc = "read" /\ judging # j))}

\* Whoever takes the guard from now on will not ask about version v: the turn has
\* moved on or is judged, or the holder of the guard answers or has answered.
Settled(v) ==
  \/ v < turn
  \/ v = turn /\ IsJudged
  \/ \E j \in Judges : /\ judging = j /\ judge[j].turn = v
                       /\ judge[j].pc = "ask" \/ judge[j].status = "completed"

\* Answers about v, those to come included, are one for the version and one for every
\* loss.
AnswersAreBounded ==
  \A v \in Versions :
     answered[v] + Cardinality(Asking(v)) <= losses + (IF Settled(v) THEN 1 ELSE 0)

JudgmentInv == JudgesAreSound /\ AnswersAreCounted /\ AnswersAreBounded

---------------------------------------------------------------------------
\* A step of one evaluation changes who asks, and who holds an answer, by itself only.
LEMMA JudgeMoves ==
  ASSUME JudgesAreSound, NEW j \in Judges, NEW v,
         \A k \in Judges \ {j} : judge'[k] = judge[k] /\ (judging' = k <=> judging = k)
  PROVE  /\ Cardinality(Asking(v)) \in Nat /\ Cardinality(Asking(v)') \in Nat
         /\ Cardinality(Holding(v)) \in Nat /\ Cardinality(Holding(v)') \in Nat
         /\ Cardinality(Asking(v)') =
              Cardinality(Asking(v)) - (IF j \in Asking(v) THEN 1 ELSE 0)
                                     + (IF j \in Asking(v)' THEN 1 ELSE 0)
         /\ Cardinality(Holding(v)') =
              Cardinality(Holding(v)) - (IF j \in Holding(v) THEN 1 ELSE 0)
                                      + (IF j \in Holding(v)' THEN 1 ELSE 0)
<1>1. IsFiniteSet(Judges)
  BY JudgmentAssumption
<1>2. /\ Asking(v) \in SUBSET Judges /\ Asking(v)' \in SUBSET Judges
      /\ Asking(v) \ {j} = Asking(v)' \ {j}
  BY DEF Asking
<1>3. /\ Holding(v) \in SUBSET Judges /\ Holding(v)' \in SUBSET Judges
      /\ Holding(v) \ {j} = Holding(v)' \ {j}
  BY DEF Holding
<1>4. /\ Cardinality(Asking(v)) \in Nat /\ Cardinality(Asking(v)') \in Nat
      /\ Cardinality(Asking(v)') =
           Cardinality(Asking(v)) - (IF j \in Asking(v) THEN 1 ELSE 0)
                                  + (IF j \in Asking(v)' THEN 1 ELSE 0)
  BY <1>1, <1>2, CountChange
<1>5. /\ Cardinality(Holding(v)) \in Nat /\ Cardinality(Holding(v)') \in Nat
      /\ Cardinality(Holding(v)') =
           Cardinality(Holding(v)) - (IF j \in Holding(v) THEN 1 ELSE 0)
                                   + (IF j \in Holding(v)' THEN 1 ELSE 0)
  BY <1>1, <1>3, CountChange
<1> QED
  BY <1>4, <1>5

LEMMA TurnChangesInv == ASSUME JudgmentInv, TurnChanges PROVE JudgmentInv'
<1> USE DEF JudgmentInv, TurnChanges
<1>1. JudgesAreSound'
  BY JudgmentAssumption DEF JudgesAreSound, JudgeStates, Versions
<1>2. AnswersAreCounted'
  <2>1. Holding(turn)' = {} /\ answered'[turn'] = 0
    BY <1>1 DEF Holding, JudgesAreSound, AnswersAreCounted, Versions
  <2>2. Cardinality(Holding(turn)') = 0
    BY <2>1, FS_EmptySet
  <2>3. ASSUME NEW v \in Versions, v > turn' PROVE answered'[v] = 0
    BY <2>3 DEF JudgesAreSound, AnswersAreCounted, Versions
  <2> QED
    BY <2>1, <2>2, <2>3 DEF AnswersAreCounted
<1>3. AnswersAreBounded'
  <2> SUFFICES ASSUME NEW v \in Versions
               PROVE  answered'[v] + Cardinality(Asking(v)') <= losses' + (IF Settled(v)' THEN 1 ELSE 0)
    BY DEF AnswersAreBounded
  <2>1. Asking(v)' = Asking(v) /\ (Settled(v) => Settled(v)')
    BY DEF Asking, Settled, JudgesAreSound, Versions
  <2> QED
    BY SMTT(30), <2>1, JudgmentAssumption, FS_CardinalityType, FS_Subset
    DEF AnswersAreBounded, JudgesAreSound, Versions, Asking
<1> QED
  BY <1>1, <1>2, <1>3

LEMMA PlansTurnInv == ASSUME JudgmentInv, NEW j \in Judges, PlansTurn(j) PROVE JudgmentInv'
<1> USE DEF JudgmentInv, PlansTurn
<1>1. JudgesAreSound'
  <2> DEFINE planned == [Away EXCEPT !.pc = "guard", !.turn = turn]
  <2>1. /\ planned \in JudgeStates
        /\ planned.pc = "guard" /\ planned.turn = turn /\ planned.status = "none"
    BY DEF Away, JudgeStates, JudgesAreSound
  <2>2. judge' = [judge EXCEPT ![j] = planned]
    OBVIOUS
  <2> HIDE DEF planned
  <2>3. judge' \in [Judges -> JudgeStates]
    BY <2>1, <2>2 DEF JudgesAreSound
  <2>4. judge[j].pc = "away" /\ judging # j
    BY DEF JudgesAreSound
  <2>5. ASSUME NEW k \in Judges
        PROVE  /\ judge'[k].turn <= turn
               /\ judge'[k].turn = 0 <=> judge'[k].pc = "away"
               /\ judge'[k].status = "none" <=> judge'[k].pc # "write"
               /\ judging = k => judge'[k].pc \in {"read", "ask", "write"}
    <3>1. CASE k = j
      <4>1. judge'[k] = planned /\ turn \in Nat \ {0}
        BY <2>2, <3>1 DEF JudgesAreSound, Versions
      <4> HIDE DEF PlansTurn, JudgmentInv
      <4> QED
        BY <2>1, <2>4, <3>1, <4>1
    <3>2. CASE k # j
      BY <2>2, <3>2 DEF JudgesAreSound
    <3> QED
      BY <3>1, <3>2
  <2> QED
    BY <2>3, <2>5 DEF JudgesAreSound
<1>2. \A k \in Judges \ {j} : judge'[k] = judge[k] /\ (judging' = k <=> judging = k)
  BY JudgmentAssumption DEF JudgesAreSound, JudgeStates
<1>3. AnswersAreCounted'
  <2>1. Cardinality(Holding(turn)') =
          Cardinality(Holding(turn)) - (IF j \in Holding(turn) THEN 1 ELSE 0)
                                     + (IF j \in Holding(turn)' THEN 1 ELSE 0)
    BY <1>2, JudgeMoves
  <2> QED
    BY <2>1, <1>1, JudgeMoves DEF AnswersAreCounted, JudgesAreSound, JudgeStates, Holding, IsJudged, Away, Versions
<1>4. AnswersAreBounded'
  <2> SUFFICES ASSUME NEW v \in Versions
               PROVE  answered'[v] + Cardinality(Asking(v)') <= losses' + (IF Settled(v)' THEN 1 ELSE 0)
    BY DEF AnswersAreBounded
  <2>1. /\ Cardinality(Asking(v)) \in Nat /\ Cardinality(Asking(v)') \in Nat
        /\ Cardinality(Asking(v)') =
             Cardinality(Asking(v)) - (IF j \in Asking(v) THEN 1 ELSE 0)
                                    + (IF j \in Asking(v)' THEN 1 ELSE 0)
    BY <1>2, JudgeMoves
  <2>2. answered[v] + Cardinality(Asking(v)) <= losses + (IF Settled(v) THEN 1 ELSE 0)
    BY DEF AnswersAreBounded
  <2> QED
    BY <2>1, <2>2 DEF JudgesAreSound, JudgeStates, Asking, Settled, IsJudged, Away, Versions
<1> QED
  BY <1>1, <1>3, <1>4

LEMMA TakesTurnInv == ASSUME JudgmentInv, NEW j \in Judges, TakesTurn(j) PROVE JudgmentInv'
<1> USE DEF JudgmentInv, TakesTurn, GoesAway
<1>1. JudgesAreSound'
  <2>1. CASE judging = NoJudge
    <3>1. judge[j] \in JudgeStates /\ judge' = [judge EXCEPT ![j].pc = "read"] /\ judging' = j
      BY <2>1 DEF JudgesAreSound
    <3> DEFINE h == [judge[j] EXCEPT !.pc = "read"]
    <3>2. h \in JudgeStates /\ h.pc = "read" /\ h.turn = judge[j].turn /\ h.status = judge[j].status
      BY <3>1 DEF JudgeStates
    <3>3. judge' = [judge EXCEPT ![j] = h]
      BY <3>1
    <3> HIDE DEF h
    <3>4. judge' \in [Judges -> JudgeStates] /\ judge'[j] = h /\ \A k \in Judges \ {j} : judge'[k] = judge[k]
      BY <3>2, <3>3 DEF JudgesAreSound
    <3> QED
      BY <2>1, <3>1, <3>2, <3>4, JudgmentAssumption DEF JudgesAreSound, Versions
  <2>2. CASE judging # NoJudge
    <3>1. Away \in JudgeStates /\ Away.turn = 0 /\ Away.pc = "away" /\ Away.status = "none"
      BY DEF JudgeStates, Away
    <3> QED
      BY SMTT(30), <2>2, <3>1, JudgmentAssumption DEF JudgesAreSound, Versions
  <2> QED
    BY <2>1, <2>2
<1>2. \A k \in Judges \ {j} : judge'[k] = judge[k] /\ (judging' = k <=> judging = k)
  BY JudgmentAssumption DEF JudgesAreSound, JudgeStates
<1>3. AnswersAreCounted'
  <2>1. Cardinality(Holding(turn)') =
          Cardinality(Holding(turn)) - (IF j \in Holding(turn) THEN 1 ELSE 0)
                                     + (IF j \in Holding(turn)' THEN 1 ELSE 0)
    BY <1>2, JudgeMoves
  <2> QED
    BY <2>1, <1>1, JudgeMoves DEF AnswersAreCounted, JudgesAreSound, JudgeStates, Holding, IsJudged, Away, Versions
<1>4. AnswersAreBounded'
  <2> SUFFICES ASSUME NEW v \in Versions
               PROVE  answered'[v] + Cardinality(Asking(v)') <= losses' + (IF Settled(v)' THEN 1 ELSE 0)
    BY DEF AnswersAreBounded
  <2>1. /\ Cardinality(Asking(v)) \in Nat /\ Cardinality(Asking(v)') \in Nat
        /\ Cardinality(Asking(v)') =
             Cardinality(Asking(v)) - (IF j \in Asking(v) THEN 1 ELSE 0)
                                    + (IF j \in Asking(v)' THEN 1 ELSE 0)
    BY <1>2, JudgeMoves
  <2>2. answered[v] + Cardinality(Asking(v)) <= losses + (IF Settled(v) THEN 1 ELSE 0)
    BY DEF AnswersAreBounded
  <2>3. j \notin Asking(v) /\ j \notin Asking(v)'
    BY JudgmentAssumption DEF JudgesAreSound, JudgeStates, Asking, Away
  <2>4. Settled(v) => Settled(v)'
    BY JudgmentAssumption DEF JudgesAreSound, JudgeStates, Settled, IsJudged
  <2> QED
    BY <2>1, <2>2, <2>3, <2>4 DEF JudgesAreSound, Versions
<1> QED
  BY <1>1, <1>3, <1>4

LEMMA ReadsTurnInv == ASSUME JudgmentInv, NEW j \in Judges, ReadsTurn(j) PROVE JudgmentInv'
<1> USE DEF JudgmentInv, ReadsTurn, GoesAway
<1>1. JudgesAreSound'
  <2>1. CASE judge' = [judge EXCEPT ![j].pc = "ask"] /\ UNCHANGED judging
    BY <2>1 DEF JudgesAreSound, JudgeStates, Versions
  <2>2. CASE GoesAway(j)
    BY <2>2, JudgmentAssumption DEF JudgesAreSound, JudgeStates, Versions, Away
  <2> QED
    BY <2>1, <2>2
<1>2. \A k \in Judges \ {j} : judge'[k] = judge[k] /\ (judging' = k <=> judging = k)
  BY JudgmentAssumption DEF JudgesAreSound, JudgeStates
<1>3. AnswersAreCounted'
  <2>1. Cardinality(Holding(turn)') =
          Cardinality(Holding(turn)) - (IF j \in Holding(turn) THEN 1 ELSE 0)
                                     + (IF j \in Holding(turn)' THEN 1 ELSE 0)
    BY <1>2, JudgeMoves
  <2> QED
    BY <2>1, <1>1, JudgeMoves DEF AnswersAreCounted, JudgesAreSound, JudgeStates, Holding, IsJudged, Away, Versions
<1>4. AnswersAreBounded'
  <2> SUFFICES ASSUME NEW v \in Versions
               PROVE  answered'[v] + Cardinality(Asking(v)') <= losses' + (IF Settled(v)' THEN 1 ELSE 0)
    BY DEF AnswersAreBounded
  <2>1. /\ Cardinality(Asking(v)) \in Nat /\ Cardinality(Asking(v)') \in Nat
        /\ Cardinality(Asking(v)') =
             Cardinality(Asking(v)) - (IF j \in Asking(v) THEN 1 ELSE 0)
                                    + (IF j \in Asking(v)' THEN 1 ELSE 0)
    BY <1>2, JudgeMoves
  <2>2. answered[v] + Cardinality(Asking(v)) <= losses + (IF Settled(v) THEN 1 ELSE 0)
    BY DEF AnswersAreBounded
  <2> QED
    BY SMTT(30), <2>1, <2>2 DEF JudgesAreSound, JudgeStates, Asking, Settled, IsJudged, Away, Versions
<1> QED
  BY <1>1, <1>3, <1>4

LEMMA AsksJudgeInv == ASSUME JudgmentInv, NEW j \in Judges, AsksJudge(j) PROVE JudgmentInv'
<1> USE DEF JudgmentInv, AsksJudge
<1>1. JudgesAreSound'
  BY SMTT(30), JudgmentAssumption DEF JudgesAreSound, JudgeStates, Versions, IsJudged, Away
<1>2. \A k \in Judges \ {j} : judge'[k] = judge[k] /\ (judging' = k <=> judging = k)
  BY JudgmentAssumption DEF JudgesAreSound, JudgeStates
<1>3. AnswersAreCounted'
  <2>1. Cardinality(Holding(turn)') =
          Cardinality(Holding(turn)) - (IF j \in Holding(turn) THEN 1 ELSE 0)
                                     + (IF j \in Holding(turn)' THEN 1 ELSE 0)
    BY <1>2, JudgeMoves
  <2> QED
    BY <2>1, <1>1, JudgeMoves DEF AnswersAreCounted, JudgesAreSound, JudgeStates, Holding, IsJudged, Away, Versions
<1>4. AnswersAreBounded'
  <2> SUFFICES ASSUME NEW v \in Versions
               PROVE  answered'[v] + Cardinality(Asking(v)') <= losses' + (IF Settled(v)' THEN 1 ELSE 0)
    BY DEF AnswersAreBounded
  <2>1. /\ Cardinality(Asking(v)) \in Nat /\ Cardinality(Asking(v)') \in Nat
        /\ Cardinality(Asking(v)') =
             Cardinality(Asking(v)) - (IF j \in Asking(v) THEN 1 ELSE 0)
                                    + (IF j \in Asking(v)' THEN 1 ELSE 0)
    BY <1>2, JudgeMoves
  <2>2. answered[v] + Cardinality(Asking(v)) <= losses + (IF Settled(v) THEN 1 ELSE 0)
    BY DEF AnswersAreBounded
  <2> QED
    BY SMTT(30), <2>1, <2>2 DEF JudgesAreSound, JudgeStates, Asking, Settled, IsJudged, Away, Versions
<1> QED
  BY <1>1, <1>3, <1>4

LEMMA WritesVerdictInv == ASSUME JudgmentInv, NEW j \in Judges, WritesVerdict(j) PROVE JudgmentInv'
<1> USE DEF JudgmentInv, WritesVerdict, Writable, GoesAway
<1>1. JudgesAreSound'
  BY JudgmentAssumption DEF JudgesAreSound, JudgeStates, Versions, IsJudged, Away
<1>2. \A k \in Judges \ {j} : judge'[k] = judge[k] /\ (judging' = k <=> judging = k)
  BY JudgmentAssumption DEF JudgesAreSound, JudgeStates
<1>3. AnswersAreCounted'
  <2>1. Cardinality(Holding(turn)') =
          Cardinality(Holding(turn)) - (IF j \in Holding(turn) THEN 1 ELSE 0)
                                     + (IF j \in Holding(turn)' THEN 1 ELSE 0)
    BY <1>2, JudgeMoves
  <2> QED
    BY <2>1, <1>1, JudgeMoves DEF AnswersAreCounted, JudgesAreSound, JudgeStates, Holding, IsJudged, Away, Versions
<1>4. AnswersAreBounded'
  <2> SUFFICES ASSUME NEW v \in Versions
               PROVE  answered'[v] + Cardinality(Asking(v)') <= losses' + (IF Settled(v)' THEN 1 ELSE 0)
    BY DEF AnswersAreBounded
  <2>1. /\ Cardinality(Asking(v)) \in Nat /\ Cardinality(Asking(v)') \in Nat
        /\ Cardinality(Asking(v)') =
             Cardinality(Asking(v)) - (IF j \in Asking(v) THEN 1 ELSE 0)
                                    + (IF j \in Asking(v)' THEN 1 ELSE 0)
    BY <1>2, JudgeMoves
  <2>2. answered[v] + Cardinality(Asking(v)) <= losses + (IF Settled(v) THEN 1 ELSE 0)
    BY DEF AnswersAreBounded
  <2> QED
    BY <2>1, <2>2 DEF JudgesAreSound, JudgeStates, Asking, Settled, IsJudged, Away, Versions
<1> QED
  BY <1>1, <1>3, <1>4

LEMMA JudgeStopsInv == ASSUME JudgmentInv, NEW j \in Judges, JudgeStops(j) PROVE JudgmentInv'
<1> USE DEF JudgmentInv, JudgeStops, GoesAway
<1>1. JudgesAreSound'
  BY JudgmentAssumption DEF JudgesAreSound, JudgeStates, Versions, IsJudged, Away
<1>2. \A k \in Judges \ {j} : judge'[k] = judge[k] /\ (judging' = k <=> judging = k)
  BY JudgmentAssumption DEF JudgesAreSound, JudgeStates
<1>3. AnswersAreCounted'
  <2>1. Cardinality(Holding(turn)') =
          Cardinality(Holding(turn)) - (IF j \in Holding(turn) THEN 1 ELSE 0)
                                     + (IF j \in Holding(turn)' THEN 1 ELSE 0)
    BY <1>2, JudgeMoves
  <2> QED
    BY <2>1, <1>1, JudgeMoves DEF AnswersAreCounted, JudgesAreSound, JudgeStates, Holding, IsJudged, Away, Versions
<1>4. AnswersAreBounded'
  <2> SUFFICES ASSUME NEW v \in Versions
               PROVE  answered'[v] + Cardinality(Asking(v)') <= losses' + (IF Settled(v)' THEN 1 ELSE 0)
    BY DEF AnswersAreBounded
  <2>1. /\ Cardinality(Asking(v)) \in Nat /\ Cardinality(Asking(v)') \in Nat
        /\ Cardinality(Asking(v)') =
             Cardinality(Asking(v)) - (IF j \in Asking(v) THEN 1 ELSE 0)
                                    + (IF j \in Asking(v)' THEN 1 ELSE 0)
    BY <1>2, JudgeMoves
  <2>2. answered[v] + Cardinality(Asking(v)) <= losses + (IF Settled(v) THEN 1 ELSE 0)
    BY DEF AnswersAreBounded
  <2>3. j \notin Asking(v)'
    BY DEF JudgesAreSound, JudgeStates, Asking, Away
  <2>4. CASE judge[j].status = "completed" /\ judge[j].turn = v
    <3>1. answered'[v] = answered[v] - 1 /\ j \notin Asking(v)
      BY <2>4 DEF JudgesAreSound, JudgeStates, Asking
    <3> QED
      BY SMTT(30), <2>1, <2>2, <2>3, <3>1 DEF JudgesAreSound, Versions
  <2>5. CASE ~(judge[j].status = "completed" /\ judge[j].turn = v)
    <3>1. answered'[v] = answered[v]
      BY <2>5 DEF JudgesAreSound, JudgeStates
    <3>2. losses \in Nat /\ losses' = losses + 1 /\ answered[v] \in Int
      BY DEF JudgesAreSound, Versions
    <3> HIDE DEF JudgeStops, JudgmentInv
    <3> QED
      BY <2>1, <2>2, <2>3, <3>1, <3>2
  <2> QED
    BY <2>4, <2>5
<1> QED
  BY <1>1, <1>3, <1>4

LEMMA TurnGuardIsLostInv == ASSUME JudgmentInv, TurnGuardIsLost PROVE JudgmentInv'
<1> USE DEF JudgmentInv, TurnGuardIsLost
<1>1. PICK j \in Judges : judging = j
  BY DEF JudgesAreSound
<1>2. JudgesAreSound'
  BY JudgmentAssumption DEF JudgesAreSound
<1>3. AnswersAreCounted'
  BY DEF AnswersAreCounted, Holding, IsJudged
<1>4. AnswersAreBounded'
  <2> SUFFICES ASSUME NEW v \in Versions
               PROVE  answered'[v] + Cardinality(Asking(v)') <= losses' + (IF Settled(v)' THEN 1 ELSE 0)
    BY DEF AnswersAreBounded
  <2>1. \A k \in Judges \ {j} : judge'[k] = judge[k] /\ (judging' = k <=> judging = k)
    BY <1>1, JudgmentAssumption
  <2>2. /\ Cardinality(Asking(v)) \in Nat /\ Cardinality(Asking(v)') \in Nat
        /\ Cardinality(Asking(v)') =
             Cardinality(Asking(v)) - (IF j \in Asking(v) THEN 1 ELSE 0)
                                    + (IF j \in Asking(v)' THEN 1 ELSE 0)
    BY <2>1, JudgeMoves
  <2>3. answered[v] + Cardinality(Asking(v)) <= losses + (IF Settled(v) THEN 1 ELSE 0)
    BY DEF AnswersAreBounded
  <2>4. CASE judge[j].pc = "read" /\ judge[j].turn = v
    <3>1. j \notin Asking(v) /\ (Settled(v) => Settled(v)')
      BY <1>1, <2>4 DEF JudgesAreSound, JudgeStates, Asking, Settled, IsJudged
    <3>2. Cardinality(Asking(v)') <= Cardinality(Asking(v)) + 1
      BY <2>2, <3>1
    <3>3. /\ answered'[v] = answered[v] /\ answered[v] \in Int
          /\ losses \in Nat /\ losses' = losses + 1
      BY DEF JudgesAreSound
    <3>4. CASE Settled(v)
      BY <2>2, <2>3, <3>1, <3>2, <3>3, <3>4
    <3>5. CASE ~Settled(v)
      BY <2>2, <2>3, <3>2, <3>3, <3>5
    <3> QED
      BY <3>4, <3>5
  <2>5. CASE ~(judge[j].pc = "read" /\ judge[j].turn = v)
    <3>1. Cardinality(Asking(v)') <= Cardinality(Asking(v))
      BY <1>1, <2>2, <2>5 DEF Asking
    <3>2. /\ answered'[v] = answered[v] /\ answered[v] \in Int
          /\ losses \in Nat /\ losses' = losses + 1
      BY DEF JudgesAreSound
    <3>3. CASE Settled(v)
      BY <2>2, <2>3, <3>1, <3>2, <3>3
    <3>4. CASE ~Settled(v)
      BY <2>2, <2>3, <3>1, <3>2, <3>4
    <3> QED
      BY <3>3, <3>4
  <2> QED
    BY <2>4, <2>5
<1> QED
  BY <1>2, <1>3, <1>4

---------------------------------------------------------------------------
LEMMA JudgmentInitInv == JudgmentInit => JudgmentInv
<1> SUFFICES ASSUME JudgmentInit PROVE JudgmentInv
  OBVIOUS
<1>1. JudgesAreSound
  BY JudgmentAssumption DEF JudgmentInit, JudgesAreSound, NoVerdict, Away, JudgeStates, Versions
<1>2. ASSUME NEW v \in Versions PROVE Cardinality(Asking(v)) = 0 /\ Cardinality(Holding(v)) = 0
  <2>1. Asking(v) = {} /\ Holding(v) = {}
    BY DEF JudgmentInit, Asking, Holding, Away
  <2> QED
    BY <2>1, FS_EmptySet
<1>3. turn \in Versions /\ losses = 0 /\ \A v \in Versions : answered[v] = 0
  BY <1>1 DEF JudgmentInit, JudgesAreSound, Versions
<1>4. AnswersAreCounted
  BY <1>2, <1>3 DEF AnswersAreCounted
<1>5. AnswersAreBounded
  BY <1>2, <1>3 DEF AnswersAreBounded
<1> QED
  BY <1>1, <1>4, <1>5 DEF JudgmentInv

LEMMA JudgmentStepInv == JudgmentInv /\ [JudgmentNext]_turnVars => JudgmentInv'
<1> SUFFICES ASSUME JudgmentInv, [JudgmentNext]_turnVars PROVE JudgmentInv'
  OBVIOUS
<1>1. CASE UNCHANGED turnVars
  BY <1>1 DEF turnVars, JudgmentInv, JudgesAreSound, AnswersAreCounted, AnswersAreBounded,
              Holding, Asking, Settled, IsJudged
<1>2. CASE TurnChanges
  BY <1>2, TurnChangesInv
<1>3. CASE TurnGuardIsLost
  BY <1>3, TurnGuardIsLostInv
<1>4. ASSUME NEW j \in Judges,
             \/ PlansTurn(j) \/ TakesTurn(j) \/ ReadsTurn(j) \/ AsksJudge(j)
             \/ WritesVerdict(j) \/ JudgeStops(j)
      PROVE  JudgmentInv'
  BY <1>4, PlansTurnInv, TakesTurnInv, ReadsTurnInv, AsksJudgeInv, WritesVerdictInv, JudgeStopsInv
<1> QED
  BY <1>1, <1>2, <1>3, <1>4 DEF JudgmentNext

\* The counts of answers keep to the guard and its losses (JudgmentInv).
THEOREM JudgmentInvariant == JudgmentSpec => []JudgmentInv
BY JudgmentInitInv, JudgmentStepInv, PTL DEF JudgmentSpec

\* A turn, what is known of it and the evaluations of it keep to their types; none is of a
\* version to come.
THEOREM JudgmentTypes == JudgmentSpec => []JudgmentTypeOK
<1>1. JudgmentInv => JudgmentTypeOK
  <2> SUFFICES ASSUME JudgmentInv PROVE JudgmentTypeOK
    OBVIOUS
  <2>1. turn \in 1..MaxEdits /\ verdict \in [turn : 0..turn, status : {"none", "completed", "error"}]
    BY JudgmentAssumption DEF JudgmentInv, JudgesAreSound, Versions
  <2>2. ASSUME NEW j \in Judges PROVE DOMAIN judge[j] = DOMAIN Away /\ judge[j].turn \in 0..turn
    <3>1. judge[j] \in JudgeStates /\ judge[j].turn <= turn
      BY DEF JudgmentInv, JudgesAreSound
    <3>2. DOMAIN judge[j] = DOMAIN Away
      BY <3>1 DEF JudgeStates, Away
    <3> QED
      BY <2>1, <3>1, <3>2, JudgmentAssumption DEF JudgeStates, Versions
  <2> QED
    BY <2>1, <2>2 DEF JudgmentTypeOK, JudgmentInv, JudgesAreSound
<1> QED
  BY <1>1, JudgmentInvariant, PTL

LEMMA InvJudgmentIsKept == JudgmentInv => JudgmentIsKept
<1> SUFFICES ASSUME JudgmentInv PROVE JudgmentIsKept
  OBVIOUS
<1> USE DEF JudgmentInv
<1>1. ASSUME NEW v \in Versions PROVE answered[v] <= 1 + losses
  <2>1. Cardinality(Asking(v)) \in Nat
    BY JudgmentAssumption, FS_Subset, FS_CardinalityType DEF Asking
  <2> QED
    BY <2>1 DEF AnswersAreBounded, JudgesAreSound
<1>2. ASSUME answered[turn] > 0, ~IsJudged
      PROVE  \E j \in Judges : judge[j] = [pc |-> "write", turn |-> turn, status |-> "completed"]
  <2>1. Holding(turn) # {}
    BY <1>2, FS_EmptySet DEF AnswersAreCounted
  <2>2. PICK j \in Judges : judge[j].turn = turn /\ judge[j].status = "completed"
    BY <2>1 DEF Holding
  <2> QED
    BY <2>2 DEF JudgesAreSound, JudgeStates
<1> QED
  BY <1>1, <1>2 DEF JudgmentIsKept, Versions

\* save_agent_turn_judgment_if_current never gives up an answer about the turn as it
\* is, and the guard of a turn limits what is asked: one answer for a version, and one
\* for every guard that was lost or process that ended.
THEOREM JudgmentsAreKept == JudgmentSpec => []JudgmentIsKept
BY JudgmentInvariant, InvJudgmentIsKept, PTL

---------------------------------------------------------------------------
\* Calls of paid models.

CallsSpec == CallsInit /\ [][CallsNext]_callVars

CallPcs ==
  {"rest", "preflight", "enter", "check", "reserve", "look", "call", "recheck", "store", "record"}
CallStates ==
  [pc : CallPcs,
   kind : {"none", "direct", "scheduled", "explained"}, plan : Plans \cup {0},
   approval : Approvals \cup {NoApproval}, outcome : Outcomes \cup {"none"}]

Guarded == {"check", "reserve", "look", "call", "recheck", "store", "record"}

\* Calls of kinds direct and scheduled are judgments.
Judging(c, n) == caller[c].kind \in {"direct", "scheduled"} /\ caller[c].plan = n

\* What a caller is: a scheduled one is for the plan of its approval, and what it
\* records has a result.
CallerIsSound(c) ==
  /\ caller[c].pc # "rest" => caller[c].plan \in Plans
  /\ caller[c].pc = "rest" <=> caller[c].kind = "none"
  /\ caller[c].kind = "explained" => caller[c].pc \notin {"preflight", "look", "record"}
  /\ caller[c].kind = "direct" => caller[c].pc \notin {"preflight", "reserve", "record"}
  /\ caller[c].kind = "scheduled" =>
       /\ caller[c].approval \in Approvals
       /\ approval[caller[c].approval].state # "none"
       /\ approval[caller[c].approval].plan = caller[c].plan
  /\ caller[c].pc \in {"recheck", "store", "record"} => caller[c].outcome \in Outcomes
  /\ caller[c].pc = "record" => results[caller[c].plan] # {}
  /\ paying = c => caller[c].pc \in Guarded

CallersAreSound ==
  /\ CallsTypeOK
  /\ caller \in [Callers -> CallStates]
  /\ spent \in [approved : [Approvals -> Nat], judged : [Plans -> Nat], explained : [Plans -> Nat]]
  /\ \A c \in Callers : CallerIsSound(c)

\* Who has taken approval a and will call, unless it finds a result.
Claiming(a) ==
  {c \in Callers : caller[c].kind = "scheduled" /\ caller[c].approval = a /\ caller[c].pc \in {"look", "call"}}

\* An approval pays for a call only by leaving "pending", which it does once; it names
\* a result that is there.
ApprovalsAreCounted ==
  \A a \in Approvals :
    /\ spent.approved[a] + Cardinality(Claiming(a)) <=
         (IF approval[a].state \in {"spent", "recorded"} THEN 1 ELSE 0)
    /\ approval[a].state # "none" => approval[a].plan \in Plans
    /\ approval[a].state = "recorded" => results[approval[a].plan] # {}

\* Who is about to ask for an explanation of plan n.
Explaining(n) ==
  {c \in Callers : caller[c].kind = "explained" /\ caller[c].plan = n /\ caller[c].pc = "call"}

\* Whoever asks has reserved the answer, which is done once.
ExplanationsAreCounted ==
  \A n \in Plans :
     spent.explained[n] + Cardinality(Explaining(n)) <= (IF answers[n] = "none" THEN 0 ELSE 1)

\* Who may ask for a judgment of plan n without the guard, or is about to with it.
Due(n) ==
  {c \in Callers : /\ Judging(c, n)
                   /\ \/ caller[c].pc = "call"
                      \/ caller[c].pc \in {"check", "reserve", "look"} /\ paying # c}

\* Whoever takes the guard from now on will not ask for a judgment of plan n: it is
\* saved, or the holder of the guard is at it.
Provided(n) ==
  \/ results[n] # {}
  \/ \E c \in Callers : paying = c /\ Judging(c, n) /\ caller[c].pc \in {"call", "recheck", "store"}

\* Judgments paid for, those to come included, are one for the plan and one for every
\* mishap.
JudgedIsBounded ==
  \A n \in Plans :
     spent.judged[n] + Cardinality(Due(n)) <= mishaps + (IF Provided(n) THEN 1 ELSE 0)

\* Without mishaps whoever is past the guard holds it, and does not pay for what is saved.
WorksAlone(c) ==
  /\ caller[c].pc \in Guarded => paying = c
  /\ \A n \in Plans : Judging(c, n) /\ caller[c].pc \in {"call", "recheck", "store"} => results[n] = {}

CallersAreAlone ==
  mishaps = 0 => /\ \A c \in Callers : WorksAlone(c)
                 /\ \A n \in Plans : \A x, y \in results[n] : x = y

CallsInv ==
  /\ CallersAreSound /\ ApprovalsAreCounted /\ ExplanationsAreCounted
  /\ JudgedIsBounded /\ CallersAreAlone

\* Two sets that differ in x at most.
Differ(S, T, x) ==
  /\ Cardinality(S) \in Nat /\ Cardinality(T) \in Nat
  /\ Cardinality(T) = Cardinality(S) - (IF x \in S THEN 1 ELSE 0) + (IF x \in T THEN 1 ELSE 0)

\* A step of one caller changes by itself only who claims, explains and judges.
LEMMA CallerMoves ==
  ASSUME NEW c \in Callers,
         \A k \in Callers \ {c} : caller'[k] = caller[k] /\ (paying' = k <=> paying = k)
  PROVE  /\ \A a : Differ(Claiming(a), Claiming(a)', c)
         /\ \A n : Differ(Explaining(n), Explaining(n)', c)
         /\ \A n : Differ(Due(n), Due(n)', c)
<1>1. ASSUME NEW S \in SUBSET Callers, NEW T \in SUBSET Callers, S \ {c} = T \ {c}
      PROVE  Differ(S, T, c)
  BY <1>1, CallsAssumption, CountChange DEF Differ
<1>2. ASSUME NEW a PROVE Differ(Claiming(a), Claiming(a)', c)
  <2>1. /\ Claiming(a) \in SUBSET Callers /\ Claiming(a)' \in SUBSET Callers
        /\ Claiming(a) \ {c} = Claiming(a)' \ {c}
    BY DEF Claiming
  <2> QED
    BY <2>1, <1>1
<1>3. ASSUME NEW n PROVE Differ(Explaining(n), Explaining(n)', c)
  <2>1. /\ Explaining(n) \in SUBSET Callers /\ Explaining(n)' \in SUBSET Callers
        /\ Explaining(n) \ {c} = Explaining(n)' \ {c}
    BY DEF Explaining
  <2> QED
    BY <2>1, <1>1
<1>4. ASSUME NEW n PROVE Differ(Due(n), Due(n)', c)
  <2>1. /\ Due(n) \in SUBSET Callers /\ Due(n)' \in SUBSET Callers
        /\ Due(n) \ {c} = Due(n)' \ {c}
    BY DEF Due, Judging
  <2> QED
    BY <2>1, <1>1
<1> QED
  BY <1>2, <1>3, <1>4

---------------------------------------------------------------------------
\* The new state of a caller, field by field.

\* Caller c becomes h, and nobody else changes.
Becomes(c, h) ==
  /\ caller' \in [Callers -> CallStates]
  /\ \A k \in Callers : DOMAIN caller'[k] = DOMAIN Resting
  /\ \A k \in Callers \ {c} : caller'[k] = caller[k]
  /\ caller'[c].pc = h.pc /\ caller'[c].kind = h.kind /\ caller'[c].plan = h.plan
  /\ caller'[c].approval = h.approval /\ caller'[c].outcome = h.outcome

LEMMA CallerBecomes ==
  ASSUME CallersAreSound, NEW c \in Callers, NEW h \in CallStates,
         caller' = [caller EXCEPT ![c] = h]
  PROVE  Becomes(c, h)
<1>1. caller' \in [Callers -> CallStates]
  BY DEF CallersAreSound
<1>2. ASSUME NEW k \in Callers PROVE DOMAIN caller'[k] = DOMAIN Resting
  BY <1>1 DEF CallStates, Resting
<1> QED
  BY <1>1, <1>2 DEF CallersAreSound, Becomes

LEMMA CallerSteps ==
  ASSUME CallersAreSound, NEW c \in Callers, NEW pc \in CallPcs, Steps(c, pc)
  PROVE  Becomes(c, [caller[c] EXCEPT !.pc = pc])
<1>1. [caller[c] EXCEPT !.pc = pc] \in CallStates
  BY DEF CallersAreSound, CallStates
<1>2. caller' = [caller EXCEPT ![c] = [caller[c] EXCEPT !.pc = pc]]
  BY DEF Steps
<1> QED
  BY <1>1, <1>2, CallerBecomes

LEMMA CallerLearns ==
  ASSUME CallersAreSound, NEW c \in Callers, NEW pc \in CallPcs, NEW outcome \in Outcomes,
         caller' = [caller EXCEPT ![c].pc = pc, ![c].outcome = outcome]
  PROVE  Becomes(c, [caller[c] EXCEPT !.pc = pc, !.outcome = outcome])
<1>1. [caller[c] EXCEPT !.pc = pc, !.outcome = outcome] \in CallStates
  BY DEF CallersAreSound, CallStates
<1>2. caller' = [caller EXCEPT ![c] = [caller[c] EXCEPT !.pc = pc, !.outcome = outcome]]
  BY DEF CallersAreSound
<1> QED
  BY <1>1, <1>2, CallerBecomes

LEMMA CallerRests ==
  ASSUME CallersAreSound, NEW c \in Callers, Leaves(c)
  PROVE  Becomes(c, Resting)
BY CallerBecomes, CallsAssumption DEF Leaves, Resting, CallStates, CallPcs, Outcomes, Plans

---------------------------------------------------------------------------
\* What a step of one caller leaves as it is.

Moves(c) == \A k \in Callers \ {c} : caller'[k] = caller[k] /\ (paying' = k <=> paying = k)

ResultsStay == \A n \in Plans : results[n] \subseteq results'[n]

ApprovalsStay ==
  \A a \in Approvals : approval[a].state # "none" =>
                         approval'[a].state # "none" /\ approval'[a].plan = approval[a].plan

\* The other callers stay sound while approvals and results are not withdrawn.
LEMMA SoundKept ==
  ASSUME CallersAreSound, NEW c \in Callers, Moves(c), ApprovalsStay, ResultsStay,
         CallsTypeOK', caller' \in [Callers -> CallStates],
         spent' \in [approved : [Approvals -> Nat], judged : [Plans -> Nat], explained : [Plans -> Nat]],
         CallerIsSound(c)'
  PROVE  CallersAreSound'
<1>1. ASSUME NEW k \in Callers, k # c PROVE CallerIsSound(k)'
  <2>1. caller'[k] = caller[k] /\ (paying' = k <=> paying = k) /\ CallerIsSound(k)
    BY <1>1 DEF Moves, CallersAreSound
  <2>2. caller[k] \in CallStates
    BY DEF CallersAreSound
  <2>3. caller[k].pc = "record" => caller[k].plan \in Plans
    BY <2>1 DEF CallerIsSound
  <2> QED
    BY <2>1, <2>2, <2>3 DEF CallerIsSound, ApprovalsStay, ResultsStay
<1> QED
  BY <1>1 DEF CallersAreSound

LEMMA ApprovalsKept ==
  ASSUME CallersAreSound, ApprovalsAreCounted, NEW c \in Callers, Moves(c), ResultsStay,
         UNCHANGED <<spent, approval>>, \A a : c \in Claiming(a)' => c \in Claiming(a)
  PROVE  ApprovalsAreCounted'
<1> SUFFICES ASSUME NEW a \in Approvals
             PROVE  /\ spent.approved[a] + Cardinality(Claiming(a)') <=
                         (IF approval[a].state \in {"spent", "recorded"} THEN 1 ELSE 0)
                    /\ approval[a].state # "none" => approval[a].plan \in Plans
                    /\ approval[a].state = "recorded" => results'[approval[a].plan] # {}
  BY DEF ApprovalsAreCounted
<1>1. Cardinality(Claiming(a)') <= Cardinality(Claiming(a)) /\ Cardinality(Claiming(a)) \in Nat
      /\ Cardinality(Claiming(a)') \in Nat
  BY CallerMoves DEF Moves, Differ
<1> QED
  BY <1>1 DEF ApprovalsAreCounted, CallersAreSound, ResultsStay

LEMMA ExplanationsKept ==
  ASSUME CallersAreSound, ExplanationsAreCounted, NEW c \in Callers, Moves(c),
         UNCHANGED answers, spent'.explained = spent.explained,
         \A n : c \in Explaining(n)' => c \in Explaining(n)
  PROVE  ExplanationsAreCounted'
<1> SUFFICES ASSUME NEW n \in Plans
             PROVE  spent.explained[n] + Cardinality(Explaining(n)') <=
                      (IF answers[n] = "none" THEN 0 ELSE 1)
  BY DEF ExplanationsAreCounted
<1>1. Cardinality(Explaining(n)') <= Cardinality(Explaining(n)) /\ Cardinality(Explaining(n)) \in Nat
      /\ Cardinality(Explaining(n)') \in Nat
  BY CallerMoves DEF Moves, Differ
<1> QED
  BY <1>1 DEF ExplanationsAreCounted, CallersAreSound

LEMMA JudgedKept ==
  ASSUME CallersAreSound, JudgedIsBounded, NEW c \in Callers, Moves(c),
         UNCHANGED mishaps, spent'.judged = spent.judged,
         \A n \in Plans : /\ c \in Due(n)' => c \in Due(n)
                          /\ Provided(n) => Provided(n)'
  PROVE  JudgedIsBounded'
<1> SUFFICES ASSUME NEW n \in Plans
             PROVE  spent.judged[n] + Cardinality(Due(n)') <= mishaps + (IF Provided(n)' THEN 1 ELSE 0)
  BY DEF JudgedIsBounded
<1>1. Cardinality(Due(n)') <= Cardinality(Due(n)) /\ Cardinality(Due(n)) \in Nat
      /\ Cardinality(Due(n)') \in Nat
  BY CallerMoves DEF Moves, Differ
<1>2. spent.judged[n] + Cardinality(Due(n)) <= mishaps + (IF Provided(n) THEN 1 ELSE 0)
  BY DEF JudgedIsBounded
<1>3. spent.judged[n] \in Nat /\ mishaps \in Nat
  BY DEF CallersAreSound, CallsTypeOK
<1>4. CASE Provided(n)
  BY <1>1, <1>2, <1>3, <1>4
<1>5. CASE ~Provided(n)
  BY <1>1, <1>2, <1>3, <1>5
<1> QED
  BY <1>4, <1>5

LEMMA AloneKept ==
  ASSUME CallersAreSound, CallersAreAlone, NEW c \in Callers, Moves(c), UNCHANGED results,
         mishaps' = 0 => mishaps = 0, mishaps' = 0 /\ WorksAlone(c) => WorksAlone(c)'
  PROVE  CallersAreAlone'
<1> SUFFICES ASSUME mishaps' = 0
             PROVE  \A k \in Callers : WorksAlone(k)'
  BY DEF CallersAreAlone
<1>1. ASSUME NEW k \in Callers, k # c PROVE WorksAlone(k)'
  <2>1. caller'[k] = caller[k] /\ (paying' = k <=> paying = k) /\ WorksAlone(k)
    BY <1>1 DEF Moves, CallersAreAlone
  <2> QED
    BY <2>1 DEF WorksAlone, Judging
<1> QED
  BY <1>1 DEF CallersAreAlone

LEMMA CallLeavesInv ==
  ASSUME CallsInv, NEW c \in Callers, caller[c].pc # "rest", Leaves(c), mishaps' \in 0..MaxMishaps,
         UNCHANGED <<evidence, documentVars, spent, requests>>,
         \/ caller[c].pc \notin {"call", "recheck", "store"} /\ mishaps' = mishaps
         \/ mishaps' = mishaps + 1
  PROVE  CallsInv'
<1> USE DEF CallsInv
<1>1. /\ Becomes(c, Resting) /\ paying' = (IF paying = c THEN Nobody ELSE paying)
      /\ caller[c].pc # "rest" /\ mishaps' \in 0..MaxMishaps
      /\ \/ caller[c].pc \notin {"call", "recheck", "store"} /\ mishaps' = mishaps
         \/ mishaps' = mishaps + 1
      /\ UNCHANGED <<evidence, approval, results, answers, spent, requests>>
  BY CallerRests DEF Leaves, documentVars
<1>2. Moves(c) /\ ResultsStay /\ ApprovalsStay
  BY <1>1, CallsAssumption DEF Becomes, Moves, ResultsStay, ApprovalsStay, CallersAreSound, CallerIsSound, CallsTypeOK
<1>3. CallersAreSound'
  <2>1. CallsTypeOK'
    BY <1>1, CallsAssumption DEF Becomes, CallersAreSound, CallerIsSound, CallsTypeOK, Outcomes, ApprovalStates
  <2>2. CallerIsSound(c)'
    BY <1>1, CallsAssumption DEF Becomes, CallersAreSound, CallerIsSound, CallsTypeOK, CallStates, Resting, Guarded
  <2> QED
    BY <1>1, <1>2, <2>1, <2>2, SoundKept DEF Becomes, CallersAreSound
<1>4. ApprovalsAreCounted'
  BY <1>1, <1>2, ApprovalsKept DEF Becomes, Claiming, Resting
<1>5. ExplanationsAreCounted'
  BY <1>1, <1>2, ExplanationsKept DEF Becomes, Explaining, Resting
<1>6. JudgedIsBounded'
  <2> SUFFICES ASSUME NEW n \in Plans
               PROVE  spent'.judged[n] + Cardinality(Due(n)') <= mishaps' + (IF Provided(n)' THEN 1 ELSE 0)
    BY DEF JudgedIsBounded
  <2>1. Differ(Due(n), Due(n)', c)
    BY <1>2, CallerMoves DEF Moves
  <2>2. spent.judged[n] + Cardinality(Due(n)) <= mishaps + (IF Provided(n) THEN 1 ELSE 0)
    BY DEF JudgedIsBounded
  <2> QED
    BY <1>1, <2>1, <2>2, CallsAssumption
    DEF Becomes, Differ, CallersAreSound, CallerIsSound, CallsTypeOK, Due, Provided, Judging, Resting
<1>7. CallersAreAlone'
  <2>1. mishaps' = 0 /\ WorksAlone(c) => mishaps = 0 /\ WorksAlone(c)'
    BY <1>1, CallsAssumption DEF Becomes, CallersAreSound, CallerIsSound, CallsTypeOK, WorksAlone, Judging, Resting, Guarded
  <2> QED
    BY <1>1, <1>2, <2>1, AloneKept DEF CallersAreSound, CallsTypeOK
<1> QED
  BY <1>3, <1>4, <1>5, <1>6, <1>7

LEMMA BeginsInv ==
  ASSUME CallsInv, NEW c \in Callers, NEW h \in CallStates, caller[c].pc = "rest",
         h.pc \in {"preflight", "enter"}, h.plan \in Plans, h.kind # "none",
         h.pc = "preflight" => h.kind = "scheduled",
         h.kind = "scheduled" => /\ h.approval \in Approvals
                                 /\ approval[h.approval].state # "none"
                                 /\ approval[h.approval].plan = h.plan,
         caller' = [caller EXCEPT ![c] = h], requests' \in 0..MaxRequests,
         UNCHANGED <<evidence, documentVars, paying, spent, mishaps>>
  PROVE  CallsInv'
<1> USE DEF CallsInv
<1>1. /\ Becomes(c, h) /\ h \in CallStates /\ caller[c].pc = "rest"
      /\ h.pc \in {"preflight", "enter"} /\ h.plan \in Plans /\ h.kind # "none"
      /\ h.pc = "preflight" => h.kind = "scheduled"
      /\ h.kind = "scheduled" => /\ h.approval \in Approvals
                                 /\ approval[h.approval].state # "none"
                                 /\ approval[h.approval].plan = h.plan
      /\ requests' \in 0..MaxRequests
      /\ UNCHANGED <<evidence, approval, results, answers, paying, spent, mishaps>>
  BY CallerBecomes DEF documentVars
<1>2. Moves(c) /\ ResultsStay /\ ApprovalsStay
  BY <1>1, CallsAssumption DEF Becomes, Moves, ResultsStay, ApprovalsStay, CallersAreSound, CallerIsSound, CallsTypeOK
<1>3. CallersAreSound'
  <2>1. CallsTypeOK'
    BY <1>1, CallsAssumption DEF Becomes, CallersAreSound, CallerIsSound, CallsTypeOK, Outcomes, ApprovalStates
  <2>2. CallerIsSound(c)'
    BY <1>1, CallsAssumption DEF Becomes, CallersAreSound, CallerIsSound, CallsTypeOK, CallStates, Resting, Guarded
  <2> QED
    BY <1>1, <1>2, <2>1, <2>2, SoundKept DEF Becomes, CallersAreSound
<1>4. ApprovalsAreCounted'
  BY <1>1, <1>2, ApprovalsKept DEF Becomes, Claiming, Resting
<1>5. ExplanationsAreCounted'
  BY <1>1, <1>2, ExplanationsKept DEF Becomes, Explaining, Resting
<1>6. JudgedIsBounded'
  <2>1. ASSUME NEW n \in Plans PROVE (c \in Due(n)' => c \in Due(n)) /\ (Provided(n) => Provided(n)')
    BY <1>1, CallsAssumption DEF Becomes, CallersAreSound, CallerIsSound, CallsTypeOK, Due, Provided, Judging, Resting
  <2> QED
    BY <1>1, <1>2, <2>1, JudgedKept
<1>7. CallersAreAlone'
  <2>1. mishaps' = 0 /\ WorksAlone(c) => mishaps = 0 /\ WorksAlone(c)'
    BY <1>1, CallsAssumption DEF Becomes, CallersAreSound, CallerIsSound, CallsTypeOK, WorksAlone, Judging, Resting, Guarded
  <2> QED
    BY <1>1, <1>2, <2>1, AloneKept DEF CallersAreSound, CallsTypeOK
<1> QED
  BY <1>3, <1>4, <1>5, <1>6, <1>7

LEMMA EnterInv ==
  ASSUME CallsInv, NEW c \in Callers, Enter(c)
  PROVE  CallsInv'
<1> USE DEF CallsInv
<1>1. /\ Becomes(c, [caller[c] EXCEPT !.pc = "check"])
      /\ caller[c].pc = "enter" /\ paying = Nobody /\ paying' = c
      /\ UNCHANGED <<evidence, approval, results, answers, spent, requests, mishaps>>
  BY CallerSteps DEF Enter, CallPcs, documentVars
<1>2. Moves(c) /\ ResultsStay /\ ApprovalsStay
  BY <1>1, CallsAssumption DEF Becomes, Moves, ResultsStay, ApprovalsStay, CallersAreSound, CallerIsSound, CallsTypeOK
<1>3. CallersAreSound'
  <2>1. CallsTypeOK'
    BY <1>1, CallsAssumption DEF Becomes, CallersAreSound, CallerIsSound, CallsTypeOK, Outcomes, ApprovalStates
  <2>2. CallerIsSound(c)'
    BY <1>1, CallsAssumption DEF Becomes, CallersAreSound, CallerIsSound, CallsTypeOK, CallStates, Resting, Guarded
  <2> QED
    BY <1>1, <1>2, <2>1, <2>2, SoundKept DEF Becomes, CallersAreSound
<1>4. ApprovalsAreCounted'
  BY <1>1, <1>2, ApprovalsKept DEF Becomes, Claiming, Resting
<1>5. ExplanationsAreCounted'
  BY <1>1, <1>2, ExplanationsKept DEF Becomes, Explaining, Resting
<1>6. JudgedIsBounded'
  <2>1. ASSUME NEW n \in Plans PROVE (c \in Due(n)' => c \in Due(n)) /\ (Provided(n) => Provided(n)')
    BY <1>1, CallsAssumption DEF Becomes, CallersAreSound, CallerIsSound, CallsTypeOK, Due, Provided, Judging, Resting
  <2> QED
    BY <1>1, <1>2, <2>1, JudgedKept
<1>7. CallersAreAlone'
  <2>1. mishaps' = 0 /\ WorksAlone(c) => mishaps = 0 /\ WorksAlone(c)'
    BY <1>1, CallsAssumption DEF Becomes, CallersAreSound, CallerIsSound, CallsTypeOK, WorksAlone, Judging, Resting, Guarded
  <2> QED
    BY <1>1, <1>2, <2>1, AloneKept DEF CallersAreSound, CallsTypeOK
<1> QED
  BY <1>3, <1>4, <1>5, <1>6, <1>7

LEMMA CallStepsInv ==
  ASSUME CallsInv, NEW c \in Callers, NEW pc \in CallPcs, Steps(c, pc),
         \/ Is(c, "preflight", {"scheduled"}) /\ pc = "enter"
         \/ Is(c, "check", {"scheduled", "explained"}) /\ pc = "reserve"
         \/ Is(c, "check", {"direct"}) /\ pc = "look",
         UNCHANGED <<evidence, documentVars, paying, spent, requests, mishaps>>
  PROVE  CallsInv'
<1> USE DEF CallsInv
<1>1. /\ Becomes(c, [caller[c] EXCEPT !.pc = pc])
      /\ \/ caller[c].pc = "preflight" /\ caller[c].kind = "scheduled" /\ pc = "enter"
         \/ caller[c].pc = "check" /\ caller[c].kind \in {"scheduled", "explained"} /\ pc = "reserve"
         \/ caller[c].pc = "check" /\ caller[c].kind = "direct" /\ pc = "look"
      /\ UNCHANGED <<evidence, approval, results, answers, paying, spent, requests, mishaps>>
  BY CallerSteps DEF Is, documentVars
<1>2. Moves(c) /\ ResultsStay /\ ApprovalsStay
  BY <1>1, CallsAssumption DEF Becomes, Moves, ResultsStay, ApprovalsStay, CallersAreSound, CallerIsSound, CallsTypeOK
<1>3. CallersAreSound'
  <2>1. CallsTypeOK'
    BY <1>1, CallsAssumption DEF Becomes, CallersAreSound, CallerIsSound, CallsTypeOK, Outcomes, ApprovalStates
  <2>2. CallerIsSound(c)'
    BY <1>1, CallsAssumption DEF Becomes, CallersAreSound, CallerIsSound, CallsTypeOK, CallStates, Resting, Guarded
  <2> QED
    BY <1>1, <1>2, <2>1, <2>2, SoundKept DEF Becomes, CallersAreSound
<1>4. ApprovalsAreCounted'
  BY <1>1, <1>2, ApprovalsKept DEF Becomes, Claiming, Resting
<1>5. ExplanationsAreCounted'
  BY <1>1, <1>2, ExplanationsKept DEF Becomes, Explaining, Resting
<1>6. JudgedIsBounded'
  <2>1. ASSUME NEW n \in Plans PROVE (c \in Due(n)' => c \in Due(n)) /\ (Provided(n) => Provided(n)')
    BY <1>1, CallsAssumption DEF Becomes, CallersAreSound, CallerIsSound, CallsTypeOK, Due, Provided, Judging, Resting
  <2> QED
    BY <1>1, <1>2, <2>1, JudgedKept
<1>7. CallersAreAlone'
  <2>1. mishaps' = 0 /\ WorksAlone(c) => mishaps = 0 /\ WorksAlone(c)'
    BY <1>1, CallsAssumption DEF Becomes, CallersAreSound, CallerIsSound, CallsTypeOK, WorksAlone, Judging, Resting, Guarded
  <2> QED
    BY <1>1, <1>2, <2>1, AloneKept DEF CallersAreSound, CallsTypeOK
<1> QED
  BY <1>3, <1>4, <1>5, <1>6, <1>7

LEMMA CancelsItselfInv ==
  ASSUME CallsInv, NEW c \in Callers, CancelsItself(c), \E pc \in {"preflight", "check"} : Is(c, pc, {"scheduled"}),
         approval[caller[c].approval].state = "pending"
  PROVE  CallsInv'
<1> USE DEF CallsInv
<1>1. /\ Becomes(c, Resting) /\ paying' = (IF paying = c THEN Nobody ELSE paying)
      /\ caller[c].pc \in {"preflight", "check"} /\ caller[c].kind = "scheduled"
      /\ approval[caller[c].approval].state = "pending"
      /\ approval' = [approval EXCEPT ![caller[c].approval].state = "cancelled"]
      /\ UNCHANGED <<evidence, results, answers, spent, requests, mishaps>>
  BY CallerRests DEF CancelsItself, Leaves, Take, Is
<1>2. Moves(c) /\ ResultsStay /\ ApprovalsStay
  BY <1>1, CallsAssumption DEF Becomes, Moves, ResultsStay, ApprovalsStay, CallersAreSound, CallerIsSound, CallsTypeOK
<1>3. CallersAreSound'
  <2>1. CallsTypeOK'
    BY <1>1, CallsAssumption DEF Becomes, CallersAreSound, CallerIsSound, CallsTypeOK, Outcomes, ApprovalStates
  <2>2. CallerIsSound(c)'
    BY <1>1, CallsAssumption DEF Becomes, CallersAreSound, CallerIsSound, CallsTypeOK, CallStates, Resting, Guarded
  <2> QED
    BY <1>1, <1>2, <2>1, <2>2, SoundKept DEF Becomes, CallersAreSound
<1>4. ApprovalsAreCounted'
  <2> SUFFICES ASSUME NEW a \in Approvals
               PROVE  /\ spent'.approved[a] + Cardinality(Claiming(a)') <=
                           (IF approval'[a].state \in {"spent", "recorded"} THEN 1 ELSE 0)
                      /\ approval'[a].state # "none" => approval'[a].plan \in Plans
                      /\ approval'[a].state = "recorded" => results'[approval'[a].plan] # {}
    BY DEF ApprovalsAreCounted
  <2>1. Differ(Claiming(a), Claiming(a)', c)
    BY <1>2, CallerMoves DEF Moves
  <2> QED
    BY <1>1, <2>1, CallsAssumption DEF Becomes, Differ, ApprovalsAreCounted, CallersAreSound, CallerIsSound, CallsTypeOK, Claiming, Resting
<1>5. ExplanationsAreCounted'
  BY <1>1, <1>2, ExplanationsKept DEF Becomes, Explaining, Resting
<1>6. JudgedIsBounded'
  <2>1. ASSUME NEW n \in Plans PROVE (c \in Due(n)' => c \in Due(n)) /\ (Provided(n) => Provided(n)')
    BY <1>1, CallsAssumption DEF Becomes, CallersAreSound, CallerIsSound, CallsTypeOK, Due, Provided, Judging, Resting
  <2> QED
    BY <1>1, <1>2, <2>1, JudgedKept
<1>7. CallersAreAlone'
  <2>1. mishaps' = 0 /\ WorksAlone(c) => mishaps = 0 /\ WorksAlone(c)'
    BY <1>1, CallsAssumption DEF Becomes, CallersAreSound, CallerIsSound, CallsTypeOK, WorksAlone, Judging, Resting, Guarded
  <2> QED
    BY <1>1, <1>2, <2>1, AloneKept DEF CallersAreSound, CallsTypeOK
<1> QED
  BY <1>3, <1>4, <1>5, <1>6, <1>7

LEMMA ReserveApprovalInv ==
  ASSUME CallsInv, NEW c \in Callers, ReserveApproval(c), approval[caller[c].approval].state = "pending"
  PROVE  CallsInv'
<1> USE DEF CallsInv
<1>1. /\ Becomes(c, [caller[c] EXCEPT !.pc = "look"])
      /\ caller[c].pc = "reserve" /\ caller[c].kind = "scheduled"
      /\ approval[caller[c].approval].state = "pending"
      /\ approval' = [approval EXCEPT ![caller[c].approval].state = "spent"]
      /\ UNCHANGED <<evidence, results, answers, paying, spent, requests, mishaps>>
  BY CallerSteps DEF ReserveApproval, Take, Is, CallPcs
<1>2. Moves(c) /\ ResultsStay /\ ApprovalsStay
  BY <1>1, CallsAssumption DEF Becomes, Moves, ResultsStay, ApprovalsStay, CallersAreSound, CallerIsSound, CallsTypeOK
<1>3. CallersAreSound'
  <2>1. CallsTypeOK'
    BY <1>1, CallsAssumption DEF Becomes, CallersAreSound, CallerIsSound, CallsTypeOK, Outcomes, ApprovalStates
  <2>2. CallerIsSound(c)'
    BY <1>1, CallsAssumption DEF Becomes, CallersAreSound, CallerIsSound, CallsTypeOK, CallStates, Resting, Guarded
  <2> QED
    BY <1>1, <1>2, <2>1, <2>2, SoundKept DEF Becomes, CallersAreSound
<1>4. ApprovalsAreCounted'
  <2> SUFFICES ASSUME NEW a \in Approvals
               PROVE  /\ spent'.approved[a] + Cardinality(Claiming(a)') <=
                           (IF approval'[a].state \in {"spent", "recorded"} THEN 1 ELSE 0)
                      /\ approval'[a].state # "none" => approval'[a].plan \in Plans
                      /\ approval'[a].state = "recorded" => results'[approval'[a].plan] # {}
    BY DEF ApprovalsAreCounted
  <2>1. Differ(Claiming(a), Claiming(a)', c)
    BY <1>2, CallerMoves DEF Moves
  <2> QED
    BY <1>1, <2>1, CallsAssumption DEF Becomes, Differ, ApprovalsAreCounted, CallersAreSound, CallerIsSound, CallsTypeOK, Claiming, Resting
<1>5. ExplanationsAreCounted'
  BY <1>1, <1>2, ExplanationsKept DEF Becomes, Explaining, Resting
<1>6. JudgedIsBounded'
  <2>1. ASSUME NEW n \in Plans PROVE (c \in Due(n)' => c \in Due(n)) /\ (Provided(n) => Provided(n)')
    BY <1>1, CallsAssumption DEF Becomes, CallersAreSound, CallerIsSound, CallsTypeOK, Due, Provided, Judging, Resting
  <2> QED
    BY <1>1, <1>2, <2>1, JudgedKept
<1>7. CallersAreAlone'
  <2>1. mishaps' = 0 /\ WorksAlone(c) => mishaps = 0 /\ WorksAlone(c)'
    BY <1>1, CallsAssumption DEF Becomes, CallersAreSound, CallerIsSound, CallsTypeOK, WorksAlone, Judging, Resting, Guarded
  <2> QED
    BY <1>1, <1>2, <2>1, AloneKept DEF CallersAreSound, CallsTypeOK
<1> QED
  BY <1>3, <1>4, <1>5, <1>6, <1>7

LEMMA ReserveAnswerInv ==
  ASSUME CallsInv, NEW c \in Callers, ReserveAnswer(c), answers[caller[c].plan] = "none"
  PROVE  CallsInv'
<1> USE DEF CallsInv
<1>1. /\ Becomes(c, [caller[c] EXCEPT !.pc = "call"])
      /\ caller[c].pc = "reserve" /\ caller[c].kind = "explained"
      /\ answers[caller[c].plan] = "none"
      /\ answers' = [answers EXCEPT ![caller[c].plan] = "reserved"]
      /\ UNCHANGED <<evidence, approval, results, paying, spent, requests, mishaps>>
  BY CallerSteps DEF ReserveAnswer, Is, CallPcs
<1>2. Moves(c) /\ ResultsStay /\ ApprovalsStay
  BY <1>1, CallsAssumption DEF Becomes, Moves, ResultsStay, ApprovalsStay, CallersAreSound, CallerIsSound, CallsTypeOK
<1>3. CallersAreSound'
  <2>1. CallsTypeOK'
    BY <1>1, CallsAssumption DEF Becomes, CallersAreSound, CallerIsSound, CallsTypeOK, Outcomes, ApprovalStates
  <2>2. CallerIsSound(c)'
    BY <1>1, CallsAssumption DEF Becomes, CallersAreSound, CallerIsSound, CallsTypeOK, CallStates, Resting, Guarded
  <2> QED
    BY <1>1, <1>2, <2>1, <2>2, SoundKept DEF Becomes, CallersAreSound
<1>4. ApprovalsAreCounted'
  BY <1>1, <1>2, ApprovalsKept DEF Becomes, Claiming, Resting
<1>5. ExplanationsAreCounted'
  <2> SUFFICES ASSUME NEW n \in Plans
               PROVE  spent'.explained[n] + Cardinality(Explaining(n)') <=
                        (IF answers'[n] = "none" THEN 0 ELSE 1)
    BY DEF ExplanationsAreCounted
  <2>1. Differ(Explaining(n), Explaining(n)', c)
    BY <1>2, CallerMoves DEF Moves
  <2> QED
    BY <1>1, <2>1 DEF Becomes, Differ, ExplanationsAreCounted, CallersAreSound, CallerIsSound, CallsTypeOK, Explaining, Resting, Outcomes
<1>6. JudgedIsBounded'
  <2>1. ASSUME NEW n \in Plans PROVE (c \in Due(n)' => c \in Due(n)) /\ (Provided(n) => Provided(n)')
    BY <1>1, CallsAssumption DEF Becomes, CallersAreSound, CallerIsSound, CallsTypeOK, Due, Provided, Judging, Resting
  <2> QED
    BY <1>1, <1>2, <2>1, JudgedKept
<1>7. CallersAreAlone'
  <2>1. mishaps' = 0 /\ WorksAlone(c) => mishaps = 0 /\ WorksAlone(c)'
    BY <1>1, CallsAssumption DEF Becomes, CallersAreSound, CallerIsSound, CallsTypeOK, WorksAlone, Judging, Resting, Guarded
  <2> QED
    BY <1>1, <1>2, <2>1, AloneKept DEF CallersAreSound, CallsTypeOK
<1> QED
  BY <1>3, <1>4, <1>5, <1>6, <1>7

LEMMA LookFindsInv ==
  ASSUME CallsInv, NEW c \in Callers, NEW outcome \in Outcomes, Is(c, "look", {"scheduled"}), results[caller[c].plan] # {},
         caller' = [caller EXCEPT ![c].pc = "record", ![c].outcome = outcome],
         UNCHANGED <<evidence, documentVars, paying, spent, requests, mishaps>>
  PROVE  CallsInv'
<1> USE DEF CallsInv
<1>1. /\ Becomes(c, [caller[c] EXCEPT !.pc = "record", !.outcome = outcome])
      /\ caller[c].pc = "look" /\ caller[c].kind = "scheduled" /\ results[caller[c].plan] # {}
      /\ UNCHANGED <<evidence, approval, results, answers, paying, spent, requests, mishaps>>
  BY CallerLearns DEF Is, CallPcs, documentVars
<1>2. Moves(c) /\ ResultsStay /\ ApprovalsStay
  BY <1>1, CallsAssumption DEF Becomes, Moves, ResultsStay, ApprovalsStay, CallersAreSound, CallerIsSound, CallsTypeOK
<1>3. CallersAreSound'
  <2>1. CallsTypeOK'
    BY <1>1, CallsAssumption DEF Becomes, CallersAreSound, CallerIsSound, CallsTypeOK, Outcomes, ApprovalStates
  <2>2. CallerIsSound(c)'
    BY <1>1, CallsAssumption DEF Becomes, CallersAreSound, CallerIsSound, CallsTypeOK, CallStates, Resting, Guarded
  <2> QED
    BY <1>1, <1>2, <2>1, <2>2, SoundKept DEF Becomes, CallersAreSound
<1>4. ApprovalsAreCounted'
  BY <1>1, <1>2, ApprovalsKept DEF Becomes, Claiming, Resting
<1>5. ExplanationsAreCounted'
  BY <1>1, <1>2, ExplanationsKept DEF Becomes, Explaining, Resting
<1>6. JudgedIsBounded'
  <2>1. ASSUME NEW n \in Plans PROVE (c \in Due(n)' => c \in Due(n)) /\ (Provided(n) => Provided(n)')
    BY <1>1, CallsAssumption DEF Becomes, CallersAreSound, CallerIsSound, CallsTypeOK, Due, Provided, Judging, Resting
  <2> QED
    BY <1>1, <1>2, <2>1, JudgedKept
<1>7. CallersAreAlone'
  <2>1. mishaps' = 0 /\ WorksAlone(c) => mishaps = 0 /\ WorksAlone(c)'
    BY <1>1, CallsAssumption DEF Becomes, CallersAreSound, CallerIsSound, CallsTypeOK, WorksAlone, Judging, Resting, Guarded
  <2> QED
    BY <1>1, <1>2, <2>1, AloneKept DEF CallersAreSound, CallsTypeOK
<1> QED
  BY SMTT(30), <1>3, <1>4, <1>5, <1>6, <1>7

LEMMA LookMissesInv ==
  ASSUME CallsInv, NEW c \in Callers, Is(c, "look", {"direct", "scheduled"}), results[caller[c].plan] = {}, Steps(c, "call"),
         UNCHANGED <<evidence, documentVars, paying, spent, requests, mishaps>>
  PROVE  CallsInv'
<1> USE DEF CallsInv
<1>1. /\ Becomes(c, [caller[c] EXCEPT !.pc = "call"])
      /\ caller[c].pc = "look" /\ caller[c].kind \in {"direct", "scheduled"}
      /\ results[caller[c].plan] = {}
      /\ UNCHANGED <<evidence, approval, results, answers, paying, spent, requests, mishaps>>
  BY CallerSteps DEF Is, CallPcs, documentVars
<1>2. Moves(c) /\ ResultsStay /\ ApprovalsStay
  BY <1>1, CallsAssumption DEF Becomes, Moves, ResultsStay, ApprovalsStay, CallersAreSound, CallerIsSound, CallsTypeOK
<1>3. CallersAreSound'
  <2>1. CallsTypeOK'
    BY <1>1, CallsAssumption DEF Becomes, CallersAreSound, CallerIsSound, CallsTypeOK, Outcomes, ApprovalStates
  <2>2. CallerIsSound(c)'
    BY <1>1, CallsAssumption DEF Becomes, CallersAreSound, CallerIsSound, CallsTypeOK, CallStates, Resting, Guarded
  <2> QED
    BY <1>1, <1>2, <2>1, <2>2, SoundKept DEF Becomes, CallersAreSound
<1>4. ApprovalsAreCounted'
  BY <1>1, <1>2, ApprovalsKept DEF Becomes, Claiming, Resting
<1>5. ExplanationsAreCounted'
  BY <1>1, <1>2, ExplanationsKept DEF Becomes, Explaining, Resting
<1>6. JudgedIsBounded'
  <2> SUFFICES ASSUME NEW n \in Plans
               PROVE  spent'.judged[n] + Cardinality(Due(n)') <= mishaps' + (IF Provided(n)' THEN 1 ELSE 0)
    BY DEF JudgedIsBounded
  <2>1. Differ(Due(n), Due(n)', c)
    BY <1>2, CallerMoves DEF Moves
  <2>2. spent.judged[n] + Cardinality(Due(n)) <= mishaps + (IF Provided(n) THEN 1 ELSE 0)
    BY DEF JudgedIsBounded
  <2> QED
    BY <1>1, <2>1, <2>2, CallsAssumption
    DEF Becomes, Differ, CallersAreSound, CallerIsSound, CallsTypeOK, Due, Provided, Judging, Resting
<1>7. CallersAreAlone'
  <2>1. mishaps' = 0 /\ WorksAlone(c) => mishaps = 0 /\ WorksAlone(c)'
    BY <1>1, CallsAssumption DEF Becomes, CallersAreSound, CallerIsSound, CallsTypeOK, WorksAlone, Judging, Resting, Guarded
  <2> QED
    BY <1>1, <1>2, <2>1, AloneKept DEF CallersAreSound, CallsTypeOK
<1> QED
  BY <1>3, <1>4, <1>5, <1>6, <1>7

\* What a call costs.
LEMMA CallSpends ==
  ASSUME CallersAreSound, NEW c \in Callers, Call(c)
  PROVE  /\ \E outcome \in Outcomes : Becomes(c, [caller[c] EXCEPT !.pc = "recheck", !.outcome = outcome])
         /\ caller[c].pc = "call" /\ caller[c].plan \in Plans
         /\ spent' \in [approved : [Approvals -> Nat], judged : [Plans -> Nat], explained : [Plans -> Nat]]
         /\ spent'.judged = IF caller[c].kind = "explained" THEN spent.judged
                            ELSE [spent.judged EXCEPT ![caller[c].plan] = @ + 1]
         /\ spent'.explained = IF caller[c].kind # "explained" THEN spent.explained
                               ELSE [spent.explained EXCEPT ![caller[c].plan] = @ + 1]
         /\ spent'.approved = IF caller[c].kind # "scheduled" THEN spent.approved
                              ELSE [spent.approved EXCEPT ![caller[c].approval] = @ + 1]
         /\ UNCHANGED <<evidence, approval, results, answers, paying, requests, mishaps>>
<1>1. /\ caller[c].pc = "call" /\ caller[c].plan \in Plans
      /\ caller[c].kind \in {"direct", "scheduled", "explained"}
      /\ caller[c].kind = "scheduled" => caller[c].approval \in Approvals
  BY DEF Call, CallersAreSound, CallerIsSound, CallStates
<1>2. PICK outcome \in Outcomes :
        caller' = [caller EXCEPT ![c].pc = "recheck", ![c].outcome = outcome]
  BY DEF Call
<1>3. Becomes(c, [caller[c] EXCEPT !.pc = "recheck", !.outcome = outcome])
  BY <1>2, CallerLearns DEF CallPcs
<1>4. UNCHANGED <<evidence, approval, results, answers, paying, requests, mishaps>>
  BY DEF Call, documentVars
<1>5. spent \in [approved : [Approvals -> Nat], judged : [Plans -> Nat], explained : [Plans -> Nat]]
  BY DEF CallersAreSound
<1> DEFINE Costs ==
      /\ spent' \in [approved : [Approvals -> Nat], judged : [Plans -> Nat], explained : [Plans -> Nat]]
      /\ spent'.judged = IF caller[c].kind = "explained" THEN spent.judged
                         ELSE [spent.judged EXCEPT ![caller[c].plan] = @ + 1]
      /\ spent'.explained = IF caller[c].kind # "explained" THEN spent.explained
                            ELSE [spent.explained EXCEPT ![caller[c].plan] = @ + 1]
      /\ spent'.approved = IF caller[c].kind # "scheduled" THEN spent.approved
                           ELSE [spent.approved EXCEPT ![caller[c].approval] = @ + 1]
<1>6. ASSUME caller[c].kind = "direct" PROVE Costs
  <2>1. spent' = [spent EXCEPT !.judged[caller[c].plan] = @ + 1]
    BY <1>6 DEF Call
  <2> QED
    BY <1>1, <1>5, <1>6, <2>1
<1>7. ASSUME caller[c].kind = "explained" PROVE Costs
  <2>1. spent' = [spent EXCEPT !.explained[caller[c].plan] = @ + 1]
    BY <1>7 DEF Call
  <2> QED
    BY <1>1, <1>5, <1>7, <2>1
<1>8. ASSUME caller[c].kind = "scheduled" PROVE Costs
  <2>1. spent' = [spent EXCEPT !.judged[caller[c].plan] = @ + 1, !.approved[caller[c].approval] = @ + 1]
    BY <1>8 DEF Call
  <2>2. /\ spent'.judged = [spent.judged EXCEPT ![caller[c].plan] = @ + 1]
        /\ spent'.approved = [spent.approved EXCEPT ![caller[c].approval] = @ + 1]
        /\ spent'.explained = spent.explained
    BY <1>1, <1>5, <2>1
  <2>3. /\ spent'.judged \in [Plans -> Nat] /\ spent'.approved \in [Approvals -> Nat]
        /\ spent'.explained \in [Plans -> Nat]
    BY <1>1, <1>5, <1>8, <2>2
  <2>4. spent' = [spent EXCEPT !.judged = spent'.judged, !.approved = spent'.approved]
    BY <1>1, <1>5, <2>1
  <2>5. spent' \in [approved : [Approvals -> Nat], judged : [Plans -> Nat], explained : [Plans -> Nat]]
    BY <1>5, <2>3, <2>4
  <2> QED
    BY <1>8, <2>2, <2>5
<1> QED
  BY <1>1, <1>3, <1>4, <1>6, <1>7, <1>8

LEMMA CallInv ==
  ASSUME CallsInv, NEW c \in Callers, Call(c)
  PROVE  CallsInv'
<1> USE DEF CallsInv
<1>1. /\ \E outcome \in Outcomes : Becomes(c, [caller[c] EXCEPT !.pc = "recheck", !.outcome = outcome])
      /\ caller[c].pc = "call" /\ caller[c].plan \in Plans
      /\ spent' \in [approved : [Approvals -> Nat], judged : [Plans -> Nat], explained : [Plans -> Nat]]
      /\ spent'.judged = IF caller[c].kind = "explained" THEN spent.judged
                          ELSE [spent.judged EXCEPT ![caller[c].plan] = @ + 1]
      /\ spent'.explained = IF caller[c].kind # "explained" THEN spent.explained
                             ELSE [spent.explained EXCEPT ![caller[c].plan] = @ + 1]
      /\ spent'.approved = IF caller[c].kind # "scheduled" THEN spent.approved
                            ELSE [spent.approved EXCEPT ![caller[c].approval] = @ + 1]
      /\ UNCHANGED <<evidence, approval, results, answers, paying, requests, mishaps>>
  BY CallSpends
<1>2. Moves(c) /\ ResultsStay /\ ApprovalsStay
  BY <1>1, CallsAssumption DEF Becomes, Moves, ResultsStay, ApprovalsStay, CallersAreSound, CallerIsSound, CallsTypeOK
<1>3. CallersAreSound'
  <2>1. CallsTypeOK'
    BY <1>1, CallsAssumption DEF Becomes, CallersAreSound, CallerIsSound, CallsTypeOK, Outcomes, ApprovalStates
  <2>2. CallerIsSound(c)'
    BY <1>1, CallsAssumption DEF Becomes, CallersAreSound, CallerIsSound, CallsTypeOK, CallStates, Resting, Guarded
  <2> QED
    BY <1>1, <1>2, <2>1, <2>2, SoundKept DEF Becomes, CallersAreSound
<1>4. ApprovalsAreCounted'
  <2> SUFFICES ASSUME NEW a \in Approvals
               PROVE  /\ spent'.approved[a] + Cardinality(Claiming(a)') <=
                           (IF approval'[a].state \in {"spent", "recorded"} THEN 1 ELSE 0)
                      /\ approval'[a].state # "none" => approval'[a].plan \in Plans
                      /\ approval'[a].state = "recorded" => results'[approval'[a].plan] # {}
    BY DEF ApprovalsAreCounted
  <2>1. Differ(Claiming(a), Claiming(a)', c)
    BY <1>2, CallerMoves DEF Moves
  <2> QED
    BY <1>1, <2>1, CallsAssumption DEF Becomes, Differ, ApprovalsAreCounted, CallersAreSound, CallerIsSound, CallsTypeOK, Claiming, Resting
<1>5. ExplanationsAreCounted'
  <2> SUFFICES ASSUME NEW n \in Plans
               PROVE  spent'.explained[n] + Cardinality(Explaining(n)') <=
                        (IF answers'[n] = "none" THEN 0 ELSE 1)
    BY DEF ExplanationsAreCounted
  <2>1. Differ(Explaining(n), Explaining(n)', c)
    BY <1>2, CallerMoves DEF Moves
  <2> QED
    BY <1>1, <2>1 DEF Becomes, Differ, ExplanationsAreCounted, CallersAreSound, CallerIsSound, CallsTypeOK, Explaining, Resting, Outcomes
<1>6. JudgedIsBounded'
  <2> SUFFICES ASSUME NEW n \in Plans
               PROVE  spent'.judged[n] + Cardinality(Due(n)') <= mishaps' + (IF Provided(n)' THEN 1 ELSE 0)
    BY DEF JudgedIsBounded
  <2>1. Differ(Due(n), Due(n)', c)
    BY <1>2, CallerMoves DEF Moves
  <2>2. spent.judged[n] + Cardinality(Due(n)) <= mishaps + (IF Provided(n) THEN 1 ELSE 0)
    BY DEF JudgedIsBounded
  <2>3. spent.judged[n] \in Nat /\ mishaps \in Nat /\ mishaps' = mishaps
    BY <1>1 DEF CallersAreSound, CallsTypeOK
  <2>4. Provided(n) => Provided(n)'
    BY <1>1, <1>2 DEF Becomes, Moves, Provided, Judging
  <2>5. c \notin Due(n)'
    BY <1>1 DEF Becomes, CallersAreSound, Due
  <2>6. spent'.judged[n] = spent.judged[n] + (IF c \in Due(n) THEN 1 ELSE 0)
    BY <1>1 DEF CallersAreSound, CallerIsSound, CallStates, Due, Judging
  <2>7. /\ spent'.judged[n] + Cardinality(Due(n)') = spent.judged[n] + Cardinality(Due(n))
        /\ Cardinality(Due(n)) \in Nat
    BY <2>1, <2>3, <2>5, <2>6 DEF Differ
  <2>8. CASE Provided(n)
    BY <2>2, <2>3, <2>4, <2>7, <2>8
  <2>9. CASE ~Provided(n)
    BY <2>2, <2>3, <2>7, <2>9
  <2> QED
    BY <2>8, <2>9
<1>7. CallersAreAlone'
  <2>1. mishaps' = 0 /\ WorksAlone(c) => mishaps = 0 /\ WorksAlone(c)'
    BY SMTT(30), <1>1, CallsAssumption DEF Becomes, CallersAreSound, CallerIsSound, CallsTypeOK, WorksAlone, Judging, Resting, Guarded
  <2> QED
    BY <1>1, <1>2, <2>1, AloneKept DEF CallersAreSound, CallsTypeOK
<1> QED
  BY <1>3, <1>4, <1>5, <1>6, <1>7

LEMMA RecheckInv ==
  ASSUME CallsInv, NEW c \in Callers, Recheck(c)
  PROVE  CallsInv'
<1> USE DEF CallsInv
<1>1. \E outcome \in Outcomes :
      /\ Becomes(c, [caller[c] EXCEPT !.pc = "store", !.outcome = outcome])
      /\ caller[c].pc = "recheck"
      /\ UNCHANGED <<evidence, approval, results, answers, paying, spent, requests, mishaps>>
  BY CallerLearns DEF Recheck, CallPcs, documentVars, CallersAreSound, CallerIsSound, Outcomes
<1>2. Moves(c) /\ ResultsStay /\ ApprovalsStay
  BY <1>1, CallsAssumption DEF Becomes, Moves, ResultsStay, ApprovalsStay, CallersAreSound, CallerIsSound, CallsTypeOK
<1>3. CallersAreSound'
  <2>1. CallsTypeOK'
    BY <1>1, CallsAssumption DEF Becomes, CallersAreSound, CallerIsSound, CallsTypeOK, Outcomes, ApprovalStates
  <2>2. CallerIsSound(c)'
    BY <1>1, CallsAssumption DEF Becomes, CallersAreSound, CallerIsSound, CallsTypeOK, CallStates, Resting, Guarded
  <2> QED
    BY <1>1, <1>2, <2>1, <2>2, SoundKept DEF Becomes, CallersAreSound
<1>4. ApprovalsAreCounted'
  BY <1>1, <1>2, ApprovalsKept DEF Becomes, Claiming, Resting
<1>5. ExplanationsAreCounted'
  BY <1>1, <1>2, ExplanationsKept DEF Becomes, Explaining, Resting
<1>6. JudgedIsBounded'
  <2>1. ASSUME NEW n \in Plans PROVE (c \in Due(n)' => c \in Due(n)) /\ (Provided(n) => Provided(n)')
    BY <1>1, CallsAssumption DEF Becomes, CallersAreSound, CallerIsSound, CallsTypeOK, Due, Provided, Judging, Resting
  <2> QED
    BY <1>1, <1>2, <2>1, JudgedKept
<1>7. CallersAreAlone'
  <2>1. mishaps' = 0 /\ WorksAlone(c) => mishaps = 0 /\ WorksAlone(c)'
    BY <1>1, CallsAssumption DEF Becomes, CallersAreSound, CallerIsSound, CallsTypeOK, WorksAlone, Judging, Resting, Guarded
  <2> QED
    BY <1>1, <1>2, <2>1, AloneKept DEF CallersAreSound, CallsTypeOK
<1> QED
  BY <1>3, <1>4, <1>5, <1>6, <1>7

LEMMA StoreResultOnInv ==
  ASSUME CallsInv, NEW c \in Callers, Is(c, "store", {"scheduled"}), Steps(c, "record"),
         results' = [results EXCEPT ![caller[c].plan] = @ \cup {caller[c].outcome}],
         UNCHANGED <<evidence, approval, answers, paying, spent, requests, mishaps>>
  PROVE  CallsInv'
<1> USE DEF CallsInv
<1>1. /\ Becomes(c, [caller[c] EXCEPT !.pc = "record"])
      /\ caller[c].pc = "store" /\ caller[c].kind = "scheduled"
      /\ results' = [results EXCEPT ![caller[c].plan] = @ \cup {caller[c].outcome}]
      /\ UNCHANGED <<evidence, approval, answers, paying, spent, requests, mishaps>>
  BY CallerSteps DEF Is, CallPcs
<1>2. Moves(c) /\ ResultsStay /\ ApprovalsStay
  BY <1>1, CallsAssumption DEF Becomes, Moves, ResultsStay, ApprovalsStay, CallersAreSound, CallerIsSound, CallsTypeOK
<1>3. CallersAreSound'
  <2>1. CallsTypeOK'
    BY <1>1, CallsAssumption DEF Becomes, CallersAreSound, CallerIsSound, CallsTypeOK, Outcomes, ApprovalStates
  <2>2. CallerIsSound(c)'
    <3>1. caller[c].plan \in Plans
      BY <1>1 DEF CallersAreSound, CallerIsSound
    <3>2. results'[caller[c].plan] # {}
      BY <1>1, <3>1 DEF CallersAreSound, CallsTypeOK
    <3> QED
      BY <1>1, <3>1, <3>2 DEF Becomes, CallersAreSound, CallerIsSound, CallsTypeOK, CallStates, Guarded
  <2> QED
    BY <1>1, <1>2, <2>1, <2>2, SoundKept DEF Becomes, CallersAreSound
<1>4. ApprovalsAreCounted'
  BY <1>1, <1>2, ApprovalsKept DEF Becomes, Claiming, Resting
<1>5. ExplanationsAreCounted'
  BY <1>1, <1>2, ExplanationsKept DEF Becomes, Explaining, Resting
<1>6. JudgedIsBounded'
  <2>1. ASSUME NEW n \in Plans PROVE (c \in Due(n)' => c \in Due(n)) /\ (Provided(n) => Provided(n)')
    <3>1. c \in Due(n)' => c \in Due(n)
      BY <1>1 DEF Becomes, CallersAreSound, CallsTypeOK, Due, Judging, Resting
    <3>2. CASE n = caller[c].plan
      <4>1. results'[n] # {}
        BY <1>1, <3>2 DEF CallersAreSound, CallsTypeOK
      <4> QED
        BY <3>1, <4>1 DEF Provided
    <3>3. CASE n # caller[c].plan
      <4>1. results'[n] = results[n]
        BY <1>1, <3>3 DEF CallersAreSound, CallsTypeOK
      <4>2. ASSUME NEW k \in Callers, paying = k, Judging(k, n) PROVE k # c
        BY <3>3, <4>2 DEF Judging
      <4> QED
        BY <1>2, <3>1, <4>1, <4>2 DEF Moves, Provided, Judging
    <3> QED
      BY <3>2, <3>3
  <2> QED
    BY <1>1, <1>2, <2>1, JudgedKept
<1>7. CallersAreAlone'
  <2> SUFFICES ASSUME mishaps' = 0
               PROVE  /\ \A k \in Callers : WorksAlone(k)'
                      /\ \A n \in Plans : \A x, y \in results'[n] : x = y
    BY DEF CallersAreAlone
  <2>1. /\ mishaps = 0 /\ \A k \in Callers : WorksAlone(k)
        /\ \A n \in Plans : \A x, y \in results[n] : x = y
    BY <1>1 DEF CallersAreAlone, CallersAreSound, CallsTypeOK
  <2>2. caller[c].plan \in Plans /\ paying = c /\ results[caller[c].plan] = {}
    BY <1>1, <2>1 DEF CallersAreSound, CallerIsSound, CallsTypeOK, WorksAlone, Judging, Guarded
  <2>3. ASSUME NEW k \in Callers PROVE WorksAlone(k)'
    BY <1>1, <1>2, <2>1, <2>2 DEF Becomes, CallersAreSound, CallerIsSound, CallsTypeOK, Moves, WorksAlone, Judging, Resting, Guarded
  <2>4. ASSUME NEW n \in Plans, NEW x \in results'[n], NEW y \in results'[n] PROVE x = y
    <3>1. CASE n = caller[c].plan
      BY <1>1, <2>2, <2>4, <3>1 DEF CallersAreSound, CallsTypeOK
    <3>2. CASE n # caller[c].plan
      BY <1>1, <2>1, <2>4, <3>2 DEF CallersAreSound, CallsTypeOK
    <3> QED
      BY <3>1, <3>2
  <2> QED
    BY <2>3, <2>4
<1> QED
  BY <1>3, <1>4, <1>5, <1>6, <1>7

LEMMA StoreResultEndsInv ==
  ASSUME CallsInv, NEW c \in Callers, Is(c, "store", {"direct", "scheduled"}), Leaves(c),
         results' = [results EXCEPT ![caller[c].plan] = @ \cup {caller[c].outcome}],
         UNCHANGED <<evidence, approval, answers, spent, requests, mishaps>>
  PROVE  CallsInv'
<1> USE DEF CallsInv
<1>1. /\ Becomes(c, Resting) /\ paying' = (IF paying = c THEN Nobody ELSE paying)
      /\ caller[c].pc = "store" /\ caller[c].kind \in {"direct", "scheduled"}
      /\ results' = [results EXCEPT ![caller[c].plan] = @ \cup {caller[c].outcome}]
      /\ UNCHANGED <<evidence, approval, answers, spent, requests, mishaps>>
  BY CallerRests DEF Is, Leaves
<1>2. Moves(c) /\ ResultsStay /\ ApprovalsStay
  BY <1>1, CallsAssumption DEF Becomes, Moves, ResultsStay, ApprovalsStay, CallersAreSound, CallerIsSound, CallsTypeOK
<1>3. CallersAreSound'
  <2>1. CallsTypeOK'
    BY <1>1, CallsAssumption DEF Becomes, CallersAreSound, CallerIsSound, CallsTypeOK, Outcomes, ApprovalStates
  <2>2. CallerIsSound(c)'
    BY <1>1, CallsAssumption DEF Becomes, CallersAreSound, CallerIsSound, CallsTypeOK, CallStates, Resting, Guarded
  <2> QED
    BY <1>1, <1>2, <2>1, <2>2, SoundKept DEF Becomes, CallersAreSound
<1>4. ApprovalsAreCounted'
  BY <1>1, <1>2, ApprovalsKept DEF Becomes, Claiming, Resting
<1>5. ExplanationsAreCounted'
  BY <1>1, <1>2, ExplanationsKept DEF Becomes, Explaining, Resting
<1>6. JudgedIsBounded'
  <2>1. ASSUME NEW n \in Plans PROVE (c \in Due(n)' => c \in Due(n)) /\ (Provided(n) => Provided(n)')
    <3>1. c \in Due(n)' => c \in Due(n)
      BY <1>1 DEF Becomes, CallersAreSound, CallsTypeOK, Due, Judging, Resting
    <3>2. CASE n = caller[c].plan
      <4>1. results'[n] # {}
        BY <1>1, <3>2 DEF CallersAreSound, CallsTypeOK
      <4> QED
        BY <3>1, <4>1 DEF Provided
    <3>3. CASE n # caller[c].plan
      <4>1. results'[n] = results[n]
        BY <1>1, <3>3 DEF CallersAreSound, CallsTypeOK
      <4>2. ASSUME NEW k \in Callers, paying = k, Judging(k, n) PROVE k # c
        BY <3>3, <4>2 DEF Judging
      <4> QED
        BY <1>2, <3>1, <4>1, <4>2 DEF Moves, Provided, Judging
    <3> QED
      BY <3>2, <3>3
  <2> QED
    BY <1>1, <1>2, <2>1, JudgedKept
<1>7. CallersAreAlone'
  <2> SUFFICES ASSUME mishaps' = 0
               PROVE  /\ \A k \in Callers : WorksAlone(k)'
                      /\ \A n \in Plans : \A x, y \in results'[n] : x = y
    BY DEF CallersAreAlone
  <2>1. /\ mishaps = 0 /\ \A k \in Callers : WorksAlone(k)
        /\ \A n \in Plans : \A x, y \in results[n] : x = y
    BY <1>1 DEF CallersAreAlone, CallersAreSound, CallsTypeOK
  <2>2. caller[c].plan \in Plans /\ paying = c /\ results[caller[c].plan] = {}
    BY <1>1, <2>1 DEF CallersAreSound, CallerIsSound, CallsTypeOK, WorksAlone, Judging, Guarded
  <2>3. ASSUME NEW k \in Callers PROVE WorksAlone(k)'
    BY <1>1, <1>2, <2>1, <2>2 DEF Becomes, CallersAreSound, CallerIsSound, CallsTypeOK, Moves, WorksAlone, Judging, Resting, Guarded
  <2>4. ASSUME NEW n \in Plans, NEW x \in results'[n], NEW y \in results'[n] PROVE x = y
    <3>1. CASE n = caller[c].plan
      BY <1>1, <2>2, <2>4, <3>1 DEF CallersAreSound, CallsTypeOK
    <3>2. CASE n # caller[c].plan
      BY <1>1, <2>1, <2>4, <3>2 DEF CallersAreSound, CallsTypeOK
    <3> QED
      BY <3>1, <3>2
  <2> QED
    BY <2>3, <2>4
<1> QED
  BY <1>3, <1>4, <1>5, <1>6, <1>7

LEMMA RecordApprovalInv ==
  ASSUME CallsInv, NEW c \in Callers, RecordApproval(c)
  PROVE  CallsInv'
<1> USE DEF CallsInv
<1>1. /\ Becomes(c, Resting) /\ paying' = (IF paying = c THEN Nobody ELSE paying)
      /\ caller[c].pc = "record" /\ caller[c].kind = "scheduled"
      /\ approval' = [approval EXCEPT ![caller[c].approval].state = "recorded"]
      /\ UNCHANGED <<evidence, results, answers, spent, requests, mishaps>>
  BY CallerRests DEF RecordApproval, Is, Leaves
<1>2. Moves(c) /\ ResultsStay /\ ApprovalsStay
  BY <1>1, CallsAssumption DEF Becomes, Moves, ResultsStay, ApprovalsStay, CallersAreSound, CallerIsSound, CallsTypeOK
<1>3. CallersAreSound'
  <2>1. CallsTypeOK'
    BY <1>1, CallsAssumption DEF Becomes, CallersAreSound, CallerIsSound, CallsTypeOK, Outcomes, ApprovalStates
  <2>2. CallerIsSound(c)'
    BY <1>1, CallsAssumption DEF Becomes, CallersAreSound, CallerIsSound, CallsTypeOK, CallStates, Resting, Guarded
  <2> QED
    BY <1>1, <1>2, <2>1, <2>2, SoundKept DEF Becomes, CallersAreSound
<1>4. ApprovalsAreCounted'
  <2> SUFFICES ASSUME NEW a \in Approvals
               PROVE  /\ spent'.approved[a] + Cardinality(Claiming(a)') <=
                           (IF approval'[a].state \in {"spent", "recorded"} THEN 1 ELSE 0)
                      /\ approval'[a].state # "none" => approval'[a].plan \in Plans
                      /\ approval'[a].state = "recorded" => results'[approval'[a].plan] # {}
    BY DEF ApprovalsAreCounted
  <2>1. Differ(Claiming(a), Claiming(a)', c)
    BY <1>2, CallerMoves DEF Moves
  <2> QED
    BY <1>1, <2>1, CallsAssumption DEF Becomes, Differ, ApprovalsAreCounted, CallersAreSound, CallerIsSound, CallsTypeOK, Claiming, Resting
<1>5. ExplanationsAreCounted'
  BY <1>1, <1>2, ExplanationsKept DEF Becomes, Explaining, Resting
<1>6. JudgedIsBounded'
  <2>1. ASSUME NEW n \in Plans PROVE (c \in Due(n)' => c \in Due(n)) /\ (Provided(n) => Provided(n)')
    BY <1>1, CallsAssumption DEF Becomes, CallersAreSound, CallerIsSound, CallsTypeOK, Due, Provided, Judging, Resting
  <2> QED
    BY <1>1, <1>2, <2>1, JudgedKept
<1>7. CallersAreAlone'
  <2>1. mishaps' = 0 /\ WorksAlone(c) => mishaps = 0 /\ WorksAlone(c)'
    BY <1>1, CallsAssumption DEF Becomes, CallersAreSound, CallerIsSound, CallsTypeOK, WorksAlone, Judging, Resting, Guarded
  <2> QED
    BY <1>1, <1>2, <2>1, AloneKept DEF CallersAreSound, CallsTypeOK
<1> QED
  BY <1>3, <1>4, <1>5, <1>6, <1>7

LEMMA StoreAnswerInv ==
  ASSUME CallsInv, NEW c \in Callers, StoreAnswer(c)
  PROVE  CallsInv'
<1> USE DEF CallsInv
<1>1. /\ Becomes(c, Resting) /\ paying' = (IF paying = c THEN Nobody ELSE paying)
      /\ caller[c].pc = "store" /\ caller[c].kind = "explained"
      /\ answers' = [answers EXCEPT ![caller[c].plan] = caller[c].outcome]
      /\ UNCHANGED <<evidence, approval, results, spent, requests, mishaps>>
  BY CallerRests DEF StoreAnswer, Is, Leaves
<1>2. Moves(c) /\ ResultsStay /\ ApprovalsStay
  BY <1>1, CallsAssumption DEF Becomes, Moves, ResultsStay, ApprovalsStay, CallersAreSound, CallerIsSound, CallsTypeOK
<1>3. CallersAreSound'
  <2>1. CallsTypeOK'
    BY <1>1, CallsAssumption DEF Becomes, CallersAreSound, CallerIsSound, CallsTypeOK, Outcomes, ApprovalStates
  <2>2. CallerIsSound(c)'
    BY <1>1, CallsAssumption DEF Becomes, CallersAreSound, CallerIsSound, CallsTypeOK, CallStates, Resting, Guarded
  <2> QED
    BY <1>1, <1>2, <2>1, <2>2, SoundKept DEF Becomes, CallersAreSound
<1>4. ApprovalsAreCounted'
  BY <1>1, <1>2, ApprovalsKept DEF Becomes, Claiming, Resting
<1>5. ExplanationsAreCounted'
  <2> SUFFICES ASSUME NEW n \in Plans
               PROVE  spent'.explained[n] + Cardinality(Explaining(n)') <=
                        (IF answers'[n] = "none" THEN 0 ELSE 1)
    BY DEF ExplanationsAreCounted
  <2>1. Differ(Explaining(n), Explaining(n)', c)
    BY <1>2, CallerMoves DEF Moves
  <2> QED
    BY <1>1, <2>1 DEF Becomes, Differ, ExplanationsAreCounted, CallersAreSound, CallerIsSound, CallsTypeOK, Explaining, Resting, Outcomes
<1>6. JudgedIsBounded'
  <2>1. ASSUME NEW n \in Plans PROVE (c \in Due(n)' => c \in Due(n)) /\ (Provided(n) => Provided(n)')
    BY <1>1, CallsAssumption DEF Becomes, CallersAreSound, CallerIsSound, CallsTypeOK, Due, Provided, Judging, Resting
  <2> QED
    BY <1>1, <1>2, <2>1, JudgedKept
<1>7. CallersAreAlone'
  <2>1. mishaps' = 0 /\ WorksAlone(c) => mishaps = 0 /\ WorksAlone(c)'
    BY <1>1, CallsAssumption DEF Becomes, CallersAreSound, CallerIsSound, CallsTypeOK, WorksAlone, Judging, Resting, Guarded
  <2> QED
    BY <1>1, <1>2, <2>1, AloneKept DEF CallersAreSound, CallsTypeOK
<1> QED
  BY <1>3, <1>4, <1>5, <1>6, <1>7

LEMMA GuardIsLostInv ==
  ASSUME CallsInv, NEW c \in Callers, paying = c, GuardIsLost
  PROVE  CallsInv'
<1> USE DEF CallsInv
<1>1. /\ Becomes(c, caller[c]) /\ paying = c /\ paying' = Nobody
      /\ mishaps < MaxMishaps /\ mishaps' = mishaps + 1
      /\ UNCHANGED <<evidence, approval, results, answers, caller, spent, requests>>
  BY CallerBecomes DEF GuardIsLost, documentVars, CallersAreSound
<1>2. Moves(c) /\ ResultsStay /\ ApprovalsStay
  BY <1>1, CallsAssumption DEF Becomes, Moves, ResultsStay, ApprovalsStay, CallersAreSound, CallerIsSound, CallsTypeOK
<1>3. CallersAreSound'
  <2>1. CallsTypeOK'
    BY <1>1, CallsAssumption DEF Becomes, CallersAreSound, CallerIsSound, CallsTypeOK, Outcomes, ApprovalStates
  <2>2. CallerIsSound(c)'
    BY <1>1, CallsAssumption DEF Becomes, CallersAreSound, CallerIsSound, CallsTypeOK, CallStates, Resting, Guarded
  <2> QED
    BY <1>1, <1>2, <2>1, <2>2, SoundKept DEF Becomes, CallersAreSound
<1>4. ApprovalsAreCounted'
  BY <1>1, <1>2, ApprovalsKept DEF Becomes, Claiming, Resting
<1>5. ExplanationsAreCounted'
  BY <1>1, <1>2, ExplanationsKept DEF Becomes, Explaining, Resting
<1>6. JudgedIsBounded'
  <2> SUFFICES ASSUME NEW n \in Plans
               PROVE  spent'.judged[n] + Cardinality(Due(n)') <= mishaps' + (IF Provided(n)' THEN 1 ELSE 0)
    BY DEF JudgedIsBounded
  <2>1. Differ(Due(n), Due(n)', c)
    BY <1>2, CallerMoves DEF Moves
  <2>2. spent.judged[n] + Cardinality(Due(n)) <= mishaps + (IF Provided(n) THEN 1 ELSE 0)
    BY DEF JudgedIsBounded
  <2> QED
    BY <1>1, <2>1, <2>2, CallsAssumption
    DEF Becomes, Differ, CallersAreSound, CallerIsSound, CallsTypeOK, Due, Provided, Judging, Resting
<1>7. CallersAreAlone'
  <2>1. mishaps' = 0 /\ WorksAlone(c) => mishaps = 0 /\ WorksAlone(c)'
    BY <1>1, CallsAssumption DEF Becomes, CallersAreSound, CallerIsSound, CallsTypeOK, WorksAlone, Judging, Resting, Guarded
  <2> QED
    BY <1>1, <1>2, <2>1, AloneKept DEF CallersAreSound, CallsTypeOK
<1> QED
  BY <1>3, <1>4, <1>5, <1>6, <1>7

---------------------------------------------------------------------------
\* The steps that no caller takes.

LEMMA WithoutCallersInv ==
  ASSUME CallsInv, CallsTypeOK', ApprovalsStay,
         \A a \in Approvals : /\ approval'[a].state \in {"spent", "recorded"} <=>
                                   approval[a].state \in {"spent", "recorded"}
                              /\ approval'[a].state # "none" => approval'[a].plan \in Plans
                              /\ approval'[a].state = "recorded" =>
                                   approval[a].state = "recorded" /\ approval'[a].plan = approval[a].plan,
         UNCHANGED <<results, answers, caller, paying, spent, mishaps>>
  PROVE  CallsInv'
<1> USE DEF CallsInv
<1>1. CallersAreSound'
  <2>1. ASSUME NEW c \in Callers PROVE CallerIsSound(c)'
    BY DEF CallersAreSound, CallerIsSound, ApprovalsStay
  <2> QED
    BY <2>1 DEF CallersAreSound
<1>2. ApprovalsAreCounted'
  <2>1. ASSUME NEW a \in Approvals PROVE Claiming(a)' = Claiming(a)
    BY DEF Claiming
  <2> QED
    BY <2>1 DEF ApprovalsAreCounted
<1>3. ExplanationsAreCounted' /\ JudgedIsBounded' /\ CallersAreAlone'
  BY DEF ExplanationsAreCounted, Explaining, JudgedIsBounded, Due, Provided, Judging, CallersAreAlone, WorksAlone
<1> QED
  BY <1>1, <1>2, <1>3

LEMMA EvidenceChangesInv == ASSUME CallsInv, EvidenceChanges PROVE CallsInv'
<1>1. CallsTypeOK'
  BY CallsAssumption DEF EvidenceChanges, documentVars, CallsInv, CallersAreSound, CallsTypeOK, Plans
<1> QED
  BY <1>1, WithoutCallersInv
  DEF EvidenceChanges, documentVars, ApprovalsStay, CallsInv, ApprovalsAreCounted

LEMMA ApproveInv == ASSUME CallsInv, NEW a \in Approvals, Approve(a) PROVE CallsInv'
<1>1. CallsTypeOK'
  BY DEF Approve, CallsInv, CallersAreSound, CallsTypeOK, ApprovalStates
<1> QED
  BY <1>1, WithoutCallersInv
  DEF Approve, ApprovalsStay, CallsInv, ApprovalsAreCounted, CallersAreSound, CallsTypeOK

LEMMA CancelApprovalInv == ASSUME CallsInv, NEW a \in Approvals, CancelApproval(a) PROVE CallsInv'
<1>1. CallsTypeOK'
  BY DEF CancelApproval, Take, CallsInv, CallersAreSound, CallsTypeOK, ApprovalStates
<1>2. approval[a].state = "pending" /\ approval' = [approval EXCEPT ![a].state = "cancelled"]
  BY DEF CancelApproval, Take
<1>3. ASSUME NEW b \in Approvals
      PROVE  /\ approval'[b].plan = approval[b].plan
             /\ approval'[b].state = IF b = a THEN "cancelled" ELSE approval[b].state
  BY <1>2 DEF CallsInv, CallersAreSound, CallsTypeOK
<1>4. ApprovalsStay
  BY <1>2, <1>3 DEF ApprovalsStay
<1>5. UNCHANGED <<results, answers, caller, paying, spent, mishaps>>
  BY DEF CancelApproval
<1> QED
  BY <1>1, <1>2, <1>3, <1>4, <1>5, WithoutCallersInv DEF CallsInv, ApprovalsAreCounted

---------------------------------------------------------------------------
\* The steps of a caller, by their disjuncts.

LEMMA PickInv == ASSUME CallsInv, NEW c \in Callers, NEW a \in Approvals, Pick(c, a) PROVE CallsInv'
<1> DEFINE h == [Resting EXCEPT !.pc = "preflight", !.kind = "scheduled",
                                !.plan = approval[a].plan, !.approval = a]
<1>1. approval[a].state = "pending" /\ approval[a].plan \in Plans
  BY DEF Pick, CallsInv, ApprovalsAreCounted
<1>2. /\ h \in CallStates /\ h.pc = "preflight" /\ h.kind = "scheduled"
      /\ h.plan = approval[a].plan /\ h.approval = a
  BY <1>1 DEF Resting, CallStates, CallPcs, Outcomes
<1>3. requests' \in 0..MaxRequests
  BY DEF Pick, CallsInv, CallersAreSound, CallsTypeOK
<1>4. /\ caller[c].pc = "rest" /\ caller' = [caller EXCEPT ![c] = h]
      /\ UNCHANGED <<evidence, documentVars, paying, spent, mishaps>>
  BY DEF Pick
<1> HIDE DEF h
<1> QED
  BY <1>1, <1>2, <1>3, <1>4, BeginsInv

LEMMA RequestInv == ASSUME CallsInv, NEW c \in Callers, Request(c) PROVE CallsInv'
<1>1. PICK kind \in {"direct", "explained"}, n \in 1..evidence :
        caller' = [caller EXCEPT ![c] = [Resting EXCEPT !.pc = "enter", !.kind = kind, !.plan = n]]
  BY DEF Request
<1> DEFINE h == [Resting EXCEPT !.pc = "enter", !.kind = kind, !.plan = n]
<1>2. n \in Plans
  BY CallsAssumption DEF CallsInv, CallersAreSound, CallsTypeOK, Plans
<1>3. h \in CallStates /\ h.pc = "enter" /\ h.kind = kind /\ h.plan = n
  BY <1>2 DEF Resting, CallStates, CallPcs, Outcomes
<1>4. requests' \in 0..MaxRequests
  BY CallsAssumption DEF Request, CallsInv, CallersAreSound, CallsTypeOK
<1>5. /\ caller[c].pc = "rest" /\ caller' = [caller EXCEPT ![c] = h]
      /\ UNCHANGED <<evidence, documentVars, paying, spent, mishaps>>
  BY <1>1 DEF Request
<1> HIDE DEF h
<1> QED
  BY <1>2, <1>3, <1>4, <1>5, BeginsInv

\* Leaving where nothing was asked yet.
LEMMA LeavesEarlyInv ==
  ASSUME CallsInv, NEW c \in Callers, Leaves(c),
         caller[c].pc \in {"preflight", "check", "reserve", "look"},
         UNCHANGED <<evidence, documentVars, spent, requests, mishaps>>
  PROVE  CallsInv'
BY CallLeavesInv DEF CallsInv, CallersAreSound, CallsTypeOK

LEMMA CancelsInv ==
  ASSUME CallsInv, NEW c \in Callers, CancelsItself(c),
         \E pc \in {"preflight", "check"} : Is(c, pc, {"scheduled"})
  PROVE  CallsInv'
<1>1. CASE approval[caller[c].approval].state = "pending"
  BY <1>1, CancelsItselfInv
<1>2. CASE approval[caller[c].approval].state # "pending"
  BY <1>2, LeavesEarlyInv DEF CancelsItself, Take, Is, documentVars
<1> QED
  BY <1>1, <1>2

LEMMA ProceedsInv == ASSUME CallsInv, NEW c \in Callers, Proceeds(c) PROVE CallsInv'
<1>1. CASE Preflight(c)
  BY <1>1, CancelsInv, LeavesEarlyInv, CallStepsInv DEF Preflight, WaitsForKey, Is, CallPcs
<1>2. CASE CheckApproval(c)
  BY <1>2, CancelsInv, LeavesEarlyInv, CallStepsInv DEF CheckApproval, WaitsForKey, Is, CallPcs
<1>3. CASE ReserveApproval(c)
  BY <1>3, ReserveApprovalInv, LeavesEarlyInv DEF ReserveApproval, Take, Is, documentVars
<1>4. CASE CheckRequest(c)
  BY <1>4, LeavesEarlyInv, CallStepsInv DEF CheckRequest, Is, CallPcs
<1>5. CASE ReserveAnswer(c)
  BY <1>5, ReserveAnswerInv, LeavesEarlyInv DEF ReserveAnswer, Is, documentVars
<1>6. CASE Look(c)
  BY <1>6, LookFindsInv, LookMissesInv, LeavesEarlyInv DEF Look, Is, Outcomes
<1>7. CASE StoreResult(c)
  BY <1>7, StoreResultOnInv, StoreResultEndsInv DEF StoreResult, Is
<1>8. CASE Stops(c)
  BY <1>8, CallLeavesInv, CallsAssumption DEF Stops, CallsInv, CallersAreSound, CallsTypeOK
<1> QED
  BY <1>1, <1>2, <1>3, <1>4, <1>5, <1>6, <1>7, <1>8, EnterInv, CallInv, RecheckInv,
     RecordApprovalInv, StoreAnswerInv
  DEF Proceeds

---------------------------------------------------------------------------
LEMMA CallsInitInv == CallsInit => CallsInv
<1> SUFFICES ASSUME CallsInit PROVE CallsInv
  OBVIOUS
<1>1. CallsTypeOK
  BY CallsAssumption DEF CallsInit, CallsTypeOK, Plans, ApprovalStates, Outcomes
<1>2. ASSUME NEW c \in Callers
      PROVE  caller[c] = Resting /\ paying # c
  BY CallsAssumption DEF CallsInit
<1>3. CallersAreSound
  <2>1. Resting \in CallStates
    BY DEF Resting, CallStates, CallPcs, Outcomes
  <2>2. ASSUME NEW c \in Callers PROVE CallerIsSound(c)
    BY <1>2 DEF CallerIsSound, Resting
  <2> QED
    BY <1>1, <2>1, <2>2 DEF CallersAreSound, CallsInit
<1>4. ASSUME NEW x
      PROVE  Cardinality(Claiming(x)) = 0 /\ Cardinality(Explaining(x)) = 0 /\ Cardinality(Due(x)) = 0
  <2>1. Claiming(x) = {} /\ Explaining(x) = {} /\ Due(x) = {}
    BY <1>2 DEF Claiming, Explaining, Due, Judging, Resting
  <2> QED
    BY <2>1, FS_EmptySet
<1>5. ApprovalsAreCounted
  BY <1>4 DEF ApprovalsAreCounted, CallsInit
<1>6. ExplanationsAreCounted
  BY <1>4 DEF ExplanationsAreCounted, CallsInit
<1>7. JudgedIsBounded
  BY <1>4 DEF JudgedIsBounded, CallsInit
<1>8. CallersAreAlone
  BY <1>2 DEF CallersAreAlone, WorksAlone, Guarded, Judging, Resting, CallsInit
<1> QED
  BY <1>3, <1>5, <1>6, <1>7, <1>8 DEF CallsInv

LEMMA CallsStepInv == CallsInv /\ [CallsNext]_callVars => CallsInv'
<1> SUFFICES ASSUME CallsInv, [CallsNext]_callVars PROVE CallsInv'
  OBVIOUS
<1>1. CASE UNCHANGED callVars
  <2>1. CallsTypeOK'
    BY <1>1 DEF callVars, documentVars, CallsInv, CallersAreSound, CallsTypeOK
  <2> QED
    BY <1>1, <2>1, WithoutCallersInv
    DEF callVars, documentVars, ApprovalsStay, CallsInv, ApprovalsAreCounted
<1>2. CASE GuardIsLost
  <2>1. PICK c \in Callers : paying = c
    BY <1>2 DEF GuardIsLost, CallsInv, CallersAreSound, CallsTypeOK
  <2> QED
    BY <1>2, <2>1, GuardIsLostInv
<1>3. ASSUME NEW a \in Approvals, Approve(a) \/ CancelApproval(a) \/ \E c \in Callers : Pick(c, a)
      PROVE  CallsInv'
  BY <1>3, ApproveInv, CancelApprovalInv, PickInv
<1>4. ASSUME NEW c \in Callers, Request(c) \/ Proceeds(c) PROVE CallsInv'
  BY <1>4, RequestInv, ProceedsInv
<1> QED
  BY <1>1, <1>2, <1>3, <1>4, EvidenceChangesInv DEF CallsNext

\* The counts of calls, those to come included, keep to approvals, answers, results
\* and mishaps (CallsInv).
THEOREM CallsInvariant == CallsSpec => []CallsInv
BY CallsInitInv, CallsStepInv, PTL DEF CallsSpec

LEMMA InvApprovalsAreHonoured == CallsInv => ApprovalsAreHonoured
<1> SUFFICES ASSUME CallsInv, NEW a \in Approvals
             PROVE  /\ spent.approved[a] <= 1
                    /\ spent.approved[a] > 0 => approval[a].state \in {"spent", "recorded"}
                    /\ approval[a].state = "recorded" => results[approval[a].plan] # {}
  BY DEF ApprovalsAreHonoured
<1>1. Cardinality(Claiming(a)) \in Nat
  BY CallsAssumption, FS_Subset, FS_CardinalityType DEF Claiming
<1> QED
  BY <1>1 DEF CallsInv, CallersAreSound, ApprovalsAreCounted

LEMMA InvCallsAreNotRepeated == CallsInv => CallsAreNotRepeated
<1> SUFFICES ASSUME CallsInv, NEW n \in Plans
             PROVE  /\ spent.explained[n] <= 1
                    /\ spent.judged[n] <= 1 + mishaps
                    /\ mishaps = 0 => Cardinality(results[n]) <= 1
  BY DEF CallsAreNotRepeated
<1>1. Cardinality(Explaining(n)) \in Nat /\ Cardinality(Due(n)) \in Nat
  BY CallsAssumption, FS_Subset, FS_CardinalityType DEF Explaining, Due
<1>2. spent.explained[n] <= 1
  BY <1>1 DEF CallsInv, CallersAreSound, ExplanationsAreCounted
<1>3. spent.judged[n] <= 1 + mishaps
  <2>1. spent.judged[n] + Cardinality(Due(n)) <= mishaps + 1
    BY <1>1 DEF CallsInv, CallersAreSound, CallsTypeOK, JudgedIsBounded
  <2> QED
    BY <1>1, <2>1 DEF CallsInv, CallersAreSound, CallsTypeOK
<1>4. ASSUME mishaps = 0 PROVE Cardinality(results[n]) <= 1
  <2>1. \A x, y \in results[n] : x = y
    BY <1>4 DEF CallsInv, CallersAreAlone
  <2>2. CASE results[n] = {}
    BY <2>2, FS_EmptySet
  <2>3. ASSUME NEW x \in results[n] PROVE Cardinality(results[n]) <= 1
    <3>1. results[n] = {x}
      BY <2>1, <2>3
    <3>2. Cardinality({x}) = 1
      BY FS_Singleton
    <3> QED
      BY <3>1, <3>2
  <2> QED
    BY <2>2, <2>3
<1> QED
  BY <1>2, <1>3, <1>4

\* run_scheduled_once and execute_scoped pay for what was approved, once: an approval
\* for one call at most and none when cancelled, an explanation at most once, a
\* judgment again only after a caller stopped or a guard was lost.
THEOREM CallsArePaidAsApproved == CallsSpec => []PaidAsApproved
BY CallsInvariant, InvApprovalsAreHonoured, InvCallsAreNotRepeated, PTL DEF PaidAsApproved

\* The documents and the callers keep their types.
THEOREM CallsTypes == CallsSpec => []CallsTypeOK
BY CallsInvariant, PTL DEF CallsInv, CallersAreSound


---------------------------------------------------------------------------
\* The deterministic analysis.

AnalysisSpec == AnalysisInit /\ [][AnalysisNext]_analysisVars

BuilderStates ==
  [pc : {"idle", "built", "save", "verify"}, input : Inputs \cup {Failure, NoAnalysis}, revision : Nat]

\* A computation at work has the input of the revision it will claim, or it failed and
\* claims none.
BuilderIsSound(b) ==
  builder[b].pc # "idle" =>
    \/ builder[b].input = Failure /\ builder[b].revision = Unrevised
    \/ /\ builder[b].input \in Inputs /\ builder[b].revision \in 1..Now
       /\ inputs[builder[b].revision] = builder[b].input

\* An analysis was verified for revisions only whose input is its own.
VerifiedIsSound == \A i \in Inputs : verified[i] > 0 => inputs[verified[i]] = i

AnalysisInv ==
  /\ inputs \in Seq(Inputs) /\ Now > 0
  /\ verified \in [Inputs \cup {Failure} -> -1..Now]
  /\ current \in Inputs \cup {Failure, NoAnalysis}
  /\ current # NoAnalysis => verified[current] >= 0
  /\ builder \in [Builders -> BuilderStates]
  /\ \A b \in Builders : builder[b].revision <= Now /\ BuilderIsSound(b)
  /\ VerifiedIsSound

\* Evidence that is written makes a revision of its own and leaves the others alone.
LEMMA EvidenceWrittenInv == ASSUME AnalysisInv, EvidenceWritten PROVE AnalysisInv'
<1> USE DEF AnalysisInv, Now
<1>1. PICK i \in Inputs : inputs' = Append(inputs, i)
  BY DEF EvidenceWritten
<1>2. /\ inputs' \in Seq(Inputs) /\ Len(inputs') = Len(inputs) + 1 /\ Len(inputs) \in Nat
      /\ \A r \in 1..Len(inputs) : inputs'[r] = inputs[r]
  BY <1>1, AppendProperties
<1>3. UNCHANGED <<verified, current, builder>>
  BY DEF EvidenceWritten
<1>4. verified' \in [Inputs \cup {Failure} -> -1..Len(inputs')]
  BY <1>2, <1>3
<1>5. ASSUME NEW b \in Builders PROVE builder'[b].revision <= Now' /\ BuilderIsSound(b)'
  <2>1. builder[b] \in BuilderStates /\ builder[b].revision <= Len(inputs) /\ BuilderIsSound(b)
    OBVIOUS
  <2>2. builder'[b].revision <= Now'
    BY <1>2, <1>3, <2>1 DEF BuilderStates
  <2> QED
    BY <1>2, <1>3, <2>1, <2>2 DEF BuilderIsSound
<1>6. ASSUME NEW j \in Inputs, verified'[j] > 0 PROVE inputs'[verified'[j]] = j
  BY SMTT(30), <1>2, <1>3, <1>6 DEF VerifiedIsSound
<1> QED
  BY <1>2, <1>3, <1>4, <1>5, <1>6 DEF VerifiedIsSound

\* The steps of a computation: what it becomes.
LEMMA BuilderMovesInv ==
  ASSUME AnalysisInv, NEW b \in Builders, NEW h \in BuilderStates,
         builder' = [builder EXCEPT ![b] = h], h.revision <= Now,
         h.pc # "idle" => \/ h.input = Failure /\ h.revision = Unrevised
                          \/ /\ h.input \in Inputs /\ h.revision \in 1..Now
                             /\ inputs[h.revision] = h.input,
         UNCHANGED inputs, verified' \in [Inputs \cup {Failure} -> -1..Now],
         current' \in Inputs \cup {Failure, NoAnalysis},
         current' # NoAnalysis => verified'[current'] >= 0, VerifiedIsSound'
  PROVE  AnalysisInv'
<1>1. Now' = Now
  BY DEF Now
<1>2. ASSUME NEW k \in Builders PROVE builder'[k].revision <= Now' /\ BuilderIsSound(k)'
  BY <1>1 DEF AnalysisInv, BuilderIsSound
<1> QED
  BY <1>1, <1>2 DEF AnalysisInv

LEMMA BuilderStepInv ==
  ASSUME AnalysisInv, NEW b \in Builders,
         \/ Builds(b) \/ LooksUp(b) \/ SavesAnalysis(b) \/ VerifiesAnalysis(b) \/ BuilderStops(b)
  PROVE  AnalysisInv'
<1>1. builder[b] \in BuilderStates /\ builder[b].revision <= Now /\ BuilderIsSound(b)
  BY DEF AnalysisInv
<1>2. Len(inputs) \in Nat /\ Now > 0 /\ inputs[Now] \in Inputs
  BY DEF AnalysisInv, Now
<1>3. Waiting \in BuilderStates /\ Waiting.pc = "idle" /\ Waiting.revision = 0
  BY DEF Waiting, BuilderStates, Unrevised
<1>4. ASSUME NEW pc \in {"save", "verify"}, builder[b].pc # "idle",
             builder' = [builder EXCEPT ![b].pc = pc],
             UNCHANGED inputs, verified' \in [Inputs \cup {Failure} -> -1..Now],
             current' \in Inputs \cup {Failure, NoAnalysis},
             current' # NoAnalysis => verified'[current'] >= 0, VerifiedIsSound'
      PROVE  AnalysisInv'
  <2> DEFINE h == [builder[b] EXCEPT !.pc = pc]
  <2>1. /\ h \in BuilderStates /\ h.input = builder[b].input
        /\ h.revision = builder[b].revision
    BY <1>1 DEF BuilderStates
  <2>2. builder' = [builder EXCEPT ![b] = h]
    BY <1>4 DEF AnalysisInv
  <2> HIDE DEF h
  <2> QED
    BY ZenonT(40), <1>1, <1>4, <2>1, <2>2, BuilderMovesInv DEF BuilderIsSound
<1>5. VerifiedIsSound /\ UNCHANGED <<inputs, verified>> => VerifiedIsSound'
  BY DEF VerifiedIsSound
<1>6. CASE Builds(b)
  <2>1. PICK h \in {[pc |-> "built", input |-> inputs[Now], revision |-> Now],
                    [pc |-> "built", input |-> Failure, revision |-> Unrevised]} :
          builder' = [builder EXCEPT ![b] = h]
    BY <1>6 DEF Builds
  <2>2. /\ h \in BuilderStates /\ h.revision <= Now
        /\ \/ h.input = Failure /\ h.revision = Unrevised
           \/ /\ h.input \in Inputs /\ h.revision \in 1..Now
              /\ inputs[h.revision] = h.input
    BY <1>2 DEF BuilderStates, Unrevised, Now
  <2> QED
    BY <1>5, <1>6, <2>1, <2>2, BuilderMovesInv DEF Builds, AnalysisInv
<1>7. CASE LooksUp(b)
  <2>1. PICK pc \in {"save", "verify"} : builder' = [builder EXCEPT ![b].pc = pc]
    BY <1>7 DEF LooksUp
  <2>2. builder[b].pc # "idle" /\ UNCHANGED <<inputs, verified, current>>
    BY <1>7 DEF LooksUp
  <2> QED
    BY <1>4, <1>5, <2>1, <2>2 DEF AnalysisInv
<1>8. CASE SavesAnalysis(b)
  <2>1. builder' = [builder EXCEPT ![b].pc = "verify"]
    BY <1>8 DEF SavesAnalysis
  <2>2. builder[b].pc # "idle" /\ UNCHANGED inputs
    BY <1>8 DEF SavesAnalysis
  <2>3. builder[b].input \in Inputs \cup {Failure}
    BY <1>1, <2>2 DEF BuilderIsSound
  <2>4. CASE verified[builder[b].input] = -1
    <3>1. /\ verified' = [verified EXCEPT ![builder[b].input] = builder[b].revision]
          /\ current' = builder[b].input
      BY <1>8, <2>4 DEF SavesAnalysis
    <3>2. builder[b].revision \in 0..Now
      BY <1>1 DEF BuilderStates, Now, AnalysisInv
    <3>3. verified' \in [Inputs \cup {Failure} -> -1..Now] /\ verified'[current'] >= 0
      BY <1>2, <2>3, <3>1, <3>2 DEF AnalysisInv, Now
    <3>4. VerifiedIsSound'
      BY <1>1, <2>2, <2>3, <3>1, AnalysisAssumption DEF AnalysisInv, VerifiedIsSound, BuilderIsSound, Unrevised
    <3> QED
      BY <1>4, <2>1, <2>2, <2>3, <3>1, <3>3, <3>4
  <2>5. CASE verified[builder[b].input] # -1
    <3>1. UNCHANGED <<verified, current>>
      BY <1>8, <2>5 DEF SavesAnalysis
    <3> QED
      BY <1>4, <1>5, <2>1, <2>2, <3>1 DEF AnalysisInv
  <2> QED
    BY <2>4, <2>5
<1>9. CASE VerifiesAnalysis(b)
  <2> DEFINE i == builder[b].input
             revision == builder[b].revision
  <2>1. /\ builder[b].pc # "idle" /\ UNCHANGED inputs
        /\ verified' = [verified EXCEPT ![i] = IF revision > @ THEN revision ELSE @]
        /\ current' = i /\ builder' = [builder EXCEPT ![b] = Waiting]
    BY <1>9 DEF VerifiesAnalysis
  <2>2. i \in Inputs \cup {Failure} /\ revision \in 0..Now /\ verified[i] \in -1..Now
    BY <1>1, <1>2, <2>1 DEF BuilderIsSound, BuilderStates, AnalysisInv, Now
  <2>3. verified' \in [Inputs \cup {Failure} -> -1..Now] /\ verified'[current'] >= 0
    BY <1>2, <2>1, <2>2 DEF AnalysisInv, Now
  <2>4. VerifiedIsSound'
    BY <1>1, <2>1, <2>2, AnalysisAssumption DEF AnalysisInv, VerifiedIsSound, BuilderIsSound, Unrevised
  <2>5. Waiting.revision <= Now
    BY <1>2, <1>3 DEF Now
  <2>6. UNCHANGED Now /\ current' \in Inputs \cup {Failure, NoAnalysis}
    BY <2>1, <2>2 DEF Now
  <2> QED
    BY <1>3, <2>1, <2>3, <2>4, <2>5, <2>6, BuilderMovesInv
<1>10. CASE BuilderStops(b)
  <2>1. builder' = [builder EXCEPT ![b] = Waiting] /\ UNCHANGED <<inputs, verified, current>>
    BY <1>10 DEF BuilderStops
  <2>2. Waiting.revision <= Now
    BY <1>2, <1>3 DEF Now
  <2> QED
    BY <1>3, <1>5, <2>1, <2>2, BuilderMovesInv DEF AnalysisInv
<1> QED
  BY <1>6, <1>7, <1>8, <1>9, <1>10

LEMMA AnalysisInitInv == AnalysisInit => AnalysisInv
<1> SUFFICES ASSUME AnalysisInit PROVE AnalysisInv
  OBVIOUS
<1>1. PICK i \in Inputs : inputs = <<i>>
  BY DEF AnalysisInit
<1>2. inputs \in Seq(Inputs) /\ Len(inputs) = 1
  BY <1>1
<1>3. Waiting \in BuilderStates /\ Waiting.pc = "idle" /\ Waiting.revision = 0
  BY DEF Waiting, BuilderStates, Unrevised
<1> QED
  BY <1>2, <1>3 DEF AnalysisInit, AnalysisInv, BuilderIsSound, VerifiedIsSound, Now

LEMMA AnalysisStepInv == AnalysisInv /\ [AnalysisNext]_analysisVars => AnalysisInv'
<1>1. ASSUME AnalysisInv, UNCHANGED analysisVars PROVE AnalysisInv'
  BY <1>1 DEF analysisVars, AnalysisInv, BuilderIsSound, VerifiedIsSound, Now
<1> QED
  BY <1>1, EvidenceWrittenInv, BuilderStepInv DEF AnalysisNext

\* Analyses are verified only for revisions of their own input (AnalysisInv).
THEOREM AnalysisInvariant == AnalysisSpec => []AnalysisInv
BY AnalysisInitInv, AnalysisStepInv, PTL DEF AnalysisSpec

\* run_analysis: an analysis that the overview shows as fresh is the analysis of the
\* evidence as it is, however many computations overlap and finish late.
THEOREM FreshAnalysesAreCurrent == AnalysisSpec => []FreshIsCurrent
<1>1. AnalysisInv => FreshIsCurrent
  BY DEF AnalysisInv, VerifiedIsSound, FreshIsCurrent
<1> QED
  BY <1>1, AnalysisInvariant, PTL

\* The tables of analyses keep their types; what is current was verified.
THEOREM AnalysisTypes == AnalysisSpec => []AnalysisTypeOK
<1>1. AnalysisInv => AnalysisTypeOK
  BY DEF AnalysisInv, AnalysisTypeOK, BuilderStates, Now
<1> QED
  BY <1>1, AnalysisInvariant, PTL


---------------------------------------------------------------------------
\* The notices.

NoticesSpec == NoticesInit /\ [][NoticesNext]_noticeVars

ScanStates == [pc : {"none", "event", "run", "done"}, at : Int, id : Int, owes : SUBSET Evidence]

Noticed(e) == notice[e] # "none"

\* What a scan owes is noticed, except for what its cursor has not come to.
ScanIsSound(s) ==
  \A e \in scan[s].owes :
    /\ e \in recorded /\ e.at >= Activation /\ Failed(e)
    /\ \/ Noticed(e)
       \/ scan[s].pc = e.kind /\ Follows(e, scan[s].at, scan[s].id)
       \/ scan[s].pc = "event" /\ e.kind = "run"

NoticesInv ==
  /\ recorded \subseteq Evidence /\ IsFiniteSet(recorded)
  /\ notice \in [Evidence -> {"none", "open", "reviewed"}]
  /\ scan \in [Scans -> ScanStates]
  /\ \A s \in Scans : ScanIsSound(s)

\* Within one kind, evidence is ordered by its time and name.
LEMMA PrecedesIsTotal ==
  ASSUME NEW e \in Evidence, NEW f \in Evidence, e.kind = f.kind
  PROVE  e = f \/ Precedes(e, f) \/ Precedes(f, e)
<1>1. /\ e \in [kind : {"event", "run"}, at : Nat, id : Nat]
      /\ f \in [kind : {"event", "run"}, at : Nat, id : Nat]
  BY NoticesAssumption
<1>2. CASE e.at = f.at /\ e.id = f.id
  BY <1>1, <1>2
<1>3. CASE ~(e.at = f.at /\ e.id = f.id)
  BY <1>1, <1>3 DEF Precedes, Follows
<1> QED
  BY <1>2, <1>3

LEMMA PrecedesIsTransitive ==
  ASSUME NEW e \in Evidence, NEW f \in Evidence, NEW g \in Evidence, Precedes(e, f), Precedes(f, g)
  PROVE  Precedes(e, g) /\ ~Precedes(e, e)
<1>1. \A x \in Evidence : x.at \in Nat /\ x.id \in Nat
  BY NoticesAssumption
<1> QED
  BY <1>1 DEF Precedes, Follows

\* What comes before a piece of evidence of the page comes in the page.
LEMMA PageIsPrefix ==
  ASSUME NEW left \in SUBSET Evidence, IsFiniteSet(left),
         NEW e \in left, NEW f \in PageOf(left), Precedes(e, f)
  PROVE  e \in PageOf(left)
<1> DEFINE Before(x) == {y \in left : Precedes(y, x)}
<1>1. f \in left /\ Cardinality(Before(f)) < PageSize
  BY DEF PageOf
<1>2. Before(e) \in SUBSET Before(f)
  BY <1>1, PrecedesIsTransitive
<1>3. IsFiniteSet(Before(f))
  BY FS_Subset
<1>4. /\ Cardinality(Before(e)) <= Cardinality(Before(f))
      /\ Cardinality(Before(e)) \in Nat /\ Cardinality(Before(f)) \in Nat
  BY <1>2, <1>3, FS_Subset, FS_CardinalityType
<1>5. Cardinality(Before(e)) < PageSize
  BY <1>1, <1>4, NoticesAssumption
<1> QED
  BY <1>5 DEF PageOf

\* A page that is not full is all that is left.
LEMMA ShortPageIsAll ==
  ASSUME NEW left \in SUBSET Evidence, IsFiniteSet(left), NEW kind,
         \A e \in left : e.kind = kind, Cardinality(PageOf(left)) < PageSize
  PROVE  PageOf(left) = left
<1> DEFINE Before(x) == {y \in left : Precedes(y, x)}
           Rest == left \ PageOf(left)
           T == {Before(x) : x \in Rest}
<1>1. PageOf(left) \subseteq left
  BY DEF PageOf
<1>2. SUFFICES ASSUME Rest # {} PROVE FALSE
  BY <1>1
<1>3. T \subseteq FiniteSubsetsOf(left) /\ T # {}
  <2>1. \A x \in Rest : Before(x) \in SUBSET left /\ IsFiniteSet(Before(x))
    BY FS_Subset
  <2> QED
    BY <1>2, <2>1 DEF FiniteSubsetsOf
<1>4. PICK B \in T : \A C \in T : ~(<<C, B>> \in StrictSubsetOrdering(left))
  <2> HIDE DEF T
  <2> QED
    BY <1>3, WFMin, FS_StrictSubsetOrderingWellFounded
<1>5. PICK e \in Rest : B = Before(e)
  BY <1>4
<1>6. Before(e) \subseteq PageOf(left)
  <2> SUFFICES ASSUME NEW f \in Before(e), f \notin PageOf(left) PROVE FALSE
    OBVIOUS
  <2>1. f \in Rest /\ Precedes(f, e)
    OBVIOUS
  <2>2. Before(f) \subseteq Before(e) /\ f \notin Before(f)
    BY <2>1, PrecedesIsTransitive
  <2>3. <<Before(f), Before(e)>> \in StrictSubsetOrdering(left)
    BY <2>2 DEF StrictSubsetOrdering
  <2> QED
    BY <1>4, <1>5, <2>1, <2>3
<1>7. /\ Cardinality(Before(e)) <= Cardinality(PageOf(left))
      /\ Cardinality(Before(e)) \in Nat /\ Cardinality(PageOf(left)) \in Nat
  BY <1>1, <1>6, FS_Subset, FS_CardinalityType
<1>8. Cardinality(Before(e)) < PageSize
  BY <1>7, NoticesAssumption
<1> QED
  BY <1>5, <1>8 DEF PageOf

LEMMA NoticesInitInv == NoticesInit => NoticesInv
<1> SUFFICES ASSUME NoticesInit PROVE NoticesInv
  OBVIOUS
<1>1. NoScan \in ScanStates /\ NoScan.owes = {}
  BY DEF NoScan, ScanStates
<1>2. IsFiniteSet(recorded)
  BY FS_EmptySet DEF NoticesInit
<1> QED
  BY <1>1, <1>2 DEF NoticesInit, NoticesInv, ScanIsSound

\* Notices are written, and never taken back; no scan moves.
LEMMA NoticesGrowInv ==
  ASSUME NoticesInv, NEW s \in Scans, NEW h \in ScanStates, scan' = [scan EXCEPT ![s] = h],
         UNCHANGED recorded, notice' \in [Evidence -> {"none", "open", "reviewed"}],
         \A e \in Evidence : Noticed(e) => Noticed(e)', ScanIsSound(s)'
  PROVE  NoticesInv'
<1>1. ASSUME NEW r \in Scans, r # s PROVE ScanIsSound(r)'
  <2>1. scan'[r] = scan[r] /\ ScanIsSound(r) /\ recorded \subseteq Evidence
    BY <1>1 DEF NoticesInv
  <2> QED
    BY <2>1 DEF ScanIsSound
<1> QED
  BY <1>1 DEF NoticesInv

LEMMA ScanPageInv ==
  ASSUME NoticesInv, NEW s \in Scans, NEW kind \in {"event", "run"}, ScanPage(s, kind)
  PROVE  NoticesInv'
<1> DEFINE left == Ahead(kind, scan[s].at, scan[s].id)
           page == PageOf(left)
<1>1. /\ scan[s].pc = kind /\ NoticeAll(page) /\ UNCHANGED recorded
      /\ IF Cardinality(page) < PageSize
         THEN scan' = [scan EXCEPT ![s].pc = IF kind = "event" THEN "run" ELSE "done",
                                   ![s].at = -1, ![s].id = -1]
         ELSE \E last \in page :
                /\ \A e \in page : e = last \/ Precedes(e, last)
                /\ scan' = [scan EXCEPT ![s].at = last.at, ![s].id = last.id]
  BY DEF ScanPage
<1>2. scan[s] \in ScanStates /\ ScanIsSound(s) /\ recorded \subseteq Evidence
  BY DEF NoticesInv
<1>3. left \in SUBSET Evidence /\ IsFiniteSet(left) /\ \A e \in left : e.kind = kind
  <2>1. left \in SUBSET recorded
    BY DEF Ahead
  <2> QED
    BY <1>2, <2>1, FS_Subset DEF NoticesInv, Ahead
<1>4. page \subseteq left
  BY DEF PageOf
<1>5. /\ notice' \in [Evidence -> {"none", "open", "reviewed"}]
      /\ \A e \in Evidence : Noticed(e) => Noticed(e)'
      /\ \A e \in page : Failed(e) => Noticed(e)'
  BY <1>1, <1>3, <1>4 DEF NoticeAll, Noticed, NoticesInv
<1>6. ASSUME NEW e \in scan[s].owes, ~Noticed(e)', e.kind = kind PROVE e \in left \ page
  <2>1. e \in recorded /\ e.at >= Activation /\ Failed(e)
    BY <1>2 DEF ScanIsSound
  <2>2. Follows(e, scan[s].at, scan[s].id)
    BY <1>1, <1>2, <1>5, <1>6, <2>1 DEF ScanIsSound
  <2> QED
    BY <1>5, <1>6, <2>1, <2>2 DEF Ahead
<1>7. \A e \in scan[s].owes : e \in recorded /\ e.at >= Activation /\ Failed(e) /\ e.kind \in {"event", "run"}
  BY <1>2, NoticesAssumption DEF ScanIsSound
<1> HIDE DEF left, page
<1>8. CASE Cardinality(page) < PageSize
  <2> DEFINE h == [scan[s] EXCEPT !.pc = IF kind = "event" THEN "run" ELSE "done", !.at = -1, !.id = -1]
  <2>1. /\ h \in ScanStates /\ h.pc = (IF kind = "event" THEN "run" ELSE "done")
        /\ h.at = -1 /\ h.id = -1 /\ h.owes = scan[s].owes
    <3>1. (IF kind = "event" THEN "run" ELSE "done") \in {"run", "done"} /\ -1 \in Int
      OBVIOUS
    <3> QED
      BY <1>2, <3>1 DEF ScanStates
  <2>2. scan' = [scan EXCEPT ![s] = h]
    BY <1>1, <1>8 DEF NoticesInv
  <2> HIDE DEF h
  <2>3. scan'[s] = h
    BY <2>2 DEF NoticesInv
  <2>4. page = left
    BY <1>3, <1>8, ShortPageIsAll DEF page
  <2>5. ASSUME NEW e \in scan[s].owes, ~Noticed(e)', e.kind = "run", kind = "event"
        PROVE  Follows(e, -1, -1)
    <3>1. e.at \in Nat
      BY <1>2, <1>7, NoticesAssumption
    <3> QED
      BY <3>1 DEF Follows
  <2>6. ASSUME NEW e \in scan[s].owes, ~Noticed(e)' PROVE e.kind = "run" /\ kind = "event"
    <3>1. ~Noticed(e)
      BY <1>2, <1>5, <1>7, <2>6
    <3>2. e.kind # kind
      BY <1>6, <2>4, <2>6
    <3> QED
      BY <1>1, <1>2, <1>7, <3>1, <3>2 DEF ScanIsSound
  <2>7. ScanIsSound(s)'
    BY <1>1, <1>7, <2>1, <2>3, <2>5, <2>6 DEF ScanIsSound
  <2> QED
    BY <1>1, <1>5, <2>1, <2>2, <2>7, NoticesGrowInv
<1>9. CASE ~(Cardinality(page) < PageSize)
  <2>1. PICK last \in page : /\ \A e \in page : e = last \/ Precedes(e, last)
                             /\ scan' = [scan EXCEPT ![s].at = last.at, ![s].id = last.id]
    BY <1>1, <1>9
  <2> DEFINE h == [scan[s] EXCEPT !.at = last.at, !.id = last.id]
  <2>2. last \in left /\ last.at \in Int /\ last.id \in Int
    <3>1. last \in [kind : {"event", "run"}, at : Nat, id : Nat]
      BY <1>3, <1>4, NoticesAssumption
    <3> QED
      BY <1>4, <3>1
  <2>3. /\ h \in ScanStates /\ h.pc = kind /\ h.at = last.at /\ h.id = last.id
        /\ h.owes = scan[s].owes
    BY <1>1, <1>2, <2>2 DEF ScanStates
  <2>4. scan' = [scan EXCEPT ![s] = h]
    BY <2>1 DEF NoticesInv
  <2> HIDE DEF h
  <2>5. scan'[s] = h
    BY <2>4 DEF NoticesInv
  <2>6. ASSUME NEW e \in scan[s].owes, ~Noticed(e)', e.kind = kind
        PROVE  Follows(e, last.at, last.id)
    <3>1. e \in left /\ e \notin page
      BY <1>6, <2>6
    <3>2. ~Precedes(e, last)
      BY <1>3, <2>1, <3>1, PageIsPrefix DEF page
    <3>3. Precedes(last, e)
      BY <1>3, <2>1, <2>2, <3>1, <3>2, PrecedesIsTotal
    <3> QED
      BY <3>3 DEF Precedes
  <2>7. ASSUME NEW e \in scan[s].owes, ~Noticed(e)', e.kind # kind PROVE e.kind = "run" /\ kind = "event"
    <3>1. ~Noticed(e)
      BY <1>2, <1>5, <1>7, <2>7
    <3> QED
      BY <1>1, <1>2, <1>7, <2>7, <3>1 DEF ScanIsSound
  <2>8. ScanIsSound(s)'
    BY <1>1, <1>7, <2>3, <2>5, <2>6, <2>7 DEF ScanIsSound
  <2> QED
    BY <1>1, <1>5, <2>3, <2>4, <2>8, NoticesGrowInv
<1> QED
  BY <1>8, <1>9

\* Evidence comes, and goes from what is owed too.
LEMMA EvidenceMovesInv ==
  ASSUME NoticesInv, NEW e \in Evidence, Recorded(e) \/ Withdraw(e)
  PROVE  NoticesInv'
<1>1. CASE Recorded(e)
  <2>1. recorded' = recorded \cup {e} /\ UNCHANGED <<notice, scan>>
    BY <1>1 DEF Recorded
  <2>2. IsFiniteSet(recorded')
    BY <2>1, FS_AddElement DEF NoticesInv
  <2> QED
    BY <2>1, <2>2 DEF NoticesInv, ScanIsSound, Noticed
<1>2. CASE Withdraw(e)
  <2>1. /\ recorded' = recorded \ {e} /\ UNCHANGED notice
        /\ scan' = [s \in Scans |-> [scan[s] EXCEPT !.owes = @ \ {e}]]
    BY <1>2 DEF Withdraw
  <2>2. IsFiniteSet(recorded') /\ recorded' \subseteq Evidence
    BY <2>1, FS_RemoveElement DEF NoticesInv
  <2>3. ASSUME NEW s \in Scans
        PROVE  /\ scan'[s] \in ScanStates /\ scan'[s].owes = scan[s].owes \ {e}
               /\ scan'[s].pc = scan[s].pc /\ scan'[s].at = scan[s].at /\ scan'[s].id = scan[s].id
    <3>1. scan[s] \in ScanStates
      BY DEF NoticesInv
    <3> QED
      BY <2>1, <3>1 DEF ScanStates
  <2>4. ASSUME NEW s \in Scans PROVE ScanIsSound(s)'
    <3>1. ScanIsSound(s)
      BY DEF NoticesInv
    <3> QED
      BY <2>1, <2>3, <3>1 DEF ScanIsSound, Noticed
  <2>5. scan' \in [Scans -> ScanStates]
    BY <2>1, <2>3
  <2> QED
    BY <2>1, <2>2, <2>4, <2>5 DEF NoticesInv
<1> QED
  BY <1>1, <1>2

LEMMA ScanStepInv ==
  ASSUME NoticesInv, NEW s \in Scans, ScanBegins(s) \/ ScanEnds(s)
  PROVE  NoticesInv'
<1>1. UNCHANGED <<recorded, notice>> /\ \A e \in Evidence : Noticed(e) => Noticed(e)'
  BY DEF ScanBegins, ScanEnds, Noticed
<1>2. CASE ScanBegins(s)
  <2> DEFINE owed == {e \in recorded : e.at >= Activation /\ Failed(e)}
             h == [NoScan EXCEPT !.pc = "event", !.owes = owed]
  <2>1. h \in ScanStates /\ h.pc = "event" /\ h.at = -1 /\ h.id = -1 /\ h.owes = owed
    <3>1. owed \in SUBSET Evidence /\ -1 \in Int
      BY DEF NoticesInv
    <3> QED
      BY <3>1 DEF ScanStates, NoScan
  <2>2. scan' = [scan EXCEPT ![s] = h]
    BY <1>2 DEF ScanBegins
  <2> HIDE DEF h
  <2>3. scan'[s] = h
    BY <2>2 DEF NoticesInv
  <2>4. \A e \in owed : e.kind \in {"event", "run"} /\ Follows(e, -1, -1)
    <3>1. \A e \in owed : e.kind \in {"event", "run"} /\ e.at \in Nat
      BY NoticesAssumption DEF NoticesInv
    <3> QED
      BY <3>1 DEF Follows
  <2>5. ScanIsSound(s)'
    BY <1>1, <2>1, <2>3, <2>4 DEF ScanIsSound
  <2> QED
    BY <1>1, <2>1, <2>2, <2>5, NoticesGrowInv DEF NoticesInv
<1>3. CASE ScanEnds(s)
  <2>1. NoScan \in ScanStates /\ NoScan.owes = {}
    BY DEF ScanStates, NoScan
  <2>2. scan' = [scan EXCEPT ![s] = NoScan]
    BY <1>3 DEF ScanEnds
  <2>3. ScanIsSound(s)'
    BY <2>1, <2>2 DEF ScanIsSound, NoticesInv
  <2> QED
    BY <1>1, <2>1, <2>2, <2>3, NoticesGrowInv DEF NoticesInv
<1> QED
  BY <1>2, <1>3

\* Reviews and rechecks leave noticed what is noticed.
LEMMA ReviewInv ==
  ASSUME NoticesInv, NEW e \in Evidence, NEW f \in Evidence, Review(e) \/ AttachRecheck(e, f)
  PROVE  NoticesInv'
<1>1. /\ UNCHANGED <<recorded, scan>> /\ notice' \in [Evidence -> {"none", "open", "reviewed"}]
      /\ \A g \in Evidence : Noticed(g) => Noticed(g)'
  BY DEF Review, AttachRecheck, NoticesInv, Noticed
<1>2. ASSUME NEW s \in Scans PROVE ScanIsSound(s)'
  <2>1. ScanIsSound(s) /\ recorded \subseteq Evidence
    BY DEF NoticesInv
  <2> QED
    BY <1>1, <2>1 DEF ScanIsSound
<1> QED
  BY <1>1, <1>2 DEF NoticesInv

LEMMA NoticesStepInv == NoticesInv /\ [NoticesNext]_noticeVars => NoticesInv'
<1> SUFFICES ASSUME NoticesInv, [NoticesNext]_noticeVars PROVE NoticesInv'
  OBVIOUS
<1>1. CASE UNCHANGED noticeVars
  BY <1>1 DEF noticeVars, NoticesInv, ScanIsSound, Noticed
<1>2. CASE \E e \in Evidence : Recorded(e) \/ Withdraw(e)
  BY <1>2, EvidenceMovesInv
<1>3. CASE \E e \in Evidence : Review(e) \/ \E f \in Evidence : AttachRecheck(e, f)
  BY <1>3, ReviewInv
<1>4. CASE \E s \in Scans : ScanBegins(s) \/ ScanEnds(s)
  BY <1>4, ScanStepInv
<1>5. CASE \E s \in Scans : ScanPage(s, "event") \/ ScanPage(s, "run")
  BY <1>5, ScanPageInv
<1> QED
  BY <1>1, <1>2, <1>3, <1>4, <1>5 DEF NoticesNext

\* What a scan owes is noticed or still ahead of its cursor (NoticesInv).
THEOREM NoticesInvariant == NoticesSpec => []NoticesInv
BY NoticesInitInv, NoticesStepInv, PTL DEF NoticesSpec

\* scan: a scan that ends has noticed all failures that were recorded when it began and
\* are there, whatever is written, withdrawn, reviewed and scanned between its pages.
THEOREM ScansNoticeFailures == NoticesSpec => []ScannedIsNoticed
<1>1. NoticesInv => ScannedIsNoticed
  BY NoticesAssumption DEF NoticesInv, ScanIsSound, ScannedIsNoticed, Noticed
<1> QED
  BY <1>1, NoticesInvariant, PTL

---------------------------------------------------------------------------
\* Rechecks.

\* No notice has more rechecks than there may be, and none has any that is not there.
RecheckIsSound(e) ==
  /\ rechecks[e] \in SUBSET Evidence /\ IsFiniteSet(rechecks[e])
  /\ Cardinality(rechecks[e]) <= MaxRechecks
  /\ rechecks[e] # {} => Noticed(e)

RechecksInv ==
  /\ rechecks \in [Evidence -> SUBSET Evidence]
  /\ \A e \in Evidence : RecheckIsSound(e)

LEMMA RechecksInitInv == NoticesInit => RechecksInv
BY FS_EmptySet, NoticesAssumption DEF NoticesInit, RechecksInv, RecheckIsSound

\* One more, after those that are gone have made room.
LEMMA AttachRecheckInv ==
  ASSUME RechecksInv, NoticesInv, NEW e \in Evidence, NEW f \in Evidence, AttachRecheck(e, f)
  PROVE  RechecksInv'
<1> DEFINE kept == rechecks[e] \cap recorded
           new == kept \cup {f}
<1>1. /\ rechecks' = [rechecks EXCEPT ![e] = new] /\ UNCHANGED notice /\ Noticed(e)
      /\ f \in kept \/ Cardinality(kept) < MaxRechecks
  BY DEF AttachRecheck, Noticed
<1>2. RecheckIsSound(e)
  BY DEF RechecksInv
<1>3. IsFiniteSet(kept) /\ Cardinality(kept) <= Cardinality(rechecks[e])
  <2>1. kept \in SUBSET rechecks[e]
    OBVIOUS
  <2> QED
    BY <1>2, <2>1, FS_Subset DEF RecheckIsSound
<1>4. Cardinality(kept) \in Nat /\ Cardinality(rechecks[e]) \in Nat
  BY <1>2, <1>3, FS_CardinalityType DEF RecheckIsSound
<1>5. /\ IsFiniteSet(new)
      /\ Cardinality(new) = IF f \in kept THEN Cardinality(kept) ELSE Cardinality(kept) + 1
  BY <1>3, FS_AddElement
<1>6. Cardinality(new) <= MaxRechecks
  <2>1. Cardinality(rechecks[e]) <= MaxRechecks
    BY <1>2 DEF RecheckIsSound
  <2> QED
    BY <1>1, <1>3, <1>4, <1>5, <2>1, NoticesAssumption
<1>7. new \in SUBSET Evidence
  BY <1>2 DEF RecheckIsSound
<1> HIDE DEF new
<1>8. /\ rechecks' \in [Evidence -> SUBSET Evidence] /\ rechecks'[e] = new
      /\ \A g \in Evidence : g # e => rechecks'[g] = rechecks[g]
  BY <1>1, <1>7 DEF RechecksInv
<1>9. ASSUME NEW g \in Evidence PROVE RecheckIsSound(g)'
  BY <1>1, <1>5, <1>6, <1>7, <1>8 DEF RechecksInv, RecheckIsSound, Noticed
<1> QED
  BY <1>8, <1>9 DEF RechecksInv

\* Nothing else changes rechecks, and no notice is taken back.
LEMMA RechecksStepInv ==
  ASSUME RechecksInv, NoticesInv, [NoticesNext]_noticeVars PROVE RechecksInv'
<1>1. CASE UNCHANGED rechecks /\ \A e \in Evidence : Noticed(e) => Noticed(e)'
  BY <1>1 DEF RechecksInv, RecheckIsSound
<1>2. CASE \E e \in Evidence : Recorded(e) \/ Withdraw(e)
  BY <1>1, <1>2 DEF Recorded, Withdraw, Noticed
<1>3. CASE \E e \in Evidence : Review(e)
  BY <1>1, <1>3 DEF Review, Noticed, NoticesInv
<1>4. CASE \E s \in Scans : ScanBegins(s) \/ ScanEnds(s)
  BY <1>1, <1>4 DEF ScanBegins, ScanEnds, Noticed
<1>5. CASE \E s \in Scans : ScanPage(s, "event") \/ ScanPage(s, "run")
  BY <1>1, <1>5 DEF ScanPage, NoticeAll, Noticed
<1>6. CASE UNCHANGED noticeVars
  BY <1>1, <1>6 DEF noticeVars, Noticed
<1> QED
  BY <1>2, <1>3, <1>4, <1>5, <1>6, AttachRecheckInv DEF NoticesNext

\* attach_recheck: a notice never has more than MAX_RECHECKS_PER_NOTICE rechecks, and
\* nothing is attached to what was not noticed; scans owe only what is there.
THEOREM NoticesTypes == NoticesSpec => []NoticesTypeOK
<1>1. RechecksInv /\ NoticesInv /\ [NoticesNext]_noticeVars => RechecksInv'
  BY RechecksStepInv
<1>2. NoticesSpec => []RechecksInv
  BY <1>1, RechecksInitInv, NoticesInvariant, PTL DEF NoticesSpec
<1>3. RechecksInv /\ NoticesInv => NoticesTypeOK
  BY DEF RechecksInv, RecheckIsSound, NoticesInv, ScanIsSound, NoticesTypeOK, Noticed
<1> QED
  BY <1>2, <1>3, NoticesInvariant, PTL

---------------------------------------------------------------------------
\* All that concludes from evidence, beside each other.

\* The service, paid calls, judgments, analyses and notices of MCCycle each do what they do alone.
LEMMA CycleHasParts == CycleSpec => Spec /\ CallsSpec /\ JudgmentSpec /\ AnalysisSpec /\ NoticesSpec
<1>1. CycleInit => Init /\ CallsInit /\ JudgmentInit /\ AnalysisInit /\ NoticesInit
  BY DEF CycleInit
<1>2. [CycleNext]_<<vars, callVars, turnVars, analysisVars, noticeVars>> =>
        /\ [Next]_vars /\ [CallsNext]_callVars /\ [JudgmentNext]_turnVars
        /\ [AnalysisNext]_analysisVars /\ [NoticesNext]_noticeVars
  BY DEF CycleNext
<1> QED
  BY <1>1, <1>2, PTL DEF CycleSpec, Spec, CallsSpec, JudgmentSpec, AnalysisSpec, NoticesSpec

\* The tables of the worker and of the dashboard (TablesAreSound of MCCycle): queue, calls,
\* judgments, analyses and notices keep to their types, and a notification is attempted no
\* more often than reviewers have allowed.
THEOREM TablesStaySound == CycleSpec => []TablesAreSound
BY CycleHasParts, QueueTypesHold, AttemptsAreBounded, CallsTypes, JudgmentTypes, AnalysisTypes, NoticesTypes, PTL
   DEF TablesAreSound

\* So the theorems about the parts hold of MCCycle: what is sent, shown, paid, judged and
\* noticed is right, and what is settled stays so.
THEOREM CycleIsSafe ==
  CycleSpec => /\ [](SentAsIntended /\ StatusIsHonest /\ PaidAsApproved /\ JudgmentIsKept)
               /\ [](FreshIsCurrent /\ ScannedIsNoticed)
               /\ SettledForGood
BY CycleHasParts, NotificationsAreSentAsIntended, StatusesAreHonest, CallsArePaidAsApproved, JudgmentsAreKept,
   FreshAnalysesAreCurrent, ScansNoticeFailures, SettledStaysSettled, PTL

===============================================================================
