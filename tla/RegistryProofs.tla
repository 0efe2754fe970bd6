----------------------------- MODULE RegistryProofs -----------------------------
(***************************************************************************)
(* Safety of the registries of the storage, for any number of policies,    *)
(* units, runs and requests, of versions, keys and operators: the drift    *)
(* monitors of a scope, and the cluster registry of a tenant.              *)
(***************************************************************************)
EXTENDS MCRegistries, SequenceTheorems, FiniteSetTheorems,
        WellFoundedInduction, TLAPS

PolicyStates == {"none", "candidate", "active", "retired"}

SnapshotIsSound(s) ==
  /\ s \in Snapshots
  /\ IsFiniteSet(s.current) /\ Cardinality(s.current) <= Target
  /\ s.current \subseteq s.consumed /\ s.consumed \cap s.start = {}

\* What CohortsAreDisjoint says of two successive snapshots.
Succession(old, new) ==
  /\ SnapshotIsSound(new) /\ new.index >= 1
  /\ new.index = IF IsOpen(old) THEN old.index ELSE old.index + 1
  /\ IF IsOpen(old) THEN old.current \subseteq new.current
                    ELSE new.current \cap old.consumed = {}
  /\ new.consumed = old.consumed \cup new.current

\* A chain begins with the historical snapshot; only its first successor has a new
\* boundary, and a candidate has that one at most.
ChainIsSound(c, st) ==
  /\ c \in Seq(Snapshots) /\ IsInjective(c)
  /\ st = "none" <=> c = <<>>
  /\ st = "candidate" => Len(c) <= 2
  /\ c # <<>> => c[1] = Historical
  /\ \A k \in DOMAIN c : SnapshotIsSound(c[k])
  /\ \A k \in 2..Len(c) : Succession(c[k - 1], c[k]) /\ c[k].start = c[2].start

PoliciesInv ==
  /\ state \in [Policies -> PolicyStates] /\ chain \in [Policies -> Seq(Snapshots)]
  /\ \A p, q \in Policies : state[p] = "active" /\ state[q] = "active" => p = q
  /\ \A p \in Policies : ChainIsSound(chain[p], state[p])

EvidenceInv ==
  happened \in Seq(Units) /\ IsInjective(happened) /\ arrived \subseteq ToSet(happened)

IntentsInv ==
  \A i \in intents : i[1] \in Policies /\ i[2] \in ToSet(chain[i[1]])

RunStates ==
  [pc : {"idle", "save", "lost", "attach", "done"}, policy : Policies \cup {NoPolicy},
   before : Snapshots, after : Snapshots]

\* What a run is to save succeeds what it has read.
RunIsSound(h) ==
  /\ h \in RunStates
  /\ h.pc # "idle" => h.policy \in Policies
  /\ h.pc = "save" => Succession(h.before, h.after) /\ h.after.start = h.before.start

RunsInv ==
  /\ run \in [Runs -> RunStates] /\ \A r \in Runs : RunIsSound(run[r])
  /\ ReportedIsNotified

RequestStates ==
  [pc : {"asked", "check", "prepare", "reread", "activate", "answered", "over"},
   policy : Policies \cup {NoPolicy}, expected : Policies \cup {NoPolicy}, prepared : Snapshots]

\* The policy is the candidate it was when the active policy was e, or else another
\* activation has replaced e meanwhile.
Eligible(p, e) ==
  /\ p \in Policies /\ state[p] # "none"
  /\ e # NoPolicy => state[e] \in {"active", "retired"}
  /\ state[p] = "candidate" \/ IF e = NoPolicy THEN Active # {} ELSE state[e] = "retired"

RequestIsSound(h) ==
  /\ h \in RequestStates
  /\ h.pc \in {"check", "prepare", "reread", "activate"} => Eligible(h.policy, h.expected)
  /\ h.pc = "prepare" => Succession(Historical, h.prepared) /\ h.prepared.index = 1
  /\ h.pc \in {"activate", "answered"} =>
       /\ h.policy \in Policies
       /\ Len(chain[h.policy]) >= 2 /\ chain[h.policy][2] = h.prepared

RequestsInv ==
  /\ request \in [Requests -> RequestStates]
  /\ \A a \in Requests : RequestIsSound(request[a])

MonitorInv == PoliciesInv /\ EvidenceInv /\ IntentsInv /\ RunsInv /\ RequestsInv

---------------------------------------------------------------------------
\* The monitors of a scope.

\* The library selects the first n units of a set: n at most, and units of that set.
LEMMA EarliestIsBounded ==
  ASSUME happened \in Seq(Units), NEW n \in Nat, NEW S
  PROVE  /\ Earliest(n, S) \subseteq S
         /\ IsFiniteSet(Earliest(n, S)) /\ Cardinality(Earliest(n, S)) <= n
<1> DEFINE Before(k) == {j \in 1..k : happened[j] \in S}
           Chosen == {k \in DOMAIN happened : happened[k] \in S /\ Cardinality(Before(k)) <= n}
           choice == [k \in Chosen |-> happened[k]]
<1>1. /\ Earliest(n, S) = {happened[i] : i \in Chosen}
      /\ DOMAIN happened = 1..Len(happened) /\ Len(happened) \in Nat
  BY LenProperties DEF Earliest
<1>2. IsFiniteSet(Chosen)
  <2>1. Chosen \subseteq 1..Len(happened) /\ IsFiniteSet(1..Len(happened))
    BY <1>1, FS_Interval
  <2> HIDE DEF Chosen
  <2> QED
    BY <2>1, FS_Subset
<1>3. choice \in Surjection(Chosen, Earliest(n, S))
  BY <1>1 DEF Surjection
<1>4. /\ IsFiniteSet(Earliest(n, S)) /\ Cardinality(Earliest(n, S)) <= Cardinality(Chosen)
      /\ Cardinality(Earliest(n, S)) \in Nat /\ Cardinality(Chosen) \in Nat
  <2> HIDE DEF Chosen, choice
  <2> QED
    BY <1>2, <1>3, FS_Surjection, FS_CardinalityType
<1>5. Cardinality(Chosen) <= n
  <2>1. CASE Chosen = {}
    <3> HIDE DEF Chosen
    <3> QED
      BY <2>1, FS_EmptySet
  <2>2. CASE Chosen # {}
    <3> DEFINE Gaps == {d \in Nat : Len(happened) - d \in Chosen}
    <3>1. Gaps \subseteq Nat /\ Gaps # {}
      <4>1. PICK k \in Chosen : TRUE
        BY <2>2
      <4>2. k \in 1..Len(happened)
        BY <1>1
      <4>3. Len(happened) - k \in Nat /\ Len(happened) - (Len(happened) - k) = k
        BY <4>2, <1>1
      <4> QED
        BY <4>1, <4>3
    <3>2. PICK d \in Gaps : \A e \in Gaps : ~(<<e, d>> \in OpToRel(<, Nat))
      <4> HIDE DEF Gaps
      <4> QED
        BY <3>1, WFMin, NatLessThanWellFounded
    <3> DEFINE m == Len(happened) - d
    <3>3. m \in Chosen /\ m \in 1..Len(happened)
      BY <1>1
    <3>4. \A k \in Chosen : k <= m
      <4> SUFFICES ASSUME NEW k \in Chosen, k > m PROVE FALSE
        BY <1>1, <3>3
      <4>1. k \in 1..Len(happened)
        BY <1>1
      <4>2. /\ Len(happened) - k \in Nat /\ Len(happened) - (Len(happened) - k) = k
            /\ Len(happened) - k < d
        BY <4>1, <1>1
      <4>3. Len(happened) - k \in Gaps
        BY <4>2
      <4> QED
        BY <4>2, <4>3, <3>2 DEF OpToRel
    <3>5. Chosen \subseteq Before(m)
      BY <3>3, <3>4, <1>1
    <3>6. IsFiniteSet(Before(m))
      <4>1. Before(m) \subseteq 1..m /\ IsFiniteSet(1..m)
        BY <3>3, FS_Interval
      <4> HIDE DEF Before
      <4> QED
        BY <4>1, FS_Subset
    <3>7. Cardinality(Before(m)) <= n /\ Cardinality(Before(m)) \in Nat
      BY <3>3, <3>6, FS_CardinalityType
    <3>8. Cardinality(Chosen) <= Cardinality(Before(m))
      <4> HIDE DEF Chosen, Before
      <4> QED
        BY <3>5, <3>6, FS_Subset
    <3> QED
      <4> HIDE DEF Chosen, Before
      <4> QED
        BY <3>7, <3>8, <1>4
  <2> QED
    BY <2>1, <2>2
<1>6. Earliest(n, S) \subseteq S
  BY <1>1
<1> QED
  <2> HIDE DEF Chosen, choice
  <2> QED
    BY <1>4, <1>5, <1>6

LEMMA PlanSucceeds ==
  ASSUME EvidenceInv, NEW s, SnapshotIsSound(s)
  PROVE  Succession(s, Plan(s)) /\ Plan(s).start = s.start
<1>1. /\ s.index \in Nat /\ s.start \subseteq Units /\ s.current \subseteq Units
      /\ s.consumed \subseteq Units /\ arrived \subseteq Units
      /\ Cardinality(s.current) \in Nat /\ Target \in Nat \ {0}
  <2>1. \A k \in DOMAIN happened : happened[k] \in Units
    BY LenProperties, ElementOfSeq DEF EvidenceInv
  <2>2. arrived \subseteq Units
    BY <2>1 DEF EvidenceInv, ToSet
  <2> QED
    BY <2>2, FS_CardinalityType, MonitorAssumption DEF SnapshotIsSound, Snapshots
<1>2. PICK room \in Nat : room = IF IsOpen(s) THEN Target - Cardinality(s.current) ELSE Target
  BY <1>1 DEF IsOpen
<1>3. PICK admitted : admitted = Earliest(room, arrived \ (s.start \cup s.consumed))
  OBVIOUS
<1>4. /\ admitted \subseteq Units /\ admitted \cap s.start = {} /\ admitted \cap s.consumed = {}
      /\ IsFiniteSet(admitted) /\ Cardinality(admitted) <= room /\ Cardinality(admitted) \in Nat
  BY <1>1, <1>2, <1>3, EarliestIsBounded, FS_CardinalityType DEF EvidenceInv
<1>5. PICK new : new = [s EXCEPT !.index = IF IsOpen(s) THEN @ ELSE @ + 1,
                                 !.current = admitted \cup IF IsOpen(s) THEN @ ELSE {},
                                 !.consumed = @ \cup admitted]
  OBVIOUS
<1>6. Plan(s) = new
  BY <1>2, <1>3, <1>5 DEF Plan
<1>7. /\ new.index = IF IsOpen(s) THEN s.index ELSE s.index + 1
      /\ new.current = admitted \cup IF IsOpen(s) THEN s.current ELSE {}
      /\ new.consumed = s.consumed \cup admitted
      /\ new.start = s.start
      /\ new \in Snapshots
  <2>1. s \in Snapshots
    BY DEF SnapshotIsSound
  <2>2. PICK index \in Nat : index = IF IsOpen(s) THEN s.index ELSE s.index + 1
    BY <1>1
  <2>3. PICK current \in SUBSET Units : current = admitted \cup IF IsOpen(s) THEN s.current ELSE {}
    BY <1>1, <1>4
  <2>4. new = [s EXCEPT !.index = index, !.current = current, !.consumed = @ \cup admitted]
    BY <1>5, <2>1, <2>2, <2>3 DEF Snapshots
  <2> QED
    BY <1>1, <1>4, <2>1, <2>2, <2>3, <2>4 DEF Snapshots
<1>8. IsFiniteSet(new.current) /\ Cardinality(new.current) <= Target
  <2>1. CASE IsOpen(s)
    <3>1. new.current = admitted \cup s.current /\ IsFiniteSet(s.current)
      BY <1>7, <2>1 DEF SnapshotIsSound
    <3>2. admitted \cap s.current = {}
      BY <1>4 DEF SnapshotIsSound
    <3>3. /\ IsFiniteSet(new.current)
          /\ Cardinality(new.current) = Cardinality(admitted) + Cardinality(s.current)
                                        - Cardinality(admitted \cap s.current)
      BY <3>1, <1>4, FS_Union
    <3>4. Cardinality(admitted \cap s.current) = 0
      BY <3>2, FS_EmptySet
    <3> QED
      BY <3>3, <3>4, <1>1, <1>2, <1>4, <2>1
  <2>2. CASE ~IsOpen(s)
    BY <1>2, <1>4, <1>7, <2>2
  <2> QED
    BY <2>1, <2>2
<1>9. new.index >= 1
  BY <1>1, <1>7 DEF IsOpen
<1>10. /\ IF IsOpen(s) THEN s.current \subseteq new.current ELSE new.current \cap s.consumed = {}
       /\ new.consumed = s.consumed \cup new.current
       /\ new.consumed \cap new.start = {}
  BY <1>4, <1>7 DEF SnapshotIsSound
<1> QED
  BY <1>6, <1>7, <1>8, <1>9, <1>10 DEF Succession, SnapshotIsSound

\* The snapshot of a candidate, and what its activation prepares.
LEMMA PreparedSucceeds ==
  ASSUME EvidenceInv
  PROVE  /\ SnapshotIsSound(Historical)
         /\ Succession(Historical, PlanFromNow) /\ PlanFromNow.index = 1
<1>1. /\ Cardinality({}) = 0 /\ IsFiniteSet({}) /\ Target \in Nat \ {0}
  BY FS_EmptySet, MonitorAssumption
<1>2. SnapshotIsSound(Historical) /\ ~IsOpen(Historical)
  BY <1>1 DEF SnapshotIsSound, Historical, Snapshots, IsOpen
<1>3. ToSet(happened) \subseteq Units
  BY LenProperties, ElementOfSeq DEF EvidenceInv, ToSet
<1>4. PICK new : new = PlanFromNow
  OBVIOUS
<1>5. /\ new \in Snapshots /\ new.index = 1 /\ new.current = {} /\ new.consumed = {}
  BY <1>3, <1>4 DEF PlanFromNow, Historical, Snapshots
<1>6. SnapshotIsSound(new)
  BY <1>1, <1>5 DEF SnapshotIsSound
<1> QED
  BY <1>2, <1>4, <1>5, <1>6 DEF Succession, Historical

\* A chain grows by a successor of its head.
LEMMA ChainGrows ==
  ASSUME NEW c, NEW st, ChainIsSound(c, st), c # <<>>, NEW s, Succession(Last(c), s),
         s \notin ToSet(c), st = "candidate" => Len(c) = 1,
         Len(c) >= 2 => s.start = Last(c).start
  PROVE  ChainIsSound(Append(c, s), st)
<1>1. /\ c \in Seq(Snapshots) /\ s \in Snapshots /\ DOMAIN c = 1..Len(c) /\ Len(c) \in Nat \ {0}
      /\ Last(c) = c[Len(c)]
  BY LenProperties, EmptySeq DEF ChainIsSound, Succession, SnapshotIsSound, Last
<1>2. PICK d : d = Append(c, s)
  OBVIOUS
<1>3. /\ d \in Seq(Snapshots) /\ d # <<>> /\ Len(d) = Len(c) + 1 /\ DOMAIN d = 1..(Len(c) + 1)
      /\ \A k \in 1..Len(c) : d[k] = c[k]
      /\ d[Len(c) + 1] = s
  BY <1>1, <1>2, AppendProperties, LenProperties
<1>4. \A k \in 1..Len(d) : k = Len(c) + 1 \/ k \in 1..Len(c)
  BY <1>1, <1>3
<1>5. IsInjective(d)
  <2>1. \A k \in 1..Len(c) : d[k] # s
    BY <1>1, <1>3 DEF ToSet
  <2>2. IsInjective(c)
    BY DEF ChainIsSound
  <2> QED
    BY <1>1, <1>3, <1>4, <2>1, <2>2 DEF IsInjective
<1>6. d[1] = Historical
  BY <1>1, <1>3 DEF ChainIsSound
<1>7. \A k \in DOMAIN d : SnapshotIsSound(d[k])
  BY <1>1, <1>3, <1>4 DEF ChainIsSound, Succession
<1>8. ASSUME NEW k \in 2..Len(d)
      PROVE  Succession(d[k - 1], d[k]) /\ d[k].start = d[2].start
  <2>1. CASE k = Len(c) + 1
    <3>1. d[k - 1] = Last(c) /\ d[k] = s
      BY <1>1, <1>3, <2>1
    <3>2. CASE Len(c) = 1
      BY <3>1, <3>2, <2>1, <1>3
    <3>3. CASE Len(c) >= 2
      <4>1. Len(c) \in 2..Len(c) /\ 2 \in 1..Len(c)
        BY <1>1, <3>3
      <4>2. Last(c).start = c[2].start
        BY <4>1, <1>1 DEF ChainIsSound
      <4> QED
        BY <4>1, <4>2, <3>1, <3>3, <1>3
    <3> QED
      BY <3>2, <3>3, <1>1
  <2>2. CASE k \in 1..Len(c)
    <3>1. k \in 2..Len(c) /\ k - 1 \in 1..Len(c) /\ 2 \in 1..Len(c)
      BY <1>1, <2>2
    <3>2. Succession(c[k - 1], c[k]) /\ c[k].start = c[2].start
      BY <3>1 DEF ChainIsSound
    <3> QED
      BY <3>1, <3>2, <1>3, <2>2
  <2> QED
    BY <1>3, <1>4, <2>1, <2>2
<1>9. /\ st = "none" <=> d = <<>>
      /\ st = "candidate" => Len(d) <= 2
  BY <1>3 DEF ChainIsSound
<1> QED
  BY <1>2, <1>3, <1>5, <1>6, <1>7, <1>8, <1>9 DEF ChainIsSound

---------------------------------------------------------------------------
\* Frames.

LEMMA RunStep ==
  ASSUME RunsInv, NEW r \in Runs, NEW h, RunIsSound(h), run' = [run EXCEPT ![r] = h],
         intents \subseteq intents',
         r = Worker /\ h.pc = "done" /\ IsAlert(h.after) => <<h.policy, h.after>> \in intents'
  PROVE  RunsInv'
<1>1. h \in RunStates /\ run \in [Runs -> RunStates] /\ Worker \in Runs
  BY DEF RunIsSound, RunsInv, Runs
<1>2. /\ run' \in [Runs -> RunStates] /\ run'[r] = h
      /\ \A q \in Runs : q # r => run'[q] = run[q]
  BY <1>1
<1>3. \A q \in Runs : RunIsSound(run'[q])
  BY <1>2 DEF RunsInv
<1>4. ReportedIsNotified'
  <2>1. CASE r = Worker
    BY <1>2, <2>1 DEF ReportedIsNotified
  <2>2. CASE r # Worker
    <3>1. run'[Worker] = run[Worker] /\ ReportedIsNotified
      BY <1>1, <1>2, <2>2 DEF RunsInv
    <3> QED
      BY <3>1 DEF ReportedIsNotified
  <2> QED
    BY <2>1, <2>2
<1> QED
  BY <1>2, <1>3, <1>4 DEF RunsInv

LEMMA RunsUnchanged == ASSUME RunsInv, UNCHANGED <<run, intents>> PROVE RunsInv'
BY DEF RunsInv, ReportedIsNotified

LEMMA PoliciesUnchanged == ASSUME PoliciesInv, UNCHANGED policyVars PROVE PoliciesInv'
BY DEF PoliciesInv, policyVars

LEMMA EvidenceUnchanged == ASSUME EvidenceInv, UNCHANGED evidenceVars PROVE EvidenceInv'
BY DEF EvidenceInv, evidenceVars, ToSet

LEMMA IntentsUnchanged == ASSUME IntentsInv, UNCHANGED <<chain, intents>> PROVE IntentsInv'
BY DEF IntentsInv, ToSet

\* No request loses its ground.
Kept == \A h : RequestIsSound(h) => RequestIsSound(h)'

LEMMA RequestsKept ==
  ASSUME RequestsInv, Kept, UNCHANGED request
  PROVE  RequestsInv'
<1> SUFFICES ASSUME NEW a \in Requests
             PROVE  RequestIsSound(request[a])'
  BY DEF RequestsInv
<1>1. PICK h : h = request[a] /\ RequestIsSound(h)
  BY DEF RequestsInv
<1>2. RequestIsSound(h)' /\ request'[a] = h
  BY <1>1 DEF Kept
<1> QED
  BY <1>2 DEF RequestIsSound, Eligible, Active

LEMMA RequestStep ==
  ASSUME RequestsInv, Kept, NEW a \in Requests, NEW h, RequestIsSound(h)',
         request' = [request EXCEPT ![a] = h]
  PROVE  RequestsInv'
<1>1. h \in RequestStates /\ request \in [Requests -> RequestStates]
  BY DEF RequestIsSound, RequestsInv
<1>2. /\ request' \in [Requests -> RequestStates] /\ request'[a] = h
      /\ \A b \in Requests : b # a => request'[b] = request[b]
  BY <1>1
<1> SUFFICES ASSUME NEW b \in Requests
             PROVE  RequestIsSound(request[b])'
  BY <1>2 DEF RequestsInv
<1>3. PICK g : g = request'[b] /\ RequestIsSound(g)'
  <2>1. CASE b = a
    BY <1>2, <2>1
  <2>2. CASE b # a
    <3>1. PICK g : g = request[b] /\ RequestIsSound(g)
      BY DEF RequestsInv
    <3> QED
      BY <1>2, <2>2, <3>1 DEF Kept
  <2> QED
    BY <2>1, <2>2
<1> QED
  BY <1>3 DEF RequestIsSound, Eligible, Active

LEMMA KeptUnchanged == ASSUME UNCHANGED policyVars PROVE Kept
BY DEF Kept, RequestIsSound, Eligible, Active, policyVars

---------------------------------------------------------------------------
\* A snapshot is stored.

LEMMA StoredStep ==
  ASSUME PoliciesInv, NEW p \in Policies, NEW s, state[p] \in {"candidate", "active"},
         state[p] = "candidate" => Len(chain[p]) = 1,
         Succession(Latest(p), s), Len(chain[p]) >= 2 => s.start = Latest(p).start,
         Stored(p, s), UNCHANGED state
  PROVE  /\ PoliciesInv' /\ s \in ToSet(chain'[p])
         /\ \A q \in Policies : \A k \in DOMAIN chain[q] :
              k \in DOMAIN chain'[q] /\ chain'[q][k] = chain[q][k]
<1>1. /\ chain \in [Policies -> Seq(Snapshots)] /\ ChainIsSound(chain[p], state[p])
      /\ chain[p] # <<>> /\ s \in Snapshots
  BY DEF PoliciesInv, ChainIsSound, Succession, SnapshotIsSound
<1>2. CASE s \in ToSet(chain[p])
  <2>1. chain' = chain
    BY <1>1, <1>2 DEF Stored
  <2> QED
    BY <2>1, <1>2, PoliciesUnchanged DEF policyVars
<1>3. CASE s \notin ToSet(chain[p])
  <2>1. PICK d : d = Append(chain[p], s)
    OBVIOUS
  <2>2. chain' = [chain EXCEPT ![p] = d]
    BY <1>3, <2>1 DEF Stored
  <2>3. ChainIsSound(d, state[p])
    BY <1>1, <1>3, <2>1, ChainGrows DEF Latest
  <2>4. /\ d \in Seq(Snapshots) /\ Len(d) = Len(chain[p]) + 1 /\ Len(chain[p]) \in Nat
        /\ DOMAIN chain[p] = 1..Len(chain[p]) /\ DOMAIN d = 1..Len(d)
        /\ \A k \in 1..Len(chain[p]) : d[k] = chain[p][k]
        /\ d[Len(chain[p]) + 1] = s
    <3>1. chain[p] \in Seq(Snapshots)
      BY <1>1
    <3>2. /\ d \in Seq(Snapshots) /\ Len(d) = Len(chain[p]) + 1
          /\ \A k \in 1..Len(chain[p]) : d[k] = chain[p][k]
          /\ d[Len(chain[p]) + 1] = s
      BY <1>1, <2>1, <3>1, AppendProperties
    <3> QED
      BY <3>1, <3>2, LenProperties
  <2>5. /\ chain' \in [Policies -> Seq(Snapshots)] /\ chain'[p] = d
        /\ \A q \in Policies : q # p => chain'[q] = chain[q]
    BY <1>1, <2>2, <2>4
  <2>6. \A q \in Policies : ChainIsSound(chain'[q], state'[q])
    BY <2>3, <2>5 DEF PoliciesInv
  <2>7. PoliciesInv'
    BY <2>5, <2>6 DEF PoliciesInv
  <2>8. s \in ToSet(chain'[p])
    BY <2>4, <2>5 DEF ToSet
  <2>9. ASSUME NEW q \in Policies, NEW k \in DOMAIN chain[q]
        PROVE  k \in DOMAIN chain'[q] /\ chain'[q][k] = chain[q][k]
    <3>1. CASE q = p
      BY <2>4, <2>5, <3>1
    <3>2. CASE q # p
      BY <2>5, <3>2
    <3> QED
      BY <3>1, <3>2
  <2> QED
    BY <2>7, <2>8, <2>9
<1> QED
  BY <1>2, <1>3

\* Chains that grow keep the intents and the requests.
LEMMA KeptByGrowth ==
  ASSUME PoliciesInv, PoliciesInv', UNCHANGED state,
         \A q \in Policies : \A k \in DOMAIN chain[q] :
           k \in DOMAIN chain'[q] /\ chain'[q][k] = chain[q][k]
  PROVE  /\ Kept
         /\ \A q \in Policies : ToSet(chain[q]) \subseteq ToSet(chain'[q])
<1>1. \A q \in Policies : ToSet(chain[q]) \subseteq ToSet(chain'[q])
  BY DEF ToSet
<1>2. \A q \in Policies : Len(chain[q]) >= 2 => Len(chain'[q]) >= 2 /\ chain'[q][2] = chain[q][2]
  <2> SUFFICES ASSUME NEW q \in Policies, Len(chain[q]) >= 2
               PROVE  Len(chain'[q]) >= 2 /\ chain'[q][2] = chain[q][2]
    OBVIOUS
  <2>1. chain[q] \in Seq(Snapshots) /\ chain'[q] \in Seq(Snapshots)
    BY DEF PoliciesInv
  <2>2. /\ Len(chain[q]) \in Nat /\ DOMAIN chain[q] = 1..Len(chain[q])
        /\ Len(chain'[q]) \in Nat /\ DOMAIN chain'[q] = 1..Len(chain'[q])
    BY <2>1, LenProperties
  <2>3. 2 \in DOMAIN chain[q]
    BY <2>2
  <2>4. 2 \in DOMAIN chain'[q] /\ chain'[q][2] = chain[q][2]
    BY <2>3
  <2>5. 2 \in 1..Len(chain'[q])
    BY <2>2, <2>4
  <2> QED
    BY <2>2, <2>4, <2>5
<1>3. Kept
  BY <1>2 DEF Kept, RequestIsSound, Eligible, Active
<1> QED
  BY <1>1, <1>3

---------------------------------------------------------------------------
\* The steps.

LEMMA ActiveChains ==
  ASSUME PoliciesInv, NEW p \in Policies, state[p] # "none"
  PROVE  /\ Latest(p) \in Snapshots /\ SnapshotIsSound(Latest(p))
         /\ Latest(p) = chain[p][Len(chain[p])] /\ Len(chain[p]) \in DOMAIN chain[p]
         /\ Latest(p) \in ToSet(chain[p])
         /\ Len(chain[p]) \in Nat \ {0} /\ DOMAIN chain[p] = 1..Len(chain[p])
<1>1. chain[p] \in Seq(Snapshots) /\ chain[p] # <<>> /\ ChainIsSound(chain[p], state[p])
  BY DEF PoliciesInv, ChainIsSound
<1>2. /\ Latest(p) = chain[p][Len(chain[p])] /\ Len(chain[p]) \in Nat \ {0}
      /\ DOMAIN chain[p] = 1..Len(chain[p])
  BY <1>1, EmptySeq, LenProperties DEF Latest, Last
<1>3. Len(chain[p]) \in DOMAIN chain[p]
  BY <1>2
<1> QED
  BY <1>1, <1>2, <1>3 DEF ChainIsSound, SnapshotIsSound, ToSet

LEMMA HappenStep == ASSUME MonitorInv, NEW u \in Units, Happen(u) PROVE MonitorInv'
<1>1. UNCHANGED <<policyVars, arrived, intents, run, request>> /\ UNCHANGED chain
  BY DEF Happen, policyVars
<1>2. PICK h : h = Append(happened, u)
  OBVIOUS
<1>3. happened \in Seq(Units) /\ IsInjective(happened) /\ u \notin ToSet(happened) /\ happened' = h
  BY <1>2 DEF Happen, MonitorInv, EvidenceInv
<1>4. /\ h \in Seq(Units) /\ Len(h) = Len(happened) + 1 /\ Len(happened) \in Nat
      /\ DOMAIN h = 1..Len(h) /\ DOMAIN happened = 1..Len(happened)
      /\ \A k \in 1..Len(happened) : h[k] = happened[k]
      /\ h[Len(happened) + 1] = u
  <2>1. /\ h \in Seq(Units) /\ Len(h) = Len(happened) + 1
        /\ \A k \in 1..Len(happened) : h[k] = happened[k]
        /\ h[Len(happened) + 1] = u
    BY <1>2, <1>3, AppendProperties
  <2> QED
    BY <2>1, <1>3, LenProperties
<1>5. IsInjective(h)
  <2>1. \A k \in 1..Len(happened) : h[k] # u
    BY <1>3, <1>4 DEF ToSet
  <2>2. \A k \in 1..Len(h) : k = Len(happened) + 1 \/ k \in 1..Len(happened)
    BY <1>4
  <2> QED
    BY <1>3, <1>4, <2>1, <2>2 DEF IsInjective
<1>6. ToSet(happened) \subseteq ToSet(h)
  BY <1>4 DEF ToSet
<1>7. EvidenceInv'
  BY <1>1, <1>3, <1>4, <1>5, <1>6 DEF EvidenceInv, MonitorInv, ToSet
<1> QED
  BY <1>1, <1>7, PoliciesUnchanged, IntentsUnchanged, RunsUnchanged, RequestsKept, KeptUnchanged DEF MonitorInv

LEMMA ArriveStep == ASSUME MonitorInv, NEW u \in Units, Arrive(u) PROVE MonitorInv'
<1>1. UNCHANGED <<policyVars, happened, intents, run, request>> /\ UNCHANGED chain
  BY DEF Arrive, policyVars
<1>2. EvidenceInv'
  BY <1>1 DEF Arrive, EvidenceInv, MonitorInv, ToSet
<1> QED
  BY <1>1, <1>2, PoliciesUnchanged, IntentsUnchanged, RunsUnchanged, RequestsKept, KeptUnchanged DEF MonitorInv

LEMMA PreviewStep == ASSUME MonitorInv, NEW p \in Policies, Preview(p) PROVE MonitorInv'
<1>1. /\ PoliciesInv /\ state[p] = "none" /\ state' = [state EXCEPT ![p] = "candidate"]
      /\ chain' = [chain EXCEPT ![p] = <<Historical>>]
      /\ UNCHANGED <<evidenceVars, intents, run, request>>
  BY DEF MonitorInv, Preview
<1>2. SnapshotIsSound(Historical) /\ Historical \in Snapshots
  BY PreparedSucceeds DEF MonitorInv, SnapshotIsSound
<1>3. PICK c : c = <<Historical>>
  OBVIOUS
<1>4. c \in Seq(Snapshots) /\ Len(c) = 1 /\ DOMAIN c = {1} /\ c[1] = Historical /\ c # <<>>
  BY <1>2, <1>3
<1>5. IsInjective(c) /\ 2..Len(c) = {}
  BY <1>4 DEF IsInjective
<1>6. ChainIsSound(c, "candidate")
  BY <1>2, <1>4, <1>5 DEF ChainIsSound
<1>7. /\ state' \in [Policies -> PolicyStates] /\ chain' \in [Policies -> Seq(Snapshots)]
      /\ state'[p] = "candidate" /\ chain'[p] = c
      /\ \A q \in Policies : q # p => state'[q] = state[q] /\ chain'[q] = chain[q]
  BY <1>1, <1>3, <1>4 DEF PoliciesInv, PolicyStates
<1>8. PoliciesInv'
  <2>1. ASSUME NEW q \in Policies PROVE ChainIsSound(chain'[q], state'[q])
    <3>1. CASE q = p
      BY <1>6, <1>7, <3>1
    <3>2. CASE q # p
      <4>1. chain'[q] = chain[q] /\ state'[q] = state[q]
        BY <1>7, <3>2
      <4> QED
        BY <1>1, <4>1 DEF PoliciesInv
    <3> QED
      BY <3>1, <3>2
  <2>2. \A q, r \in Policies : state'[q] = "active" /\ state'[r] = "active" => q = r
    BY <1>7 DEF PoliciesInv, MonitorInv
  <2> QED
    BY <1>7, <2>1, <2>2 DEF PoliciesInv
<1>9. chain[p] = <<>>
  BY <1>1 DEF PoliciesInv, ChainIsSound
<1>10. IntentsInv'
  <2>1. \A q \in Policies : ToSet(chain[q]) \subseteq ToSet(chain'[q])
    BY <1>7, <1>9 DEF ToSet
  <2> QED
    BY <1>1, <2>1 DEF IntentsInv, MonitorInv
<1>11. Kept
  <2>1. ASSUME NEW h, RequestIsSound(h) PROVE RequestIsSound(h)'
    <3>1. h.pc \in {"check", "prepare", "reread", "activate"} => Eligible(h.policy, h.expected)'
      <4> SUFFICES ASSUME h.pc \in {"check", "prepare", "reread", "activate"}
                   PROVE  Eligible(h.policy, h.expected)'
        OBVIOUS
      <4>1. Eligible(h.policy, h.expected) /\ h.policy # p
        BY <1>1, <2>1 DEF RequestIsSound, Eligible
      <4>2. h.expected \in Policies \cup {NoPolicy}
        BY <2>1 DEF RequestIsSound, RequestStates
      <4>3. state'[h.policy] = state[h.policy] /\ (h.expected # NoPolicy => state'[h.expected] = state[h.expected])
        BY <1>1, <1>7, <4>1, <4>2 DEF Eligible
      <4>4. Active # {} => Active' # {}
        BY <1>1, <1>7 DEF Active
      <4> QED
        BY <4>1, <4>3, <4>4 DEF Eligible
    <3>2. h.pc \in {"activate", "answered"} =>
            h.policy \in Policies /\ Len(chain'[h.policy]) >= 2 /\ chain'[h.policy][2] = h.prepared
      <4> SUFFICES ASSUME h.pc \in {"activate", "answered"}
                   PROVE  h.policy \in Policies /\ Len(chain'[h.policy]) >= 2 /\ chain'[h.policy][2] = h.prepared
        OBVIOUS
      <4>1. h.policy \in Policies /\ Len(chain[h.policy]) >= 2 /\ chain[h.policy][2] = h.prepared
        BY <2>1 DEF RequestIsSound
      <4>2. Len(chain[p]) = 0
        BY <1>9
      <4>3. h.policy # p
        BY <4>1, <4>2
      <4> QED
        BY <4>1, <4>3, <1>7
    <3> QED
      BY <3>1, <3>2, <2>1 DEF RequestIsSound
  <2> QED
    BY <2>1 DEF Kept
<1> QED
  BY <1>1, <1>8, <1>10, <1>11, EvidenceUnchanged, RunsUnchanged, RequestsKept DEF MonitorInv

LEMMA CompareStep == ASSUME MonitorInv, NEW r \in Runs, Compare(r) PROVE MonitorInv'
<1>1. UNCHANGED <<policyVars, evidenceVars, intents, request>> /\ UNCHANGED chain
  BY DEF Compare, policyVars
<1>2. PICK p \in Active :
        run' = [run EXCEPT ![r] = [pc |-> "save", policy |-> p, before |-> Latest(p),
                                   after |-> Plan(Latest(p))]]
  BY DEF Compare
<1>3. p \in Policies /\ state[p] # "none"
  BY DEF Active
<1>4. PICK old : old = Latest(p) /\ SnapshotIsSound(old)
  BY <1>3, ActiveChains DEF MonitorInv
<1>5. PICK new : new = Plan(old)
  OBVIOUS
<1>6. Succession(old, new) /\ new.start = old.start
  BY <1>4, <1>5, PlanSucceeds DEF MonitorInv
<1>7. PICK h : h = [pc |-> "save", policy |-> p, before |-> old, after |-> new]
  OBVIOUS
<1>8. RunIsSound(h) /\ h.pc = "save"
  BY <1>3, <1>4, <1>6, <1>7 DEF RunIsSound, RunStates, Succession, SnapshotIsSound
<1>9. run' = [run EXCEPT ![r] = h]
  BY <1>2, <1>4, <1>5, <1>7
<1>10. RunsInv'
  BY <1>1, <1>8, <1>9, RunStep DEF MonitorInv
<1> QED
  BY <1>1, <1>10, PoliciesUnchanged, EvidenceUnchanged, IntentsUnchanged, RequestsKept, KeptUnchanged DEF MonitorInv

LEMMA SaveStep == ASSUME MonitorInv, NEW r \in Runs, Save(r) PROVE MonitorInv'
<1>1. PICK old : old = run[r] /\ old \in RunStates /\ RunIsSound(old) /\ old.pc = "save"
  BY DEF Save, MonitorInv, RunsInv
<1>2. /\ old.policy \in Policies /\ Succession(old.before, old.after)
      /\ old.after.start = old.before.start
  BY <1>1 DEF RunIsSound
<1>3. UNCHANGED <<state, evidenceVars, request>>
  BY DEF Save
<1>4. CASE Succeeds(old.policy, "active", old.before)
  <2>1. PICK s : s = old.after
    OBVIOUS
  <2>2. PICK h : h = [old EXCEPT !.pc = "done"]
    OBVIOUS
  <2>3. /\ h.pc = "done" /\ h.policy = old.policy /\ h.after = s /\ RunIsSound(h)
    BY <1>1, <1>2, <2>1, <2>2 DEF RunIsSound, RunStates
  <2>4. /\ Stored(old.policy, s)
        /\ intents' = IF r = Worker /\ IsAlert(s) THEN intents \cup {<<old.policy, s>>} ELSE intents
        /\ run' = [run EXCEPT ![r] = h]
    BY <1>1, <1>4, <2>1, <2>2 DEF Save
  <2>5. state[old.policy] = "active" /\ Latest(old.policy) = old.before
    BY <1>4 DEF Succeeds
  <2>6. /\ PoliciesInv' /\ s \in ToSet(chain'[old.policy])
        /\ \A q \in Policies : \A k \in DOMAIN chain[q] :
             k \in DOMAIN chain'[q] /\ chain'[q][k] = chain[q][k]
    BY <1>2, <1>3, <2>1, <2>4, <2>5, StoredStep DEF MonitorInv
  <2>7. Kept /\ \A q \in Policies : ToSet(chain[q]) \subseteq ToSet(chain'[q])
    BY <1>3, <2>6, KeptByGrowth DEF MonitorInv
  <2>8. IntentsInv'
    <3> SUFFICES ASSUME NEW i \in intents'
                 PROVE  i[1] \in Policies /\ i[2] \in ToSet(chain'[i[1]])
      BY DEF IntentsInv, ToSet
    <3>1. CASE i \in intents
      BY <2>7, <3>1 DEF IntentsInv, MonitorInv
    <3>2. CASE i = <<old.policy, s>>
      BY <1>2, <2>6, <3>2
    <3> QED
      BY <2>4, <3>1, <3>2
  <2>9. RunsInv'
    BY <2>3, <2>4, RunStep DEF MonitorInv
  <2> QED
    BY <1>3, <2>6, <2>7, <2>8, <2>9, EvidenceUnchanged, RequestsKept DEF MonitorInv
<1>5. CASE ~Succeeds(old.policy, "active", old.before)
  <2>1. PICK h : h = [old EXCEPT !.pc = "lost"]
    OBVIOUS
  <2>2. h.pc = "lost" /\ RunIsSound(h)
    BY <1>1, <1>2, <2>1 DEF RunIsSound, RunStates
  <2>3. run' = [run EXCEPT ![r] = h] /\ UNCHANGED <<chain, intents>> /\ UNCHANGED policyVars
    BY <1>1, <1>3, <1>5, <2>1 DEF Save, policyVars
  <2>4. RunsInv'
    BY <2>2, <2>3, RunStep DEF MonitorInv
  <2> QED
    BY <1>3, <2>3, <2>4, PoliciesUnchanged, EvidenceUnchanged, IntentsUnchanged, RequestsKept, KeptUnchanged
       DEF MonitorInv
<1> QED
  BY <1>4, <1>5

LEMMA IdleIsSound == ASSUME EvidenceInv PROVE RunIsSound(IdleRun) /\ IdleRun.pc = "idle"
<1>1. Historical \in Snapshots
  BY PreparedSucceeds DEF SnapshotIsSound
<1> QED
  BY <1>1 DEF RunIsSound, IdleRun, RunStates

\* A run that becomes idle, or ends with what needs no notice.
LEMMA QuietStep ==
  ASSUME MonitorInv, NEW r \in Runs, NEW h, RunIsSound(h), run' = [run EXCEPT ![r] = h],
         r = Worker /\ h.pc = "done" => ~IsAlert(h.after),
         UNCHANGED <<policyVars, evidenceVars, intents, request>>
  PROVE  MonitorInv'
<1>1. RunsInv' /\ UNCHANGED chain
  BY RunStep DEF MonitorInv, policyVars
<1> QED
  BY <1>1, PoliciesUnchanged, EvidenceUnchanged, IntentsUnchanged, RequestsKept, KeptUnchanged DEF MonitorInv

LEMMA YieldStep == ASSUME MonitorInv, NEW r \in Runs, Yield(r) PROVE MonitorInv'
<1>1. PICK old : old = run[r] /\ old \in RunStates /\ RunIsSound(old) /\ old.pc = "lost"
  BY DEF Yield, MonitorInv, RunsInv
<1>2. UNCHANGED <<policyVars, evidenceVars, intents, request>>
  BY DEF Yield
<1>3. PICK p : p = old.policy /\ p \in Policies
  BY <1>1 DEF RunIsSound
<1>4. PICK winner : winner = Latest(p)
  OBVIOUS
<1>5. CASE state[p] # "active" \/ winner = old.before
  <2>1. run' = [run EXCEPT ![r] = IdleRun]
    BY <1>1, <1>3, <1>4, <1>5 DEF Yield
  <2> QED
    BY <1>2, <2>1, IdleIsSound, QuietStep DEF MonitorInv
<1>6. CASE ~(state[p] # "active" \/ winner = old.before)
  <2>1. winner \in Snapshots
    BY <1>3, <1>4, <1>6, ActiveChains DEF MonitorInv
  <2>2. PICK pc : pc = IF r = Worker /\ IsAlert(winner) THEN "attach" ELSE "done"
    OBVIOUS
  <2>3. PICK h : h = [old EXCEPT !.after = winner, !.pc = pc]
    OBVIOUS
  <2>4. run' = [run EXCEPT ![r] = h]
    <3>1. run' = [run EXCEPT ![r].after = winner, ![r].pc = pc]
      BY <1>1, <1>3, <1>4, <1>6, <2>2 DEF Yield
    <3> QED
      BY <3>1, <1>1, <2>3 DEF MonitorInv, RunsInv
  <2>5. pc \in {"attach", "done"} /\ (r = Worker /\ pc = "done" => ~IsAlert(winner))
    BY <2>2
  <2>6. h.pc = pc /\ h.after = winner /\ RunIsSound(h)
    BY <1>1, <1>3, <2>1, <2>3, <2>5 DEF RunIsSound, RunStates
  <2> QED
    BY <1>2, <2>4, <2>5, <2>6, QuietStep
<1> QED
  BY <1>5, <1>6

LEMMA AttachStep == ASSUME MonitorInv, NEW r \in Runs, Attach(r) PROVE MonitorInv'
<1>1. PICK old : old = run[r] /\ old \in RunStates /\ RunIsSound(old) /\ old.pc = "attach"
  BY DEF Attach, MonitorInv, RunsInv
<1>2. UNCHANGED <<policyVars, evidenceVars, request>> /\ UNCHANGED chain
  BY DEF Attach, policyVars
<1>3. PICK p, s : p = old.policy /\ p \in Policies /\ s = old.after
  BY <1>1 DEF RunIsSound
<1>4. CASE Succeeds(p, "active", s)
  <2>1. PICK h : h = [old EXCEPT !.pc = "done"]
    OBVIOUS
  <2>2. intents' = intents \cup {<<p, s>>} /\ run' = [run EXCEPT ![r] = h]
    BY <1>1, <1>3, <1>4, <2>1 DEF Attach
  <2>3. h.pc = "done" /\ h.policy = p /\ h.after = s /\ RunIsSound(h)
    BY <1>1, <1>3, <2>1 DEF RunIsSound, RunStates
  <2>4. s \in ToSet(chain[p])
    BY <1>3, <1>4, ActiveChains DEF Succeeds, MonitorInv
  <2>5. IntentsInv'
    BY <1>2, <1>3, <2>2, <2>4 DEF IntentsInv, MonitorInv, ToSet
  <2>6. RunsInv'
    BY <2>2, <2>3, RunStep DEF MonitorInv
  <2> QED
    BY <1>2, <2>5, <2>6, PoliciesUnchanged, EvidenceUnchanged, RequestsKept, KeptUnchanged DEF MonitorInv
<1>5. CASE ~Succeeds(p, "active", s)
  <2>1. run' = [run EXCEPT ![r] = IdleRun] /\ UNCHANGED intents
    BY <1>1, <1>3, <1>5 DEF Attach
  <2> QED
    BY <1>2, <2>1, IdleIsSound, QuietStep DEF MonitorInv
<1> QED
  BY <1>4, <1>5

LEMMA AdvanceStep == ASSUME MonitorInv, NEW r \in Runs, Advance(r) PROVE MonitorInv'
<1>1. CASE EndRun(r)
  BY <1>1, IdleIsSound, QuietStep DEF EndRun, MonitorInv
<1> QED
  BY <1>1, CompareStep, SaveStep, YieldStep, AttachStep DEF Advance

---------------------------------------------------------------------------
\* The activations.

LEMMA OverStep ==
  ASSUME MonitorInv, NEW a \in Requests, request' = Over(a), Kept
  PROVE  RequestsInv'
<1>1. Historical \in Snapshots
  BY PreparedSucceeds DEF SnapshotIsSound, MonitorInv
<1>2. PICK h : h = [NoRequest EXCEPT !.pc = "over"]
  OBVIOUS
<1>3. h \in RequestStates /\ h.pc = "over"
  BY <1>1, <1>2 DEF NoRequest, RequestStates
<1>4. RequestIsSound(h)'
  BY <1>3 DEF RequestIsSound
<1>5. request' = [request EXCEPT ![a] = h]
  BY <1>2 DEF Over
<1> QED
  BY <1>4, <1>5, RequestStep DEF MonitorInv

\* A step of a request that changes nothing else.
LEMMA RequestOnly ==
  ASSUME MonitorInv, UNCHANGED <<policyVars, evidenceVars, intents, run>>, NEW a \in Requests,
         \/ request' = Over(a)
         \/ \E h : RequestIsSound(h) /\ request' = [request EXCEPT ![a] = h]
  PROVE  MonitorInv'
<1>1. Kept /\ UNCHANGED chain
  BY KeptUnchanged DEF policyVars
<1>2. CASE request' = Over(a)
  BY <1>1, <1>2, OverStep, PoliciesUnchanged, EvidenceUnchanged, IntentsUnchanged, RunsUnchanged DEF MonitorInv
<1>3. ASSUME NEW h, RequestIsSound(h), request' = [request EXCEPT ![a] = h]
      PROVE  MonitorInv'
  <2>1. RequestIsSound(h)'
    BY <1>1, <1>3 DEF Kept
  <2> QED
    BY <1>1, <1>3, <2>1, RequestStep, PoliciesUnchanged, EvidenceUnchanged, IntentsUnchanged, RunsUnchanged
       DEF MonitorInv
<1> QED
  BY <1>2, <1>3

LEMMA AskedStep == ASSUME MonitorInv, NEW a \in Requests, ActivationAsked(a) PROVE MonitorInv'
<1>1. UNCHANGED <<policyVars, evidenceVars, intents, run>>
  BY DEF ActivationAsked
<1>2. PICK p \in Policies, e \in IF Active = {} THEN {NoPolicy} ELSE Active :
        /\ state[p] = "candidate"
        /\ request' = [request EXCEPT ![a] = [NoRequest EXCEPT !.pc = "check", !.policy = p,
                                                               !.expected = e]]
  BY DEF ActivationAsked
<1>3. PICK h : h = [NoRequest EXCEPT !.pc = "check", !.policy = p, !.expected = e]
  OBVIOUS
<1>4. Historical \in Snapshots
  BY PreparedSucceeds DEF SnapshotIsSound, MonitorInv
<1>5. e \in Policies \cup {NoPolicy} /\ (e # NoPolicy => state[e] = "active")
  BY DEF Active
<1>6. h \in RequestStates /\ h.pc = "check" /\ h.policy = p /\ h.expected = e
  BY <1>3, <1>4, <1>5 DEF NoRequest, RequestStates
<1>7. Eligible(p, e)
  BY <1>2, <1>5 DEF Eligible
<1>8. RequestIsSound(h)
  BY <1>6, <1>7 DEF RequestIsSound
<1> QED
  BY <1>1, <1>2, <1>3, <1>8, RequestOnly

\* A candidate is either not prepared, or it is by its second snapshot.
LEMMA PreparedChains ==
  ASSUME PoliciesInv, NEW p \in Policies, state[p] # "none"
  PROVE  /\ Latest(p) = Historical => Len(chain[p]) = 1
         /\ state[p] = "candidate" /\ Latest(p) # Historical => Len(chain[p]) = 2
         /\ IsPrepared(Latest(p)) => Len(chain[p]) >= 2 /\ chain[p][2] = Latest(p)
<1>1. PICK c : c = chain[p] /\ ChainIsSound(c, state[p]) /\ c \in Seq(Snapshots)
  BY DEF PoliciesInv
<1>2. PICK n \in Nat \ {0} : /\ n = Len(c) /\ DOMAIN c = 1..n /\ c[n] = Latest(p)
                             /\ Latest(p) \in Snapshots
  BY <1>1, ActiveChains
<1>3. c[1] = Historical /\ c # <<>>
  BY <1>1, <1>2 DEF ChainIsSound
<1>3a. IsInjective(c) /\ 1 \in DOMAIN c /\ n \in DOMAIN c
  BY <1>1, <1>2 DEF ChainIsSound
<1>4. Latest(p) = Historical => n = 1
  <2>1. \A j, k \in DOMAIN c : c[j] = c[k] => j = k
    BY <1>3a DEF IsInjective
  <2> QED
    BY <1>2, <1>3, <1>3a, <2>1
<1>5. state[p] = "candidate" /\ Latest(p) # Historical => n = 2
  <2>1. state[p] = "candidate" => n <= 2
    BY <1>1, <1>2 DEF ChainIsSound
  <2>2. n = 1 => Latest(p) = Historical
    BY <1>2, <1>3
  <2> QED
    BY <1>2, <2>1, <2>2
<1>6. ASSUME IsPrepared(Latest(p)), n > 2 PROVE FALSE
  <2>1. n \in 2..n /\ n - 1 \in 2..n /\ n - 1 \in DOMAIN c /\ n - 1 # n
    BY <1>2, <1>6
  <2>2. PICK new, old : new = c[n] /\ old = c[n - 1]
    OBVIOUS
  <2>3. Succession(old, new) /\ new.start = c[2].start
    BY <1>1, <1>2, <2>1, <2>2 DEF ChainIsSound
  <2>4. old.index >= 1 /\ old.start = c[2].start /\ old \in Snapshots /\ old.index \in Nat
    BY <1>1, <1>2, <2>1, <2>2 DEF ChainIsSound, Succession, SnapshotIsSound, Snapshots
  <2>5. new.index = 1 /\ new.current = {} /\ new \in Snapshots
    BY <1>2, <1>6, <2>2 DEF IsPrepared
  <2>6. IsOpen(old) /\ old.index = 1
    BY <2>3, <2>4, <2>5 DEF Succession
  <2>7. old.current = {} /\ new.consumed = old.consumed
    BY <2>3, <2>5, <2>6 DEF Succession
  <2>8. old = new
    BY <2>3, <2>4, <2>5, <2>6, <2>7 DEF Snapshots
  <2>9. \A j, k \in DOMAIN c : c[j] = c[k] => j = k
    BY <1>3a DEF IsInjective
  <2> QED
    BY <1>3a, <2>1, <2>2, <2>8, <2>9
<1>7. IsPrepared(Latest(p)) => n # 1
  BY <1>2, <1>3 DEF IsPrepared, Historical
<1>8. IsPrepared(Latest(p)) => n = 2
  BY <1>2, <1>6, <1>7
<1>9. n = Len(chain[p]) /\ Latest(p) = chain[p][n]
  BY <1>1, <1>2
<1> QED
  BY <1>4, <1>5, <1>8, <1>9

LEMMA CheckStep == ASSUME MonitorInv, NEW a \in Requests, Check(a) PROVE MonitorInv'
<1>1. PICK old : old = request[a] /\ old \in RequestStates /\ RequestIsSound(old) /\ old.pc = "check"
  BY DEF Check, MonitorInv, RequestsInv
<1>2. UNCHANGED <<policyVars, evidenceVars, intents, run>>
  BY DEF Check
<1>3. PICK p : p = old.policy /\ p \in Policies /\ Eligible(p, old.expected) /\ state[p] # "none"
  BY <1>1 DEF RequestIsSound, Eligible
<1>4. PICK head : head = Latest(p) /\ head \in Snapshots
  BY <1>3, ActiveChains DEF MonitorInv
<1>5. CASE state[p] # "candidate"
  <2>1. request' = Over(a)
    BY <1>1, <1>3, <1>5 DEF Check
  <2> QED
    BY <1>2, <2>1, RequestOnly
<1>6. CASE state[p] = "candidate" /\ head = Historical
  <2>1. PICK h : h = [old EXCEPT !.pc = "prepare", !.prepared = PlanFromNow]
    OBVIOUS
  <2>2. request' = [request EXCEPT ![a] = h]
    <3>1. request' = [request EXCEPT ![a].pc = "prepare", ![a].prepared = PlanFromNow]
      BY <1>1, <1>3, <1>4, <1>6 DEF Check
    <3> QED
      BY <3>1, <1>1, <2>1 DEF MonitorInv, RequestsInv
  <2>3. PICK new : new = PlanFromNow /\ Succession(Historical, new) /\ new.index = 1
    BY PreparedSucceeds DEF MonitorInv
  <2>4. new \in Snapshots
    BY <2>3 DEF Succession, SnapshotIsSound
  <2>5. /\ h \in RequestStates /\ h.pc = "prepare" /\ h.policy = p
        /\ h.expected = old.expected /\ h.prepared = new
    BY <1>1, <1>3, <2>1, <2>3, <2>4 DEF RequestStates
  <2>6. RequestIsSound(h)
    BY <1>3, <2>3, <2>5 DEF RequestIsSound
  <2> QED
    BY <1>2, <2>2, <2>6, RequestOnly
<1>7. CASE state[p] = "candidate" /\ head # Historical
  <2>1. PICK h : h = [old EXCEPT !.pc = "activate", !.prepared = head]
    OBVIOUS
  <2>2. request' = [request EXCEPT ![a] = h]
    <3>1. request' = [request EXCEPT ![a].pc = "activate", ![a].prepared = head]
      BY <1>1, <1>3, <1>4, <1>7 DEF Check
    <3> QED
      BY <3>1, <1>1, <2>1 DEF MonitorInv, RequestsInv
  <2>3. /\ h \in RequestStates /\ h.pc = "activate" /\ h.policy = p
        /\ h.expected = old.expected /\ h.prepared = head
    BY <1>1, <1>3, <1>4, <2>1 DEF RequestStates
  <2>4. Len(chain[p]) = 2 /\ chain[p][2] = head
    BY <1>3, <1>4, <1>7, PreparedChains, ActiveChains DEF MonitorInv
  <2>5. RequestIsSound(h)
    BY <1>3, <2>3, <2>4 DEF RequestIsSound
  <2> QED
    BY <1>2, <2>2, <2>5, RequestOnly
<1> QED
  BY <1>5, <1>6, <1>7

LEMMA RereadStep == ASSUME MonitorInv, NEW a \in Requests, Reread(a) PROVE MonitorInv'
<1>1. PICK old : old = request[a] /\ old \in RequestStates /\ RequestIsSound(old) /\ old.pc = "reread"
  BY DEF Reread, MonitorInv, RequestsInv
<1>2. UNCHANGED <<policyVars, evidenceVars, intents, run>>
  BY DEF Reread
<1>3. PICK p : p = old.policy /\ p \in Policies /\ Eligible(p, old.expected) /\ state[p] # "none"
  BY <1>1 DEF RequestIsSound, Eligible
<1>4. PICK head : head = Latest(p) /\ head \in Snapshots
  BY <1>3, ActiveChains DEF MonitorInv
<1>5. CASE ~IsPrepared(head)
  <2>1. request' = Over(a)
    BY <1>1, <1>3, <1>4, <1>5 DEF Reread
  <2> QED
    BY <1>2, <2>1, RequestOnly
<1>6. CASE IsPrepared(head)
  <2>1. PICK h : h = [old EXCEPT !.pc = "activate", !.prepared = head]
    OBVIOUS
  <2>2. request' = [request EXCEPT ![a] = h]
    <3>1. request' = [request EXCEPT ![a].pc = "activate", ![a].prepared = head]
      BY <1>1, <1>3, <1>4, <1>6 DEF Reread
    <3> QED
      BY <3>1, <1>1, <2>1 DEF MonitorInv, RequestsInv
  <2>3. /\ h \in RequestStates /\ h.pc = "activate" /\ h.policy = p
        /\ h.expected = old.expected /\ h.prepared = head
    BY <1>1, <1>3, <1>4, <2>1 DEF RequestStates
  <2>4. Len(chain[p]) >= 2 /\ chain[p][2] = head
    BY <1>3, <1>4, <1>6, PreparedChains DEF MonitorInv
  <2>5. RequestIsSound(h)
    BY <1>3, <2>3, <2>4 DEF RequestIsSound
  <2> QED
    BY <1>2, <2>2, <2>5, RequestOnly
<1> QED
  BY <1>5, <1>6

LEMMA PrepareStep == ASSUME MonitorInv, NEW a \in Requests, Prepare(a) PROVE MonitorInv'
<1>1. PICK old : old = request[a] /\ old \in RequestStates /\ RequestIsSound(old) /\ old.pc = "prepare"
  BY DEF Prepare, MonitorInv, RequestsInv
<1>2. UNCHANGED <<state, evidenceVars, intents, run>>
  BY DEF Prepare
<1>3. PICK p : p = old.policy /\ p \in Policies /\ Eligible(p, old.expected) /\ state[p] # "none"
  BY <1>1 DEF RequestIsSound, Eligible
<1>4. PICK s : s = old.prepared /\ Succession(Historical, s) /\ s.index = 1
  BY <1>1 DEF RequestIsSound
<1>5. CASE Succeeds(p, "candidate", Historical)
  <2>1. PICK h : h = [old EXCEPT !.pc = "activate"]
    OBVIOUS
  <2>2. Stored(p, s) /\ request' = [request EXCEPT ![a] = h]
    BY <1>1, <1>3, <1>4, <1>5, <2>1 DEF Prepare
  <2>3. state[p] = "candidate" /\ Latest(p) = Historical /\ Len(chain[p]) = 1
    BY <1>3, <1>5, PreparedChains DEF Succeeds, MonitorInv
  <2>4. /\ PoliciesInv' /\ s \in ToSet(chain'[p])
        /\ \A q \in Policies : \A k \in DOMAIN chain[q] :
             k \in DOMAIN chain'[q] /\ chain'[q][k] = chain[q][k]
    <3>1. PoliciesInv /\ Succession(Latest(p), s) /\ UNCHANGED state
      BY <1>2, <1>4, <2>3 DEF MonitorInv
    <3>2. /\ state[p] \in {"candidate", "active"} /\ (state[p] = "candidate" => Len(chain[p]) = 1)
          /\ Len(chain[p]) >= 2 => s.start = Latest(p).start
      BY <2>3
    <3>3. p \in Policies /\ Stored(p, s)
      BY <1>3, <2>2
    <3> QED
      BY <3>1, <3>2, <3>3, StoredStep
  <2>5. Kept /\ \A q \in Policies : ToSet(chain[q]) \subseteq ToSet(chain'[q])
    BY <1>2, <2>4, KeptByGrowth DEF MonitorInv
  <2>6. Len(chain'[p]) = 2 /\ chain'[p][2] = s
    <3>1. PICK c : c = chain'[p] /\ ChainIsSound(c, "candidate") /\ c \in Seq(Snapshots)
      BY <1>2, <1>3, <2>3, <2>4 DEF PoliciesInv
    <3>2. DOMAIN c = 1..Len(c) /\ Len(c) \in Nat /\ Len(c) <= 2
      BY <3>1, LenProperties DEF ChainIsSound
    <3>3. PICK k \in DOMAIN c : c[k] = s
      BY <2>4, <3>1 DEF ToSet
    <3>4. c # <<>>
      BY <3>2, <3>3, EmptySeq
    <3>5. c[1] = Historical /\ s # Historical
      BY <1>4, <3>1, <3>4 DEF ChainIsSound, Historical
    <3>6. k \in 1..Len(c) /\ k # 1
      BY <3>2, <3>3, <3>5
    <3>7. Len(c) = 2 /\ k = 2
      BY <3>2, <3>6
    <3> QED
      BY <3>1, <3>3, <3>7
  <2>7. /\ h \in RequestStates /\ h.pc = "activate" /\ h.policy = p
        /\ h.expected = old.expected /\ h.prepared = s
    BY <1>1, <1>3, <1>4, <2>1 DEF RequestStates
  <2>8. Eligible(p, old.expected)'
    BY <1>2, <1>3 DEF Eligible, Active
  <2>9. RequestIsSound(h)'
    <3>1. Len(chain'[p]) >= 2
      BY <2>6
    <3> QED
      BY <1>3, <2>6, <2>7, <2>8, <3>1 DEF RequestIsSound
  <2>10. RequestsInv'
    BY <2>2, <2>5, <2>9, RequestStep DEF MonitorInv
  <2>11. IntentsInv'
    BY <1>2, <2>5 DEF IntentsInv, MonitorInv
  <2> QED
    BY <1>2, <2>4, <2>10, <2>11, EvidenceUnchanged, RunsUnchanged DEF MonitorInv
<1>6. CASE ~Succeeds(p, "candidate", Historical)
  <2>1. PICK h : h = [old EXCEPT !.pc = "reread"]
    OBVIOUS
  <2>2. request' = [request EXCEPT ![a] = h] /\ UNCHANGED policyVars
    BY <1>1, <1>2, <1>3, <1>6, <2>1 DEF Prepare, policyVars
  <2>3. h \in RequestStates /\ h.pc = "reread" /\ h.policy = p /\ h.expected = old.expected
    BY <1>1, <1>3, <2>1 DEF RequestStates
  <2>4. RequestIsSound(h)
    BY <1>3, <2>3 DEF RequestIsSound
  <2> QED
    BY <1>2, <2>2, <2>4, RequestOnly
<1> QED
  BY <1>5, <1>6

\* The activation of p retires every candidate and every active policy but p.
Activated(p) ==
  [q \in Policies |-> CASE q = p -> "active"
                        [] q # p /\ state[q] \in {"active", "candidate"} -> "retired"
                        [] OTHER -> state[q]]

LEMMA ActivatedIs ==
  ASSUME PoliciesInv, NEW p \in Policies, state' = Activated(p)
  PROVE  /\ state' \in [Policies -> PolicyStates] /\ state'[p] = "active"
         /\ \A q \in Policies : q # p =>
              /\ state[q] \in {"active", "candidate"} => state'[q] = "retired"
              /\ state[q] \notin {"active", "candidate"} => state'[q] = state[q]
<1>1. \A q \in Policies : state[q] \in PolicyStates
  BY DEF PoliciesInv
<1>2. DOMAIN state' = Policies /\ state' = [q \in Policies |-> state'[q]] /\ state'[p] = "active"
  BY DEF Activated
<1>3. ASSUME NEW q \in Policies, q # p, state[q] \in {"active", "candidate"} PROVE state'[q] = "retired"
  BY <1>3 DEF Activated
<1>4. ASSUME NEW q \in Policies, q # p, state[q] \notin {"active", "candidate"} PROVE state'[q] = state[q]
  BY <1>4 DEF Activated
<1>5. \A q \in Policies : state'[q] \in PolicyStates
  BY <1>1, <1>2, <1>3, <1>4 DEF PolicyStates
<1> QED
  BY <1>2, <1>3, <1>4, <1>5

\* Whoever activates a policy has a candidate: an activation in between would have
\* replaced the active policy that the request expects.
LEMMA ActivatesCandidate ==
  ASSUME MonitorInv, NEW a \in Requests, request[a].pc = "activate",
         Active = {request[a].expected} \ {NoPolicy}
  PROVE  /\ request[a].policy \in Policies /\ state[request[a].policy] = "candidate"
         /\ \A q \in Active : q # request[a].policy
<1>1. PICK h : h = request[a] /\ h \in RequestStates /\ Eligible(h.policy, h.expected)
  BY DEF MonitorInv, RequestsInv, RequestIsSound
<1>2. CASE h.expected = NoPolicy
  BY <1>1, <1>2 DEF Eligible, Active
<1>3. CASE h.expected # NoPolicy
  <2>1. Active = {h.expected} /\ state[h.expected] = "active"
    BY <1>1, <1>3 DEF Active
  <2> QED
    BY <1>1, <1>3, <2>1 DEF Eligible
<1> QED
  BY <1>2, <1>3

LEMMA ActivateStep == ASSUME MonitorInv, NEW a \in Requests, Activate(a) PROVE MonitorInv'
<1>1. PICK old : old = request[a] /\ old \in RequestStates /\ RequestIsSound(old) /\ old.pc = "activate"
  BY DEF Activate, MonitorInv, RequestsInv
<1>2. UNCHANGED <<chain, evidenceVars, intents, run>>
  BY DEF Activate
<1>3. CASE Active # {old.expected} \ {NoPolicy}
  <2>1. request' = Over(a) /\ UNCHANGED policyVars
    BY <1>1, <1>2, <1>3 DEF Activate, policyVars
  <2> QED
    BY <1>2, <2>1, RequestOnly
<1>4. CASE Active = {old.expected} \ {NoPolicy}
  <2>1. PICK p : p = old.policy /\ p \in Policies /\ state[p] = "candidate"
    BY <1>1, <1>4, ActivatesCandidate
  <2>2. PICK h : h = [old EXCEPT !.pc = "answered"]
    OBVIOUS
  <2>3. state' = Activated(p) /\ request' = [request EXCEPT ![a] = h]
    BY <1>1, <1>4, <2>1, <2>2 DEF Activate, Activated
  <2>4. /\ state' \in [Policies -> PolicyStates] /\ state'[p] = "active"
        /\ \A q \in Policies : q # p =>
             /\ state[q] \in {"active", "candidate"} => state'[q] = "retired"
             /\ state[q] \notin {"active", "candidate"} => state'[q] = state[q]
    BY <2>1, <2>3, ActivatedIs DEF MonitorInv
  <2>5. \A q \in Policies : q # p => state'[q] # "active" /\ state'[q] # "candidate"
    BY <2>4
  <2>6. \A q \in Policies : state[q] = "none" <=> state'[q] = "none"
    BY <2>1, <2>4
  <2>7. PoliciesInv'
    <3>1. \A q, r \in Policies : state'[q] = "active" /\ state'[r] = "active" => q = r
      BY <2>5
    <3>2. ASSUME NEW q \in Policies PROVE ChainIsSound(chain'[q], state'[q])
      <4>1. ChainIsSound(chain[q], state[q]) /\ chain'[q] = chain[q]
        BY <1>2 DEF PoliciesInv, MonitorInv
      <4>2. state'[q] # "candidate" /\ (state[q] = "none" <=> state'[q] = "none")
        BY <2>4, <2>5, <2>6
      <4> QED
        BY <4>1, <4>2 DEF ChainIsSound
    <3> QED
      BY <1>2, <2>4, <3>1, <3>2 DEF PoliciesInv, MonitorInv
  <2>8. ASSUME NEW q \in Policies, NEW e \in Policies \cup {NoPolicy}, Eligible(q, e)
        PROVE  Eligible(q, e)'
    <3>1. state'[q] # "none"
      BY <2>6, <2>8 DEF Eligible
    <3>2. Active' # {}
      BY <2>1, <2>4 DEF Active
    <3>3. CASE e = NoPolicy
      BY <3>1, <3>2, <3>3 DEF Eligible
    <3>4. CASE e # NoPolicy
      <4>1. e \in Policies /\ state[e] \in {"active", "retired"} /\ e # p
        BY <2>1, <2>8, <3>4 DEF Eligible
      <4>2. state'[e] = "retired"
        BY <2>4, <4>1
      <4> QED
        BY <3>1, <3>4, <4>2 DEF Eligible
    <3> QED
      BY <3>3, <3>4
  <2>9. Kept
    <3>1. ASSUME NEW g, RequestIsSound(g) PROVE RequestIsSound(g)'
      <4>1. g.pc \in {"check", "prepare", "reread", "activate"} =>
              Eligible(g.policy, g.expected) /\ g.policy \in Policies /\ g.expected \in Policies \cup {NoPolicy}
        BY <3>1 DEF RequestIsSound, Eligible, RequestStates
      <4>2. g.pc \in {"check", "prepare", "reread", "activate"} => Eligible(g.policy, g.expected)'
        BY <2>8, <4>1
      <4> QED
        BY <1>2, <3>1, <4>2 DEF RequestIsSound
    <3> QED
      BY <3>1 DEF Kept
  <2>10. RequestIsSound(h)'
    <3>1. /\ h \in RequestStates /\ h.pc = "answered" /\ h.policy = p
          /\ h.prepared = old.prepared
      BY <1>1, <2>1, <2>2 DEF RequestStates
    <3>2. Len(chain[p]) >= 2 /\ chain[p][2] = old.prepared
      BY <1>1, <2>1 DEF RequestIsSound
    <3> QED
      BY <1>2, <2>1, <3>1, <3>2 DEF RequestIsSound
  <2>11. RequestsInv'
    BY <2>3, <2>9, <2>10, RequestStep DEF MonitorInv
  <2> QED
    BY <1>2, <2>7, <2>11, EvidenceUnchanged, IntentsUnchanged, RunsUnchanged DEF MonitorInv
<1> QED
  BY <1>3, <1>4

LEMMA ActivationStep == ASSUME MonitorInv, NEW a \in Requests, Activation(a) PROVE MonitorInv'
<1>1. CASE EndRequest(a)
  BY <1>1, RequestOnly DEF EndRequest
<1> QED
  BY <1>1, AskedStep, CheckStep, PrepareStep, RereadStep, ActivateStep DEF Activation

---------------------------------------------------------------------------
MonitorSpec == MonitorInit /\ [][MonitorNext]_monitorVars

LEMMA MonitorInitInv == MonitorInit => MonitorInv
<1> SUFFICES ASSUME MonitorInit PROVE MonitorInv
  OBVIOUS
<1>1. EvidenceInv
  BY DEF MonitorInit, EvidenceInv, IsInjective, ToSet
<1>2. RunIsSound(IdleRun) /\ IdleRun.pc = "idle" /\ Historical \in Snapshots
  BY <1>1, IdleIsSound, PreparedSucceeds DEF SnapshotIsSound
<1>3. PoliciesInv
  <2>1. \A p \in Policies : state[p] = "none" /\ chain[p] = <<>>
    BY DEF MonitorInit
  <2>2. ChainIsSound(<<>>, "none")
    BY EmptySeq DEF ChainIsSound, IsInjective
  <2>3. /\ state \in [Policies -> PolicyStates] /\ chain \in [Policies -> Seq(Snapshots)]
    BY DEF MonitorInit, PolicyStates
  <2> QED
    BY <2>1, <2>2, <2>3 DEF PoliciesInv
<1>4. IntentsInv
  BY DEF MonitorInit, IntentsInv
<1>5. RunsInv
  <2>1. \A r \in Runs : run[r] = IdleRun
    BY DEF MonitorInit
  <2>2. run \in [Runs -> RunStates] /\ Worker \in Runs
    BY <1>2 DEF MonitorInit, RunIsSound, Runs
  <2> QED
    BY <1>2, <2>1, <2>2 DEF RunsInv, ReportedIsNotified
<1>6. RequestsInv
  <2>1. NoRequest \in RequestStates /\ NoRequest.pc = "asked"
    BY <1>2 DEF NoRequest, RequestStates
  <2>2. request \in [Requests -> RequestStates] /\ \A a \in Requests : request[a] = NoRequest
    BY <2>1 DEF MonitorInit
  <2> QED
    BY <2>1, <2>2 DEF RequestsInv, RequestIsSound
<1> QED
  BY <1>1, <1>3, <1>4, <1>5, <1>6 DEF MonitorInv

LEMMA MonitorStepInv == MonitorInv /\ [MonitorNext]_monitorVars => MonitorInv'
<1> SUFFICES ASSUME MonitorInv, [MonitorNext]_monitorVars PROVE MonitorInv'
  OBVIOUS
<1>1. CASE UNCHANGED monitorVars
  BY <1>1, PoliciesUnchanged, EvidenceUnchanged, IntentsUnchanged, RunsUnchanged, RequestsKept, KeptUnchanged
     DEF MonitorInv, monitorVars, policyVars
<1> QED
  BY <1>1, HappenStep, ArriveStep, PreviewStep, AdvanceStep, ActivationStep DEF MonitorNext

\* Whatever worker, dashboard and operators do, the tables of the monitors agree.
THEOREM MonitorInvariant == MonitorSpec => []MonitorInv
BY MonitorInitInv, MonitorStepInv, PTL DEF MonitorSpec

LEMMA InvCohortsAreDisjoint == MonitorInv => CohortsAreDisjoint
<1> SUFFICES ASSUME MonitorInv, NEW p \in Policies, NEW k \in 2..Len(chain[p])
             PROVE  /\ Succession(chain[p][k - 1], chain[p][k])
                    /\ Cardinality(chain[p][k].current) <= Target
  BY DEF CohortsAreDisjoint, Succession
<1>1. Succession(chain[p][k - 1], chain[p][k])
  BY DEF MonitorInv, PoliciesInv, ChainIsSound
<1> QED
  BY <1>1 DEF Succession, SnapshotIsSound

LEMMA InvBoundaryIsImmutable == MonitorInv => BoundaryIsImmutable
<1> SUFFICES ASSUME MonitorInv PROVE BoundaryIsImmutable
  OBVIOUS
<1>1. ASSUME NEW p \in Policies, NEW k \in 2..Len(chain[p])
      PROVE  /\ chain[p][k].start = chain[p][2].start
             /\ chain[p][k].consumed \cap chain[p][2].start = {}
  <2>1. ChainIsSound(chain[p], state[p])
    BY DEF MonitorInv, PoliciesInv
  <2>2. Succession(chain[p][k - 1], chain[p][k]) /\ chain[p][k].start = chain[p][2].start
    BY <2>1 DEF ChainIsSound
  <2> QED
    BY <2>2 DEF Succession, SnapshotIsSound
<1>2. \A a \in Requests : request[a].pc = "answered" =>
        chain[request[a].policy][2] = request[a].prepared
  BY DEF MonitorInv, RequestsInv, RequestIsSound
<1> QED
  BY <1>1, <1>2 DEF BoundaryIsImmutable

LEMMA InvMonitorTypeOK == MonitorInv => MonitorTypeOK
<1> SUFFICES ASSUME MonitorInv PROVE MonitorTypeOK
  OBVIOUS
<1>1. \A p \in Policies : /\ \A k \in DOMAIN chain[p] : chain[p][k] \in Snapshots
                          /\ state[p] = "none" <=> chain[p] = <<>>
                          /\ IsInjective(chain[p])
  BY DEF MonitorInv, PoliciesInv, ChainIsSound, SnapshotIsSound
<1>2. \A r \in Runs : run[r].policy \in Policies \cup {NoPolicy}
  BY DEF MonitorInv, RunsInv, RunIsSound, RunStates
<1>3. \A a \in Requests : request[a].expected \in Policies \cup {NoPolicy}
  BY DEF MonitorInv, RequestsInv, RequestIsSound, RequestStates
<1> QED
  BY <1>1, <1>2, <1>3 DEF MonitorInv, PoliciesInv, PolicyStates, EvidenceInv, IntentsInv, MonitorTypeOK

\* plan_prospective_manifest and monitor_activate (ADR-008): cohorts follow each other
\* without a unit in common, from a boundary that is never moved, although the worker, the
\* dashboard and several activations write the snapshots.
THEOREM CohortsStaySound == MonitorSpec => []CohortsAreSound
<1>1. MonitorInv => CohortsAreSound
  BY InvCohortsAreDisjoint, InvBoundaryIsImmutable, InvMonitorTypeOK DEF CohortsAreSound
<1> QED
  BY <1>1, MonitorInvariant, PTL

\* advance_monitor: an alert that the worker reports has a notification intent, also if the
\* dashboard has stored it.
THEOREM ReportedAlertsAreNotified == MonitorSpec => []ReportedIsNotified
BY MonitorInvariant, PTL DEF MonitorInv, RunsInv

\* activate_monitor_policy: one policy is active at most, and a retired one is never
\* active again, however activations overlap.
THEOREM RetirementIsForGood == MonitorSpec => RetiredForGood
<1>1. ASSUME MonitorInv, MonitorInv'
      PROVE  Cardinality(Active') <= 1
  <2>1. PICK A : A = Active' /\ \A p, q \in A : p = q
    <3>1. \A p, q \in Active' : p = q
      BY <1>1 DEF MonitorInv, PoliciesInv, Active
    <3> QED
      BY <3>1
  <2>2. CASE A = {}
    <3>1. Cardinality(A) = 0
      BY <2>2, FS_EmptySet
    <3> QED
      BY <2>1, <3>1
  <2>3. CASE A # {}
    <3>1. PICK p : A = {p}
      BY <2>1, <2>3
    <3>2. Cardinality(A) = 1
      BY <3>1, FS_Singleton
    <3> QED
      BY <2>1, <3>2
  <2> QED
    BY <2>2, <2>3
<1>2. ASSUME MonitorInv, MonitorNext, NEW q \in Policies, state[q] = "retired"
      PROVE  state'[q] = "retired"
  <2>1. CASE UNCHANGED state
    BY <1>2, <2>1
  <2>2. ASSUME NEW p \in Policies, Preview(p) PROVE state'[q] = "retired"
    BY <1>2, <2>2 DEF Preview, MonitorInv, PoliciesInv
  <2>3. ASSUME NEW a \in Requests, Activate(a) PROVE state'[q] = "retired"
    <3>1. CASE Active # {request[a].expected} \ {NoPolicy}
      BY <1>2, <2>3, <3>1 DEF Activate
    <3>2. CASE Active = {request[a].expected} \ {NoPolicy}
      <4>1. PICK p : p = request[a].policy /\ p \in Policies /\ state[p] = "candidate"
        BY <1>2, <2>3, <3>2, ActivatesCandidate DEF Activate
      <4>2. state' = Activated(p)
        BY <2>3, <3>2, <4>1 DEF Activate, Activated
      <4> QED
        BY <1>2, <4>1, <4>2, ActivatedIs DEF MonitorInv
    <3> QED
      BY <3>1, <3>2
  <2>4. ASSUME NEW u \in Units, Happen(u) \/ Arrive(u) PROVE UNCHANGED state
    BY <2>4 DEF Happen, Arrive, policyVars
  <2>5. ASSUME NEW r \in Runs, Advance(r) PROVE UNCHANGED state
    BY <2>5 DEF Advance, Compare, Save, Yield, Attach, EndRun, policyVars
  <2>6. ASSUME NEW a \in Requests, Activation(a), ~Activate(a) PROVE UNCHANGED state
    BY <2>6 DEF Activation, ActivationAsked, Check, Prepare, Reread, EndRequest, policyVars
  <2> QED
    BY <1>2, <2>1, <2>2, <2>3, <2>4, <2>5, <2>6 DEF MonitorNext
<1>3. MonitorInv /\ MonitorInv' /\ [MonitorNext]_monitorVars =>
        [/\ Cardinality(Active') <= 1
         /\ \A p \in Policies : state[p] = "retired" => state'[p] = "retired"]_policyVars
  BY <1>1, <1>2 DEF monitorVars
<1> QED
  BY <1>3, MonitorInvariant, PTL DEF MonitorSpec, RetiredForGood

---------------------------------------------------------------------------
\* The clusters of a tenant.

OperatorStates ==
  [pc : {"rest", "match", "store", "validate", "move"},
   seen : [version : Versions \cup {NoVersion}, generation : Nat],
   version : Versions \cup {NoVersion}, clusters : SUBSET Identities,
   action : {"none", "activated", "rolled_back"}]

Moves ==
  [action : {"activated", "rolled_back"}, from : Versions \cup {NoVersion}, to : Versions,
   seen : Versions \cup {NoVersion}]

KeysAreUnique(I) == \A i, j \in I : i.key = j.key => i = j

TablesInv ==
  /\ DOMAIN registry \subseteq Versions
  /\ \A v \in DOMAIN registry :
       /\ registry[v].parent \in DOMAIN registry \cup {NoVersion}
       /\ registry[v].clusters \subseteq DOMAIN identities
  /\ DOMAIN identities \subseteq Identities
  /\ KeysAreUnique(DOMAIN identities)
  /\ \A i \in DOMAIN identities : identities[i] \in [active : BOOLEAN, last : Versions \cup {NoVersion}]
  /\ validated \subseteq DOMAIN registry
  /\ pointer \in [version : DOMAIN registry \cup {NoVersion}, generation : Nat]

MovesInv ==
  /\ moves \in Seq(Moves) /\ \A k \in DOMAIN moves : moves[k].to \in DOMAIN registry
  /\ MovesAreLinked

\* The pointer is where an operator has seen it unless its generation has moved on; a
\* version to be stored is new, and one to be activated is stored.
OperatorIsSound(h) ==
  /\ h \in OperatorStates
  /\ h.pc # "rest" =>
       /\ h.seen.version \in DOMAIN registry \cup {NoVersion}
       /\ h.seen.generation <= pointer.generation
       /\ h.seen.generation = pointer.generation => h.seen = pointer
  /\ h.pc = "store" => h.version \in Versions \ DOMAIN registry /\ KeysAreUnique(h.clusters)
  /\ h.pc \in {"validate", "move"} =>
       /\ h.version \in DOMAIN registry /\ h.action # "none"
       /\ h.action = "rolled_back" => \E k \in DOMAIN moves : moves[k].to = h.version

OperatorsInv ==
  /\ op \in [Operators -> OperatorStates] /\ \A o \in Operators : OperatorIsSound(op[o])
  /\ \A o, q \in Operators :
       op[o].pc = "store" /\ op[q].pc = "store" /\ op[o].version = op[q].version => o = q

ClusterInv == TablesInv /\ MovesInv /\ ActiveIsPlaced /\ OperatorsInv

\* No operator loses its ground, but one whose version has been stored.
OperatorsKept ==
  \A h : OperatorIsSound(h) /\ (h.pc = "store" => h.version \notin DOMAIN registry') => OperatorIsSound(h)'

LEMMA OperatorStep ==
  ASSUME OperatorsInv, OperatorsKept, NEW o \in Operators, NEW h, OperatorIsSound(h)',
         op' = [op EXCEPT ![o] = h],
         \A q \in Operators : q # o /\ op[q].pc = "store" =>
           /\ op[q].version \notin DOMAIN registry'
           /\ h.pc = "store" => h.version # op[q].version
  PROVE  OperatorsInv'
<1>1. h \in OperatorStates /\ op \in [Operators -> OperatorStates]
  BY DEF OperatorIsSound, OperatorsInv
<1>2. /\ op' \in [Operators -> OperatorStates] /\ op'[o] = h
      /\ \A q \in Operators : q # o => op'[q] = op[q]
  BY <1>1
<1>3. ASSUME NEW q \in Operators PROVE OperatorIsSound(op[q])'
  <2>1. PICK g : g = op'[q] /\ OperatorIsSound(g)'
    <3>1. CASE q = o
      BY <1>2, <3>1
    <3>2. CASE q # o
      <4>1. PICK g : g = op[q] /\ OperatorIsSound(g)
        BY DEF OperatorsInv
      <4>2. OperatorIsSound(g)' /\ op'[q] = g
        BY <1>2, <3>2, <4>1 DEF OperatorsKept
      <4> QED
        BY <4>2
    <3> QED
      BY <3>1, <3>2
  <2> QED
    BY <2>1 DEF OperatorIsSound
<1>4. ASSUME NEW q \in Operators, NEW r \in Operators,
             op'[q].pc = "store", op'[r].pc = "store", op'[q].version = op'[r].version
      PROVE  q = r
  <2>1. CASE q # o /\ r # o
    BY <1>2, <1>4, <2>1 DEF OperatorsInv
  <2>2. CASE q = o \/ r = o
    BY <1>2, <1>4, <2>2
  <2> QED
    BY <2>1, <2>2
<1> QED
  BY <1>2, <1>3, <1>4 DEF OperatorsInv

LEMMA TablesUnchanged == ASSUME TablesInv, UNCHANGED <<registry, identities, validated, pointer>> PROVE TablesInv'
BY DEF TablesInv

LEMMA MovesUnchanged == ASSUME MovesInv, UNCHANGED <<registry, pointer, moves>> PROVE MovesInv'
BY DEF MovesInv, MovesAreLinked

LEMMA PlacedUnchanged == ASSUME ActiveIsPlaced, UNCHANGED <<registry, identities, pointer>> PROVE ActiveIsPlaced'
BY DEF ActiveIsPlaced, ActiveIdentities

LEMMA OperatorsKeptUnchanged == ASSUME UNCHANGED <<registry, pointer, moves>> PROVE OperatorsKept
BY DEF OperatorsKept, OperatorIsSound

LEMMA RestIsSound == Rest \in OperatorStates /\ Rest.pc = "rest" /\ OperatorIsSound(Rest) /\ OperatorIsSound(Rest)'
<1>1. 0 \in Nat /\ {} \in SUBSET Identities /\ "none" \in {"none", "activated", "rolled_back"}
  OBVIOUS
<1>2. Nowhere \in [version : Versions \cup {NoVersion}, generation : Nat]
  BY <1>1 DEF Nowhere
<1>3. Rest \in OperatorStates /\ Rest.pc = "rest"
  BY <1>1, <1>2 DEF Rest, OperatorStates
<1> QED
  BY <1>3 DEF OperatorIsSound

\* A step of an operator that changes nothing else but what is validated.
LEMMA OperatorOnly ==
  ASSUME ClusterInv, NEW o \in Operators, NEW h, OperatorIsSound(h), op' = [op EXCEPT ![o] = h],
         \A q \in Operators : q # o /\ op[q].pc = "store" /\ h.pc = "store" => h.version # op[q].version,
         UNCHANGED <<registry, identities, pointer, moves>>, validated' \subseteq DOMAIN registry
  PROVE  ClusterInv'
<1>1. OperatorsKept
  BY OperatorsKeptUnchanged
<1>2. \A q \in Operators : op[q].pc = "store" => op[q].version \notin DOMAIN registry'
  BY DEF ClusterInv, OperatorsInv, OperatorIsSound
<1>3. OperatorIsSound(h)'
  BY DEF OperatorIsSound
<1>4. OperatorsInv'
  BY <1>1, <1>2, <1>3, OperatorStep DEF ClusterInv
<1>5. TablesInv'
  BY DEF ClusterInv, TablesInv
<1> QED
  BY <1>4, <1>5, MovesUnchanged, PlacedUnchanged DEF ClusterInv

LEMMA RestStep ==
  ASSUME ClusterInv, NEW o \in Operators, op' = [op EXCEPT ![o] = Rest],
         UNCHANGED <<registry, identities, pointer, moves>>, validated' \subseteq DOMAIN registry
  PROVE  ClusterInv'
<1>1. PICK h : h = Rest
  OBVIOUS
<1> QED
  BY <1>1, RestIsSound, OperatorOnly

LEMMA FitBeginsStep == ASSUME ClusterInv, NEW o \in Operators, FitBegins(o) PROVE ClusterInv'
<1>1. PICK h : h = [Rest EXCEPT !.pc = "match", !.seen = pointer]
  OBVIOUS
<1>2. /\ op' = [op EXCEPT ![o] = h] /\ validated' \subseteq DOMAIN registry
      /\ UNCHANGED <<registry, identities, pointer, moves>>
  BY <1>1 DEF FitBegins, ClusterInv, TablesInv
<1>3. /\ pointer \in [version : DOMAIN registry \cup {NoVersion}, generation : Nat]
      /\ pointer \in [version : Versions \cup {NoVersion}, generation : Nat]
  BY DEF ClusterInv, TablesInv
<1>4. h \in OperatorStates /\ h.pc = "match" /\ h.seen = pointer
  BY <1>1, <1>3, RestIsSound DEF OperatorStates
<1>5. OperatorIsSound(h)
  BY <1>3, <1>4 DEF OperatorIsSound
<1> QED
  BY <1>2, <1>4, <1>5, OperatorOnly

\* The identities of the clusters of a fit are those the keys have, or new ones.
LEMMA MatchedIsSound ==
  ASSUME TablesInv, NEW keys \in SUBSET Keys, NEW v \in Versions
  PROVE  Matched(keys, v) \subseteq Identities /\ KeysAreUnique(Matched(keys, v))
<1> DEFINE Match(k, i) == IF \E j \in DOMAIN identities : j.key = k
                          THEN i.key = k /\ i \in DOMAIN identities
                          ELSE i = [key |-> k, born |-> v]
           Chosen(k) == CHOOSE i \in Identities : Match(k, i)
<1>1. ASSUME NEW k \in keys PROVE Chosen(k) \in Identities /\ Chosen(k).key = k
  <2>1. \E i \in Identities : Match(k, i)
    <3>1. CASE \E j \in DOMAIN identities : j.key = k
      BY <3>1 DEF TablesInv
    <3>2. CASE ~\E j \in DOMAIN identities : j.key = k
      <4>1. [key |-> k, born |-> v] \in Identities
        BY DEF Identities
      <4> QED
        BY <3>2, <4>1
    <3> QED
      BY <3>1, <3>2
  <2>2. Chosen(k) \in Identities /\ Match(k, Chosen(k))
    <3> HIDE DEF Match
    <3> QED
      BY <2>1
  <2> HIDE DEF Chosen
  <2> QED
    BY <2>2
<1>2. Matched(keys, v) = {Chosen(k) : k \in keys}
  BY DEF Matched
<1> HIDE DEF Chosen
<1> QED
  BY <1>1, <1>2 DEF KeysAreUnique

LEMMA FitMatchesStep == ASSUME ClusterInv, NEW o \in Operators, FitMatches(o) PROVE ClusterInv'
<1>1. PICK old : old = op[o] /\ old \in OperatorStates /\ OperatorIsSound(old) /\ old.pc = "match"
  BY DEF FitMatches, ClusterInv, OperatorsInv
<1>2. PICK v \in Unused, keys \in SUBSET Keys :
        op' = IF Cardinality(ActiveIdentities) > MaxIdentities THEN [op EXCEPT ![o] = Rest]
              ELSE [op EXCEPT ![o].pc = "store", ![o].version = v, ![o].clusters = Matched(keys, v)]
  BY DEF FitMatches
<1>3. UNCHANGED <<registry, identities, pointer, moves>> /\ validated' \subseteq DOMAIN registry
  BY DEF FitMatches, ClusterInv, TablesInv
<1>4. /\ v \in Versions /\ v \notin DOMAIN registry
      /\ \A q \in Operators : v # op[q].version
  BY DEF Unused
<1>5. CASE Cardinality(ActiveIdentities) > MaxIdentities
  BY <1>2, <1>3, <1>5, RestStep
<1>6. CASE ~(Cardinality(ActiveIdentities) > MaxIdentities)
  <2>1. PICK found : found = Matched(keys, v) /\ found \subseteq Identities /\ KeysAreUnique(found)
    BY <1>4, MatchedIsSound DEF ClusterInv
  <2>2. PICK h : h = [old EXCEPT !.pc = "store", !.version = v, !.clusters = found]
    OBVIOUS
  <2>3. op' = [op EXCEPT ![o] = h]
    <3>1. op' = [op EXCEPT ![o].pc = "store", ![o].version = v, ![o].clusters = found]
      BY <1>2, <1>6, <2>1
    <3> QED
      BY <3>1, <1>1, <2>2 DEF ClusterInv, OperatorsInv
  <2>4. /\ h \in OperatorStates /\ h.pc = "store" /\ h.version = v /\ h.clusters = found
        /\ h.seen = old.seen
    BY <1>1, <1>4, <2>1, <2>2 DEF OperatorStates
  <2>5. OperatorIsSound(h)
    BY <1>1, <1>4, <2>1, <2>4 DEF OperatorIsSound
  <2> QED
    BY <1>3, <1>4, <2>3, <2>4, <2>5, OperatorOnly
<1> QED
  BY <1>5, <1>6

LEMMA FitStoresStep == ASSUME ClusterInv, NEW o \in Operators, FitStores(o) PROVE ClusterInv'
<1>1. PICK old : old = op[o] /\ old \in OperatorStates /\ OperatorIsSound(old) /\ old.pc = "store"
  BY DEF FitStores, ClusterInv, OperatorsInv
<1>2. PICK v, new : v = old.version /\ new = old.clusters \ DOMAIN identities
  OBVIOUS
<1>3. op' = [op EXCEPT ![o] = Rest] /\ UNCHANGED <<validated, pointer, moves>>
  BY DEF FitStores
<1>4. CASE \E i \in new : Conflicts(i)
  <2>1. UNCHANGED <<registry, identities>> /\ validated' \subseteq DOMAIN registry
    BY <1>1, <1>2, <1>3, <1>4 DEF FitStores, ClusterInv, TablesInv
  <2> QED
    BY <1>3, <2>1, RestStep
<1>5. CASE ~\E i \in new : Conflicts(i)
  <2>1. PICK row : row = [parent |-> old.seen.version, clusters |-> old.clusters]
    OBVIOUS
  <2>2. /\ registry' = [w \in DOMAIN registry \cup {v} |-> IF w = v THEN row ELSE registry[w]]
        /\ identities' = [i \in DOMAIN identities \cup new |->
                            IF i \in new THEN [active |-> FALSE, last |-> NoVersion] ELSE identities[i]]
    BY <1>1, <1>2, <1>5, <2>1 DEF FitStores
  <2>3. /\ DOMAIN registry' = DOMAIN registry \cup {v} /\ registry'[v] = row
        /\ \A w \in DOMAIN registry : w # v => registry'[w] = registry[w]
    BY <2>2
  <2>4. /\ DOMAIN identities' = DOMAIN identities \cup new
        /\ \A i \in new : identities'[i] = [active |-> FALSE, last |-> NoVersion]
        /\ \A i \in DOMAIN identities : identities'[i] = identities[i]
    BY <1>2, <2>2
  <2>5. /\ v \in Versions /\ v \notin DOMAIN registry /\ KeysAreUnique(old.clusters)
        /\ old.clusters \in SUBSET Identities /\ old.seen.version \in DOMAIN registry \cup {NoVersion}
    BY <1>1, <1>2 DEF OperatorIsSound, OperatorStates
  <2>6. TablesInv'
    <3>1. DOMAIN registry' \subseteq Versions
      BY <2>3, <2>5 DEF ClusterInv, TablesInv
    <3>2. ASSUME NEW w \in DOMAIN registry'
          PROVE  /\ registry'[w].parent \in DOMAIN registry' \cup {NoVersion}
                 /\ registry'[w].clusters \subseteq DOMAIN identities'
      <4>1. CASE w = v
        BY <1>2, <2>1, <2>3, <2>4, <2>5, <4>1
      <4>2. CASE w # v
        <5>1. w \in DOMAIN registry /\ registry'[w] = registry[w]
          BY <2>3, <4>2
        <5> QED
          BY <2>3, <2>4, <5>1 DEF ClusterInv, TablesInv
      <4> QED
        BY <4>1, <4>2
    <3>3. DOMAIN identities' \subseteq Identities
      BY <1>2, <2>4, <2>5 DEF ClusterInv, TablesInv
    <3>4. KeysAreUnique(DOMAIN identities')
      <4>1. KeysAreUnique(DOMAIN identities)
        BY DEF ClusterInv, TablesInv
      <4>2. \A i \in new : i \in old.clusters /\ \A j \in DOMAIN identities : j.key # i.key
        BY <1>2, <1>5 DEF Conflicts
      <4> QED
        BY <2>4, <2>5, <4>1, <4>2 DEF KeysAreUnique
    <3>5. \A i \in DOMAIN identities' : identities'[i] \in [active : BOOLEAN, last : Versions \cup {NoVersion}]
      <4>1. [active |-> FALSE, last |-> NoVersion] \in [active : BOOLEAN, last : Versions \cup {NoVersion}]
        OBVIOUS
      <4> QED
        BY <2>4, <4>1 DEF ClusterInv, TablesInv
    <3>6. /\ validated' \subseteq DOMAIN registry'
          /\ pointer' \in [version : DOMAIN registry' \cup {NoVersion}, generation : Nat]
      BY <1>3, <2>3 DEF ClusterInv, TablesInv
    <3>7. KeysAreUnique(DOMAIN identities)'
      BY <3>4 DEF KeysAreUnique
    <3> QED
      BY <3>1, <3>2, <3>3, <3>5, <3>6, <3>7 DEF TablesInv
  <2>7. MovesInv'
    <3>1. moves \in Seq(Moves) /\ \A k \in DOMAIN moves : moves[k].to \in DOMAIN registry
      BY DEF ClusterInv, MovesInv
    <3>2. \A k \in DOMAIN moves : /\ moves[k].to \in DOMAIN registry'
                                  /\ registry'[moves[k].to] = registry[moves[k].to]
      BY <2>3, <2>5, <3>1
    <3>3. MovesAreLinked'
      BY <1>3, <3>2 DEF ClusterInv, MovesInv, MovesAreLinked
    <3> QED
      BY <1>3, <3>1, <3>2, <3>3 DEF MovesInv
  <2>8. ActiveIsPlaced'
    <3>1. ActiveIdentities' = ActiveIdentities
      BY <1>2, <2>4 DEF ActiveIdentities
    <3>2. ASSUME pointer.version # NoVersion, NEW i \in registry'[pointer.version].clusters
          PROVE  identities'[i] = [active |-> TRUE, last |-> pointer.version]
      <4>1. pointer.version \in DOMAIN registry
        BY <3>2 DEF ClusterInv, TablesInv
      <4>2. registry'[pointer.version] = registry[pointer.version]
        BY <2>3, <2>5, <4>1
      <4>3. i \in DOMAIN identities /\ identities[i] = [active |-> TRUE, last |-> pointer.version]
        BY <3>2, <4>1, <4>2 DEF ClusterInv, TablesInv, ActiveIsPlaced
      <4> QED
        BY <2>4, <4>3
    <3>3. Cardinality(ActiveIdentities) <= MaxIdentities
      BY DEF ClusterInv, ActiveIsPlaced
    <3> QED
      BY <1>3, <3>1, <3>2, <3>3 DEF ActiveIsPlaced
  <2>9. OperatorsKept
    BY <1>3, <2>3 DEF OperatorsKept, OperatorIsSound
  <2>10. \A q \in Operators : q # o /\ op[q].pc = "store" => op[q].version \notin DOMAIN registry'
    <3> SUFFICES ASSUME NEW q \in Operators, q # o, op[q].pc = "store"
                 PROVE  op[q].version \notin DOMAIN registry'
      OBVIOUS
    <3>1. op[q].version \notin DOMAIN registry /\ op[q].version # v
      BY <1>1, <1>2 DEF ClusterInv, OperatorsInv, OperatorIsSound
    <3> QED
      BY <2>3, <3>1
  <2>11. OperatorsInv'
    <3>1. PICK h : h = Rest
      OBVIOUS
    <3>2. OperatorIsSound(h)' /\ h.pc = "rest"
      BY <3>1, RestIsSound
    <3> QED
      BY <1>3, <2>9, <2>10, <3>1, <3>2, OperatorStep DEF ClusterInv
  <2> QED
    BY <2>6, <2>7, <2>8, <2>11 DEF ClusterInv
<1> QED
  BY <1>4, <1>5

LEMMA MoveAskedStep == ASSUME ClusterInv, NEW o \in Operators, MoveAsked(o) PROVE ClusterInv'
<1>1. PICK v \in DOMAIN registry, action \in {"activated", "rolled_back"} :
        /\ action = "rolled_back" => \E k \in DOMAIN moves : moves[k].to = v
        /\ op' = [op EXCEPT ![o] = [Rest EXCEPT !.pc = "validate", !.seen = pointer,
                                                !.version = v, !.action = action]]
  BY DEF MoveAsked
<1>2. PICK h : h = [Rest EXCEPT !.pc = "validate", !.seen = pointer, !.version = v, !.action = action]
  OBVIOUS
<1>3. /\ pointer \in [version : DOMAIN registry \cup {NoVersion}, generation : Nat]
      /\ pointer \in [version : Versions \cup {NoVersion}, generation : Nat]
      /\ v \in Versions
  BY DEF ClusterInv, TablesInv
<1>4. /\ h \in OperatorStates /\ h.pc = "validate" /\ h.seen = pointer /\ h.version = v
      /\ h.action = action
  BY <1>2, <1>3, RestIsSound DEF OperatorStates
<1>5. OperatorIsSound(h)
  BY <1>1, <1>3, <1>4 DEF OperatorIsSound
<1>6. UNCHANGED <<registry, identities, pointer, moves>> /\ validated' \subseteq DOMAIN registry
  BY DEF MoveAsked, ClusterInv, TablesInv
<1> QED
  BY <1>1, <1>2, <1>4, <1>5, <1>6, OperatorOnly

LEMMA ValidatedIsSound ==
  ASSUME ClusterInv, NEW v \in DOMAIN registry, Validated(v)
  PROVE  validated' \subseteq DOMAIN registry
BY DEF Validated, ClusterInv, TablesInv

LEMMA ValidateStep == ASSUME ClusterInv, NEW v \in Versions, Validate(v) PROVE ClusterInv'
<1>1. validated' \subseteq DOMAIN registry /\ UNCHANGED <<registry, identities, pointer, moves, op>>
  BY ValidatedIsSound DEF Validate
<1>2. TablesInv'
  BY <1>1 DEF ClusterInv, TablesInv
<1>3. OperatorsInv'
  BY <1>1 DEF ClusterInv, OperatorsInv, OperatorIsSound
<1> QED
  BY <1>1, <1>2, <1>3, MovesUnchanged, PlacedUnchanged DEF ClusterInv

LEMMA MoveValidatesStep == ASSUME ClusterInv, NEW o \in Operators, MoveValidates(o) PROVE ClusterInv'
<1>1. PICK old : old = op[o] /\ old \in OperatorStates /\ OperatorIsSound(old) /\ old.pc = "validate"
  BY DEF MoveValidates, ClusterInv, OperatorsInv
<1>2. validated' \subseteq DOMAIN registry /\ UNCHANGED <<registry, identities, pointer, moves>>
  BY <1>1, ValidatedIsSound DEF MoveValidates, OperatorIsSound
<1>3. CASE registry[old.version].clusters = {}
  <2>1. op' = [op EXCEPT ![o] = Rest]
    BY <1>1, <1>3 DEF MoveValidates
  <2> QED
    BY <1>2, <2>1, RestStep
<1>4. CASE registry[old.version].clusters # {}
  <2>1. PICK h : h = [old EXCEPT !.pc = "move"]
    OBVIOUS
  <2>2. op' = [op EXCEPT ![o] = h]
    BY <1>1, <1>4, <2>1 DEF MoveValidates
  <2>3. /\ h \in OperatorStates /\ h.pc = "move" /\ h.seen = old.seen /\ h.version = old.version
        /\ h.action = old.action
    BY <1>1, <2>1 DEF OperatorStates
  <2>4. OperatorIsSound(h)
    BY <1>1, <2>3 DEF OperatorIsSound
  <2> QED
    BY <1>2, <2>2, <2>3, <2>4, OperatorOnly
<1> QED
  BY <1>3, <1>4

\* The pointer moves from where the operator has seen it.
LEMMA MovePointerStep == ASSUME ClusterInv, NEW o \in Operators, MovePointer(o) PROVE ClusterInv'
<1>1. PICK old : old = op[o] /\ old \in OperatorStates /\ OperatorIsSound(old) /\ old.pc = "move"
  BY DEF MovePointer, ClusterInv, OperatorsInv
<1>2. PICK v : /\ v = old.version /\ v \in DOMAIN registry /\ v \in Versions
               /\ old.action \in {"activated", "rolled_back"}
  BY <1>1 DEF OperatorIsSound, OperatorStates, ClusterInv, TablesInv
<1>3. op' = [op EXCEPT ![o] = Rest] /\ UNCHANGED <<registry, validated>>
  BY DEF MovePointer
<1>4. CASE ~MayMove(o)
  <2>1. UNCHANGED <<pointer, moves, identities>> /\ validated' \subseteq DOMAIN registry
    BY <1>3, <1>4 DEF MovePointer, ClusterInv, TablesInv
  <2> QED
    BY <1>3, <2>1, RestStep
<1>5. CASE MayMove(o)
  <2>1. /\ pointer.generation = old.seen.generation
        /\ old.action = "activated" => registry[v].parent = pointer.version
        /\ Cardinality(ActiveIdentities \cup registry[v].clusters) <= MaxIdentities
    BY <1>1, <1>2, <1>5 DEF MayMove
  <2>2. /\ pointer \in [version : DOMAIN registry \cup {NoVersion}, generation : Nat]
        /\ pointer.version \in Versions \cup {NoVersion} /\ pointer.generation \in Nat
    BY DEF ClusterInv, TablesInv
  <2>3. old.seen = pointer
    BY <1>1, <2>1 DEF OperatorIsSound
  <2>4. PICK e : e = [action |-> old.action, from |-> pointer.version, to |-> v, seen |-> pointer.version]
    OBVIOUS
  <2>5. e \in Moves
    BY <1>2, <2>2, <2>4 DEF Moves
  <2>6. /\ pointer' = [version |-> v, generation |-> pointer.generation + 1]
        /\ moves' = Append(moves, e) /\ identities' = Placed(v)
    BY <1>1, <1>2, <1>5, <2>3, <2>4 DEF MovePointer
  <2>7. /\ moves \in Seq(Moves) /\ Len(moves) = pointer.generation /\ MovesAreLinked
        /\ \A k \in DOMAIN moves : moves[k].to \in DOMAIN registry
    BY DEF ClusterInv, MovesInv, MovesAreLinked
  <2>8. PICK n \in Nat : n = Len(moves) /\ DOMAIN moves = 1..n
    BY <2>7, LenProperties
  <2>9. /\ moves' \in Seq(Moves) /\ Len(moves') = n + 1 /\ DOMAIN moves' = 1..(n + 1) /\ moves' # <<>>
        /\ \A k \in 1..n : moves'[k] = moves[k]
        /\ moves'[n + 1] = e
    <3>1. /\ moves' \in Seq(Moves) /\ Len(moves') = n + 1 /\ moves' # <<>>
          /\ \A k \in 1..n : moves'[k] = moves[k]
          /\ moves'[n + 1] = e
      BY <2>5, <2>6, <2>7, <2>8, AppendProperties
    <3> QED
      BY <3>1, LenProperties
  <2>10. \A k \in 1..(n + 1) : k = n + 1 \/ k \in 1..n
    OBVIOUS
  <2>11. /\ DOMAIN identities' = DOMAIN identities
         /\ \A i \in DOMAIN identities :
              identities'[i] = IF i \in registry[v].clusters THEN [active |-> TRUE, last |-> v] ELSE identities[i]
         /\ registry[v].clusters \subseteq DOMAIN identities
    BY <1>2, <2>6 DEF Placed, ClusterInv, TablesInv
  <2>12. TablesInv'
    <3>1. \A i \in DOMAIN identities' : identities'[i] \in [active : BOOLEAN, last : Versions \cup {NoVersion}]
      <4>1. [active |-> TRUE, last |-> v] \in [active : BOOLEAN, last : Versions \cup {NoVersion}]
        BY <1>2
      <4> QED
        BY <2>11, <4>1 DEF ClusterInv, TablesInv
    <3>2. pointer' \in [version : DOMAIN registry' \cup {NoVersion}, generation : Nat]
      BY <1>2, <1>3, <2>2, <2>6
    <3>3. KeysAreUnique(DOMAIN identities)'
      BY <2>11 DEF ClusterInv, TablesInv, KeysAreUnique
    <3> QED
      BY <1>3, <2>11, <3>1, <3>2, <3>3 DEF ClusterInv, TablesInv
  <2>13. ASSUME NEW k \in DOMAIN moves'
         PROVE  /\ moves'[k].from = IF k = 1 THEN NoVersion ELSE moves'[k - 1].to
                /\ moves'[k].from = moves'[k].seen
                /\ IF moves'[k].action = "activated" THEN registry[moves'[k].to].parent = moves'[k].from
                                                    ELSE \E j \in 1..k - 1 : moves'[j].to = moves'[k].to
    <3>1. CASE k = n + 1
      <4>1. moves'[k] = e /\ k - 1 = n
        BY <2>9, <3>1
      <4>2. e.from = pointer.version /\ e.seen = pointer.version /\ e.to = v /\ e.action = old.action
        BY <2>4
      <4>3. pointer.version = IF n = 0 THEN NoVersion ELSE moves[n].to
        <5>1. n = 0 <=> moves = <<>>
          BY <2>7, <2>8, EmptySeq
        <5> QED
          BY <2>7, <2>8, <5>1 DEF MovesAreLinked, Last
      <4>4. e.from = IF k = 1 THEN NoVersion ELSE moves'[k - 1].to
        <5>1. CASE n = 0
          BY <4>1, <4>2, <4>3, <5>1
        <5>2. CASE n # 0
          <6>1. n \in 1..n /\ k # 1
            BY <3>1, <5>2
          <6> QED
            BY <2>9, <4>1, <4>2, <4>3, <5>2, <6>1
        <5> QED
          BY <5>1, <5>2
      <4>5. CASE old.action = "activated"
        BY <2>1, <4>1, <4>2, <4>4, <4>5
      <4>6. CASE old.action = "rolled_back"
        <5>1. PICK j \in DOMAIN moves : moves[j].to = v
          BY <1>1, <1>2, <4>6 DEF OperatorIsSound
        <5>2. j \in 1..k - 1 /\ moves'[j].to = v
          BY <2>8, <2>9, <4>1, <5>1
        <5> QED
          BY <4>1, <4>2, <4>4, <4>6, <5>2
      <4> QED
        BY <1>2, <4>5, <4>6
    <3>2. CASE k \in 1..n
      <4>1. moves'[k] = moves[k] /\ k \in DOMAIN moves
        BY <2>8, <2>9, <3>2
      <4>2. \A j \in 1..k - 1 : moves'[j] = moves[j]
        BY <2>9, <3>2
      <4>3. k # 1 => k - 1 \in 1..k - 1
        BY <3>2
      <4>4. /\ moves[k].from = IF k = 1 THEN NoVersion ELSE moves[k - 1].to
            /\ moves[k].from = moves[k].seen
            /\ IF moves[k].action = "activated" THEN registry[moves[k].to].parent = moves[k].from
                                                ELSE \E j \in 1..k - 1 : moves[j].to = moves[k].to
        BY <2>7, <4>1 DEF MovesAreLinked
      <4> QED
        BY <4>1, <4>2, <4>3, <4>4
    <3> QED
      BY <2>9, <2>10, <3>1, <3>2
  <2>14. MovesInv'
    <3>1. \A k \in DOMAIN moves' : moves'[k].to \in DOMAIN registry'
      <4>1. e.to = v
        BY <2>4
      <4> QED
        BY <1>2, <1>3, <2>7, <2>8, <2>9, <2>10, <4>1
    <3>2. Len(moves') = pointer'.generation
      BY <2>6, <2>7, <2>8, <2>9
    <3>3. moves' # <<>> /\ pointer'.version = moves'[Len(moves')].to
      BY <2>4, <2>6, <2>9
    <3>4. MovesAreLinked'
      <4>1. /\ Len(moves') = pointer'.generation
            /\ pointer'.version = IF moves' = <<>> THEN NoVersion ELSE Last(moves').to
        BY <3>2, <3>3 DEF Last
      <4>2. registry' = registry
        BY <1>3
      <4> QED
        BY <2>13, <4>1, <4>2 DEF MovesAreLinked
    <3> QED
      BY <2>9, <3>1, <3>4 DEF MovesInv
  <2>15. ActiveIsPlaced'
    <3>1. PICK A : A = ActiveIdentities' /\ A = ActiveIdentities \cup registry[v].clusters
      <4>1. ActiveIdentities' = ActiveIdentities \cup registry[v].clusters
        BY <2>11 DEF ActiveIdentities
      <4> QED
        BY <4>1
    <3>2. Cardinality(A) <= MaxIdentities
      BY <2>1, <3>1
    <3>3. \A i \in registry'[pointer'.version].clusters :
            identities'[i] = [active |-> TRUE, last |-> pointer'.version]
      BY <1>3, <2>6, <2>11
    <3> QED
      BY <3>1, <3>2, <3>3 DEF ActiveIsPlaced
  <2>16. OperatorsKept
    <3> SUFFICES ASSUME NEW h, OperatorIsSound(h) PROVE OperatorIsSound(h)'
      BY DEF OperatorsKept
    <3>1. pointer'.generation = pointer.generation + 1
      BY <2>6
    <3>2. h.pc # "rest" =>
            /\ h.seen.version \in DOMAIN registry \cup {NoVersion}
            /\ h.seen.generation <= pointer'.generation
            /\ h.seen.generation # pointer'.generation
      <4>1. h.seen.generation \in Nat
        BY DEF OperatorIsSound, OperatorStates
      <4> QED
        BY <2>2, <3>1, <4>1 DEF OperatorIsSound
    <3>3. (\E k \in DOMAIN moves : moves[k].to = h.version) => \E k \in DOMAIN moves' : moves'[k].to = h.version
      BY <2>8, <2>9
    <3> QED
      BY <1>3, <3>2, <3>3 DEF OperatorIsSound
  <2>17. OperatorsInv'
    <3>1. PICK h : h = Rest /\ OperatorIsSound(h)' /\ h.pc = "rest"
      BY RestIsSound
    <3>2. \A q \in Operators : op[q].pc = "store" => op[q].version \notin DOMAIN registry'
      BY <1>3 DEF ClusterInv, OperatorsInv, OperatorIsSound
    <3> QED
      BY <1>3, <2>16, <3>1, <3>2, OperatorStep DEF ClusterInv
  <2> QED
    BY <2>12, <2>14, <2>15, <2>17 DEF ClusterInv
<1> QED
  BY <1>4, <1>5

---------------------------------------------------------------------------
ClusterSpec == ClusterInit /\ [][ClusterNext]_clusterVars

LEMMA ClusterInitInv == ClusterInit => ClusterInv
<1> SUFFICES ASSUME ClusterInit PROVE ClusterInv
  OBVIOUS
<1>1. DOMAIN << >> = {} /\ <<>> \in Seq(Moves) /\ Len(<<>>) = 0
  BY EmptySeq
<1>2. TablesInv
  BY <1>1 DEF ClusterInit, TablesInv, KeysAreUnique
<1>3. MovesInv
  BY <1>1 DEF ClusterInit, MovesInv, MovesAreLinked
<1>4. ActiveIsPlaced
  <2>1. ActiveIdentities = {}
    BY <1>1 DEF ClusterInit, ActiveIdentities
  <2>2. Cardinality(ActiveIdentities) = 0
    BY <2>1, FS_EmptySet
  <2> QED
    BY <2>2, ClusterAssumption DEF ClusterInit, ActiveIsPlaced
<1>5. OperatorsInv
  <2>1. op \in [Operators -> OperatorStates] /\ \A o \in Operators : op[o] = Rest
    BY RestIsSound DEF ClusterInit
  <2> QED
    BY <2>1, RestIsSound DEF OperatorsInv
<1> QED
  BY <1>2, <1>3, <1>4, <1>5 DEF ClusterInv

LEMMA ClusterStepInv == ClusterInv /\ [ClusterNext]_clusterVars => ClusterInv'
<1> SUFFICES ASSUME ClusterInv, [ClusterNext]_clusterVars PROVE ClusterInv'
  OBVIOUS
<1>1. CASE UNCHANGED clusterVars
  <2>1. OperatorsInv'
    BY <1>1 DEF ClusterInv, OperatorsInv, OperatorIsSound, clusterVars
  <2> QED
    BY <1>1, <2>1, TablesUnchanged, MovesUnchanged, PlacedUnchanged DEF ClusterInv, clusterVars
<1>2. ASSUME NEW o \in Operators, OperatorGone(o) PROVE ClusterInv'
  BY <1>2, RestStep DEF OperatorGone, ClusterInv, TablesInv
<1> QED
  BY <1>1, <1>2, FitBeginsStep, FitMatchesStep, FitStoresStep, MoveAskedStep, MoveValidatesStep,
     MovePointerStep, ValidateStep DEF ClusterNext

\* Whatever operators do, versions, identities, pointer and events agree.
THEOREM ClusterInvariant == ClusterSpec => []ClusterInv
BY ClusterInitInv, ClusterStepInv, PTL DEF ClusterSpec

\* activate_cluster_registry: operators that race for the pointer leave a linked history,
\* and the identities of the active version active and placed by it.
THEOREM PointerStaysSound == ClusterSpec => []PointerIsSound
<1>1. ASSUME ClusterInv PROVE PointerIsSound
  <2>1. ClusterTypeOK
    <3>1. \A o \in Operators : DOMAIN op[o] = DOMAIN Rest
      BY <1>1 DEF ClusterInv, OperatorsInv, OperatorStates, Rest
    <3> QED
      BY <1>1, <3>1 DEF ClusterInv, TablesInv, KeysAreUnique, ClusterTypeOK
  <2> QED
    BY <1>1, <2>1 DEF ClusterInv, MovesInv, PointerIsSound
<1> QED
  BY <1>1, ClusterInvariant, PTL

---------------------------------------------------------------------------
\* Both registries, beside each other: the theorems about each hold of MCRegistries.
THEOREM RegistriesAreSafe ==
  Spec => /\ [](CohortsAreSound /\ ReportedIsNotified /\ PointerIsSound)
          /\ RetiredForGood
<1>1. Init => MonitorInit /\ ClusterInit
  BY DEF Init
<1>2. [Next]_<<monitorVars, clusterVars>> => [MonitorNext]_monitorVars /\ [ClusterNext]_clusterVars
  BY DEF Next
<1>3. Spec => MonitorSpec /\ ClusterSpec
  BY <1>1, <1>2, PTL DEF Spec, MonitorSpec, ClusterSpec
<1> QED
  BY <1>3, CohortsStaySound, ReportedAlertsAreNotified, RetirementIsForGood, PointerStaysSound, PTL

===============================================================================
