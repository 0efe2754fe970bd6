---------------------------- MODULE ClusterRegistry ----------------------------
(***************************************************************************)
(* The versioned cluster registry of one tenant: ClusterRegistryService of *)
(* verdict_eval/cluster_registry.py over the transactions of               *)
(* storage/sqlite.py and storage/postgres.py, for the explicit strategy,   *)
(* where a cluster is what one intent key selects.  The identity of a      *)
(* cluster outlives the versions that contain it.                          *)
(*                                                                         *)
(* Operators fit versions and move the pointer to them concurrently.       *)
(***************************************************************************)
EXTENDS Integers, Sequences, FiniteSets, Functions, SequencesExt

CONSTANTS
  MaxVersions,   \* bound: versions fitted
  Keys,          \* intent keys
  MaxIdentities, \* max_explicit_identities_per_tenant
  Operators,
  MaxMoves       \* bound: movements of the pointer

ASSUME ClusterAssumption == MaxVersions \in Nat /\ MaxIdentities \in Nat /\ MaxMoves \in Nat

\* The random names of versions, and of the identities new in them, in the order in
\* which they are drawn.
Versions == 1..MaxVersions
NoVersion == 0

VARIABLES
  registry,   \* the versions stored: parent and clusters
  identities, \* the identities stored: lifecycle and last_version_id
  validated,  \* versions whose latest validation succeeded
  pointer,    \* active_cluster_registry
  moves,      \* the events that moved the pointer
  op          \* op[o]: where an operator is

clusterVars == <<registry, identities, validated, pointer, moves, op>>

\* An identity has a key, and a random name in which two fits differ, here that of
\* the version it was made for.
Identities == [key : Keys, born : Versions]

Nowhere == [version |-> NoVersion, generation |-> 0]

\* seen is the pointer that the operator has read; version, clusters and action
\* what is to be stored or activated.
Rest == [pc |-> "rest", seen |-> Nowhere, version |-> NoVersion, clusters |-> {}, action |-> "none"]

ActiveIdentities == {i \in DOMAIN identities : identities[i].active}

ClusterTypeOK ==
  /\ DOMAIN registry \subseteq Versions
  /\ \A v \in DOMAIN registry :
       /\ registry[v].parent \in DOMAIN registry \cup {NoVersion}
       /\ registry[v].clusters \subseteq DOMAIN identities
  /\ DOMAIN identities \subseteq Identities
  /\ \A i, j \in DOMAIN identities : i.key = j.key => i = j
  /\ \A i \in DOMAIN identities : identities[i] \in [active : BOOLEAN, last : Versions \cup {NoVersion}]
  /\ validated \subseteq DOMAIN registry
  /\ pointer \in [version : DOMAIN registry \cup {NoVersion}, generation : Nat]
  /\ \A o \in Operators : DOMAIN op[o] = DOMAIN Rest

ClusterInit ==
  /\ registry = << >> /\ identities = << >> /\ validated = {}
  /\ pointer = [version |-> NoVersion, generation |-> 0]
  /\ moves = <<>>
  /\ op = [o \in Operators |-> Rest]

---------------------------------------------------------------------------
\* fit.

\* The pointer is read: its version will be the parent.
FitBegins(o) ==
  /\ op[o].pc = "rest"
  /\ op' = [op EXCEPT ![o] = [Rest EXCEPT !.pc = "match", !.seen = pointer]]
  /\ UNCHANGED <<registry, identities, validated, pointer, moves>>

\* Every key found gets the identity that has it, active or not, or a new one
\* (_stable_result).  A tenant beyond its limit fits nothing.
Matched(keys, v) ==
  {CHOOSE i \in Identities : IF \E j \in DOMAIN identities : j.key = k
                             THEN i.key = k /\ i \in DOMAIN identities
                             ELSE i = [key |-> k, born |-> v] : k \in keys}

Unused == Versions \ (DOMAIN registry \cup {op[o].version : o \in Operators})

FitMatches(o) ==
  /\ op[o].pc = "match"
  /\ \E v \in Unused, keys \in SUBSET Keys :
       /\ \A w \in Unused : v <= w
       /\ op' = IF Cardinality(ActiveIdentities) > MaxIdentities THEN [op EXCEPT ![o] = Rest]
                ELSE [op EXCEPT ![o].pc = "store", ![o].version = v, ![o].clusters = Matched(keys, v)]
  /\ UNCHANGED <<registry, identities, validated, pointer, moves>>

\* Another fit has given the key an identity in the meantime.
Conflicts(i) == i \notin DOMAIN identities /\ \E j \in DOMAIN identities : j.key = i.key

\* insert_cluster_preview: version, clusters and provisional identities, or nothing.
FitStores(o) ==
  LET v == op[o].version
      new == op[o].clusters \ DOMAIN identities
  IN /\ op[o].pc = "store"
     /\ IF \E i \in new : Conflicts(i)
        THEN UNCHANGED <<registry, identities>>
        ELSE /\ registry' = [w \in DOMAIN registry \cup {v} |->
                              IF w = v THEN [parent |-> op[o].seen.version, clusters |-> op[o].clusters]
                              ELSE registry[w]]
             /\ identities' = [i \in DOMAIN identities \cup new |->
                                IF i \in new THEN [active |-> FALSE, last |-> NoVersion] ELSE identities[i]]
     /\ op' = [op EXCEPT ![o] = Rest]
     /\ UNCHANGED <<validated, pointer, moves>>

---------------------------------------------------------------------------
\* activate and rollback.

\* An operator has seen the pointer and chosen a version, for a rollback one that
\* an event says was active before.
MoveAsked(o) ==
  /\ op[o].pc = "rest" /\ pointer.generation < MaxMoves
  /\ \E v \in DOMAIN registry, action \in {"activated", "rolled_back"} :
       /\ action = "rolled_back" => \E k \in DOMAIN moves : moves[k].to = v
       /\ op' = [op EXCEPT ![o] = [Rest EXCEPT !.pc = "validate", !.seen = pointer,
                                               !.version = v, !.action = action]]
  /\ UNCHANGED <<registry, identities, validated, pointer, moves>>

\* A version without clusters does not pass.
Validated(v) == validated' = IF registry[v].clusters # {} THEN validated \cup {v} ELSE validated \ {v}

\* validate, on its own ...
Validate(v) ==
  /\ v \in DOMAIN registry
  /\ Validated(v)
  /\ UNCHANGED <<registry, identities, pointer, moves, op>>

\* ... and before the pointer is moved.
MoveValidates(o) ==
  /\ op[o].pc = "validate"
  /\ Validated(op[o].version)
  /\ op' = IF registry[op[o].version].clusters # {} THEN [op EXCEPT ![o].pc = "move"]
           ELSE [op EXCEPT ![o] = Rest]
  /\ UNCHANGED <<registry, identities, pointer, moves>>

\* A faulty variant: the generation is not compared.
MayMoveAnyway(o) ==
  LET v == op[o].version
  IN /\ op[o].action = "activated" => registry[v].parent = pointer.version
     /\ v \in validated
     /\ Cardinality(ActiveIdentities \cup registry[v].clusters) <= MaxIdentities

\* The pointer is as it was seen, which for an activation is at the parent; the
\* version is valid, and its identities are not too many.
MayMove(o) ==
  LET v == op[o].version
  IN /\ pointer.generation = op[o].seen.generation
     /\ op[o].action = "activated" => registry[v].parent = pointer.version
     /\ v \in validated
     /\ Cardinality(ActiveIdentities \cup registry[v].clusters) <= MaxIdentities

Placed(v) ==
  [i \in DOMAIN identities |-> IF i \in registry[v].clusters
                               THEN [active |-> TRUE, last |-> v] ELSE identities[i]]

\* activate_cluster_registry
MovePointer(o) ==
  LET v == op[o].version
  IN /\ op[o].pc = "move"
     /\ IF MayMove(o)
        THEN /\ pointer' = [version |-> v, generation |-> pointer.generation + 1]
             /\ moves' = Append(moves, [action |-> op[o].action, from |-> pointer.version, to |-> v,
                                        seen |-> op[o].seen.version])
             /\ identities' = Placed(v)
        ELSE UNCHANGED <<pointer, moves, identities>>
     /\ op' = [op EXCEPT ![o] = Rest]
     /\ UNCHANGED <<registry, validated>>

\* A process ends.
OperatorGone(o) ==
  /\ op[o].pc # "rest"
  /\ op' = [op EXCEPT ![o] = Rest]
  /\ UNCHANGED <<registry, identities, validated, pointer, moves>>

---------------------------------------------------------------------------
ClusterNext ==
  \/ \E o \in Operators :
       \/ FitBegins(o) \/ FitMatches(o) \/ FitStores(o) \/ OperatorGone(o)
       \/ MoveAsked(o) \/ MoveValidates(o) \/ MovePointer(o)
  \/ \E v \in Versions : Validate(v)

---------------------------------------------------------------------------
\* Properties.

\* The events tell how the pointer got to where it is, and every operator replaced
\* the version that he had seen: an activation its parent, a rollback by one that
\* was active before.
MovesAreLinked ==
  /\ Len(moves) = pointer.generation
  /\ pointer.version = IF moves = <<>> THEN NoVersion ELSE Last(moves).to
  /\ \A k \in DOMAIN moves :
       /\ moves[k].from = IF k = 1 THEN NoVersion ELSE moves[k - 1].to
       /\ moves[k].from = moves[k].seen
       /\ IF moves[k].action = "activated" THEN registry[moves[k].to].parent = moves[k].from
                                           ELSE \E j \in 1..k - 1 : moves[j].to = moves[k].to

\* The identities of the active version are active and were last placed by it, also
\* after a rollback to a version that shares them with others; and the tenant stays
\* within its limit.
ActiveIsPlaced ==
  /\ pointer.version # NoVersion =>
       \A i \in registry[pointer.version].clusters : identities[i] = [active |-> TRUE, last |-> pointer.version]
  /\ Cardinality(ActiveIdentities) <= MaxIdentities

\* Both: operators that race for the pointer leave it with a history and a placement
\* that agree with it, in tables that keep to their indexes.
PointerIsSound == ClusterTypeOK /\ MovesAreLinked /\ ActiveIsPlaced

==============================================================================
