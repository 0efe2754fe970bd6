------------------------------ MODULE MCRegistries ------------------------------
\* The two registries of the store share nothing: each is explored while the other
\* rests.
EXTENDS MonitorRegistry, ClusterRegistry

\* A cohort has drifted when it consists of the first unit.
CONSTANT DriftedUnit
MCDrifted == {{DriftedUnit}}

MonitorRests == (\A p \in Policies : state[p] = "none") /\ happened = <<>>
ClusterRests == registry = << >> /\ \A o \in Operators : op[o] = Rest

Next ==
  \/ ClusterRests /\ MonitorNext /\ UNCHANGED clusterVars
  \/ MonitorRests /\ ClusterNext /\ UNCHANGED monitorVars

Init == MonitorInit /\ ClusterInit

Spec == Init /\ [][Next]_<<monitorVars, clusterVars>>

Symmetry == Permutations(Policies) \cup Permutations(Requests) \cup Permutations(Operators)
=================================================================================
