CONSTANTS
  Policies = {p1, p2}
  Units = {u1, u2}
  Target = 1
  DriftedUnit = u1
  Drifted <- MCDrifted
  Worker = worker
  Dashboards = {d}
  Requests = {a1, a2}
  NoPolicy = none
  MaxVersions = 2
  Keys = {k1, k2}
  MaxIdentities = 1
  Operators = {o1, o2}
  MaxMoves = 3
SPECIFICATION Spec
INVARIANTS CohortsAreSound ReportedIsNotified PointerIsSound
PROPERTIES RetiredForGood
SYMMETRY Symmetry
CHECK_DEADLOCK FALSE
