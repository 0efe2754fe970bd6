\* Two threads, three writes, a queue that holds two.
CONSTANTS
  Callers = {c1, c2}
  Writes = {w1, w2, w3}
  Rejected = {w1}
  None = None
  MaxQueue = 2
  BatchSize = 2
  MaxCalls = 2
SPECIFICATION FairSpec
INVARIANTS InnerIsGuarded ReadsSeeAccepted
PROPERTIES DeferredSpec CallsReturn AcceptedIsApplied
CHECK_DEADLOCK FALSE
