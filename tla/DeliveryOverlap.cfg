\* Two records; one attempt and one batch per cycle, two handlers at once.
CONSTANTS
  r1 = r1
  r2 = r2
  Procs = {1}
  Records <- MCRecords
  NoRec = NoRec
  Size <- MCSize
  MaxRecordBytes = 1
  Identities = {r1, r2}
  Identity <- MCIdentity
  Malformed = {}
  Unsupported = {}
  SegmentBytes = 2
  DirectoryBytes = 9
  MaxSegments = 1
  SharedSpool = FALSE
  c1 = c1
  c2 = c2
  Conns = {c1, c2}
  BatchIds <- MCBatchIds
  Producers = {1}
  NoReq = NoReq
  MaxInFlight = 2
  MaxBatchRecords = 2
  AttemptCap = 1
  NoConn = NoConn
  MaxAttempts = 1
  MaxBatches = 1
  MaxListed = 1
SYMMETRY MCSymmetry
SPECIFICATION Spec
INVARIANTS DeletedIsStored CheckpointSound
CHECK_DEADLOCK FALSE
