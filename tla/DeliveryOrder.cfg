\* Two records; one record per batch, two segments, two attempts.
CONSTANTS
  r1 = r1
  r2 = r2
  Procs = {1}
  Records <- MCRecords
  NoRec = NoRec
  Size <- MCSize
  MaxRecordBytes = 1
  Identities = {r1, r2}
  Identity <- MCIdentity
  Malformed = {}
  Unsupported = {}
  SegmentBytes = 2
  DirectoryBytes = 9
  MaxSegments = 2
  SharedSpool = FALSE
  c1 = c1
  c2 = c2
  Conns = {c1}
  BatchIds <- MCBatchIds
  Producers = {1}
  NoReq = NoReq
  MaxInFlight = 1
  MaxBatchRecords = 1
  AttemptCap = 1
  NoConn = NoConn
  MaxAttempts = 2
  MaxBatches = 2
  MaxListed = 2

SPECIFICATION Spec
INVARIANTS DeliveredInOrder
CHECK_DEADLOCK FALSE
PROPERTY HandoffSpec
