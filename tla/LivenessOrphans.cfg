\* One record; two connections, but only one handler at a time.
CONSTANTS
  r1 = r1
  r2 = r2
  Procs = {1}
  Records <- MCRecord
  NoRec = NoRec
  Size <- MCSize
  MaxRecordBytes = 1
  Identities = {r1}
  Identity <- MCIdentity
  Malformed = {}
  Unsupported = {}
  SegmentBytes = 2
  DirectoryBytes = 9
  MaxSegments = 1
  SharedSpool = FALSE
  c1 = c1
  c2 = c2
  Conns = {c1, c2}
  BatchIds <- MCBatchIds
  Producers = {1}
  NoReq = NoReq
  MaxInFlight = 1
  MaxBatchRecords = 1
  AttemptCap = 1
  NoConn = NoConn
  MaxAttempts = 2
  MaxBatches = 1
  MaxListed = 1

SPECIFICATION FairSpec
PROPERTY SealedDrains
CHECK_DEADLOCK FALSE
