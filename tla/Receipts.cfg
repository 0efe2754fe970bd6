\* Three connections, two admitted at a time, five different requests.
CONSTANTS
  r1 = r1
  r2 = r2
  r3 = r3
  r4 = r4
  b1 = b1
  b2 = b2
  c1 = c1
  c2 = c2
  c3 = c3
  q1 = q1
  q2 = q2
  Records <- MCRecords
  NoRec = NoRec
  Size <- MCSize
  MaxRecordBytes = 1
  Identities = {1, 2, 3}
  Identity <- MCIdentity
  Malformed = {r3}
  Unsupported = {r4}
  Conns = {c1, c2, c3}
  BatchIds = {b1, b2}
  Producers = {q1, q2}
  NoReq = NoReq
  MaxInFlight = 2
  MaxBatchRecords = 2
  AttemptCap = 1
SYMMETRY MCSymmetry
SPECIFICATION MCSpec
INVARIANTS CollectorTypeOK AckIsReceipt AcceptedIsStored ConflictIsReal ReceiptIsValid OneOwner
PROPERTY Durable
CHECK_DEADLOCK FALSE
