\* One live process; a segment is quarantined while the directory is measured.
CONSTANTS
  r1 = r1
  r2 = r2
  r3 = r3
  r4 = r4
  NoRec = NoRec
  Identities = {1}
  Identity <- MCIdentity
  Malformed = {}
  Unsupported = {}
  Procs = {p1, p2}
  Records <- MCRecords
  Size <- MCSize
  MaxRecordBytes = 1
  SegmentBytes = 3
  DirectoryBytes = 5
  MaxSegments = 3
  SharedSpool = FALSE
SPECIFICATION SpoolSpec
INVARIANT DirectoryBound
CHECK_DEADLOCK FALSE
