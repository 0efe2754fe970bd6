\* A process and its forked child use one directory; two contexts record a run of one
\* turn; one model call is streamed; two scanners read one history file.
CONSTANTS
  r1 = r1
  r2 = r2
  r3 = r3
  r4 = r4
  NoRec = NoRec
  Identities = {1}
  Identity <- MCIdentity
  Malformed = {}
  Unsupported = {}
  Procs = {p1, p2}
  Records <- MCRecords3
  Size <- MCSize
  MaxRecordBytes = 1
  SegmentBytes = 3
  DirectoryBytes = 9
  MaxSegments = 2
  SharedSpool = TRUE
  Contexts = {o, h}
  Owner = o
  Terminal = {completed, failed}
  MaxTurns = 1
  MaxStream = 2
  Calls = {m1}
  MaxClients = 2
  Contents = {a, b}
  End = end
  Scanners = {s1, s2}
  NoRevision = nofile
  Limit = 2
  MaxBytes = 6
  MaxRewrites = 1
  MaxClaims = 2
SPECIFICATION Spec
INVARIANTS CaptureIsWhole StreamIsWhole CallsAreTraced EvidenceIsTheSource
PROPERTIES SegmentsAreOwned KeptAndDecided
SYMMETRY Symmetry
CHECK_DEADLOCK FALSE
