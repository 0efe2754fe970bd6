\* One notification, two workers and the dashboard, any two events; two processes everywhere.
CONSTANTS
  Notifications = {n1}
  Urls = {x1, x2}
  None = None
  MaxAttempts = 2
  Workers = {p1, p2}
  Dashboard = d
  Documents <- MCDocuments
  SendBudget = 1
  MaxEvents = 2
  Callers = {p1, p2}
  Approvals = {a1}
  NoApproval = NoApproval
  Nobody = Nobody
  MaxPlans = 2
  MaxRequests = 2
  MaxMishaps = 1
  Judges = {p1, p2}
  NoJudge = NoJudge
  MaxEdits = 3
  MaxLosses = 2
  Builders = {p1, p2}
  Inputs = {i1, i2}
  Failure = Failure
  NoAnalysis = NoAnalysis
  MaxRevisions = 4
  Scans = {s1}
  Evidence <- MCEvidence
  Failed <- MCFailed
  Activation = 1
  PageSize = 1
  MaxRechecks = 1
SPECIFICATION CycleSpec
INVARIANTS TablesAreSound SentAsIntended StatusIsHonest PaidAsApproved JudgmentIsKept FreshIsCurrent ScannedIsNoticed
PROPERTIES SettledForGood
CHECK_DEADLOCK FALSE
SYMMETRY Symmetry
