\* Two notifications, one send per drain, one worker, one edit, restart, replay or lost guard.
CONSTANTS
  Notifications = {n1, n2}
  Urls = {u1}
  None = None
  MaxAttempts = 2
  Workers = {w1}
  Dashboard = d
  Documents <- MCWebhook
  SendBudget = 1
  MaxEvents = 1
SPECIFICATION FairSpec
PROPERTIES ObligationsSettle CyclesFinish
CHECK_DEADLOCK FALSE
