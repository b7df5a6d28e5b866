SPECIFICATION BackgroundSpec
CONSTANTS
  None = None
  t1 = t1
  u1 = u1
  m1 = m1
  m2 = m2
  r1 = r1
  b1 = b1
  Task <- MCTask
  User <- MCUser
  Meta <- MCMeta
  AdRequest <- MCAdRequest
  AlertType <- MCAlertType
  Window = 1
  MaxAttempts = 2
  MaxTime = 2
  MaxJobs = 3
  MaxRequests = 3
  MaxFaults = 2
  MaxAlerts = 3
  MaxAsked = 2
  MaxFailures = 1
  MaxChanges = 2
INVARIANT OneOpenAlert
CHECK_DEADLOCK FALSE
