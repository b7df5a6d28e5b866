SPECIFICATION ServicesSpec
CONSTANTS
  None = None
  a1 = a1
  g1 = g1
  g2 = g2
  q1 = q1
  q2 = q2
  v1 = v1
  d1 = d1
  i1 = i1
  i2 = i2
  Account <- MCAccount
  Grant <- MCGrant
  Request <- MCRequest
  Visitor <- MCVisitor
  MediaId <- MCMediaId
  Instance <- MCInstance
  Days <- MCDays
  Budget <- MCBudget
  Duration <- MCDuration
  Audience <- MCAudience
  Forecast <- MCForecast
  Owner <- MCOwner
  Figure <- MCFigure
  Params <- MCParams
  Seed <- MCSeed
  MaxAttempts = 2
  MaxJobs = 2
  MaxFaults = 2
  CopilotLimit = 2
  MaxAsked = 4
  MaxPuts = 3
  PerMinute = 1
  PerDay = 2
  Global = 3
  Limit = 2
  MaxTime = 3
\* Each of these is violated: keep one line at a time.
INVARIANTS
  NoOrphanQuestionnaire
  FileNeverLost
  ConfirmedIsGood
  OneAdvice
  FreshTokenCanBeReminded
  DemoNeverChased
  NoticesFollow
  ScansFollow
  DemoAnalysisFits
PROPERTIES
  AnalysisStays
CHECK_DEADLOCK FALSE
