SPECIFICATION Spec
CONSTANTS
  None = None
  u1 = u1
  demo = demo
  r1 = r1
  r2 = r2
  r3 = r3
  r4 = r4
  User <- MCUser
  Demo <- MCDemo
  Request <- MCRequest
SYMMETRY Symmetry
INVARIANTS
  TypeOK
  OneTokenPerSession
  RevokedSessionsStayClosed
PROPERTIES
  TokensAreSingleUse
  DemoVisitorsIndependent
CHECK_DEADLOCK FALSE
