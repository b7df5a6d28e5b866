SPECIFICATION Spec
CONSTANTS
  None = None
  i1 = i1
  r1 = r1
  r2 = r2
  r3 = r3
  r4 = r4
  Installation <- MCInstallation
  Request <- MCRequest
SYMMETRY MCSymmetry
INVARIANTS
  HistoryExplainsStatus
  RefusalTraced
  ProofTraced
PROPERTY LinksAreSingleUse
CHECK_DEADLOCK FALSE
