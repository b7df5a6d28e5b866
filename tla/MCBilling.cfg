SPECIFICATION Spec
CONSTANTS
  None = None
  s1 = s1
  s2 = s2
  d1 = d1
  d2 = d2
  d3 = d3
  w1 = w1
  w2 = w2
  Sale <- MCSale
  Delivery <- MCDelivery
  Worker <- MCWorker
  Product <- MCProduct
  LastMonth = 1
SYMMETRY Symmetry
INVARIANTS
  TypeOK
  PeriodsContiguous
  OneRevocationPerPulse
PROPERTY GrantedOnce
CHECK_DEADLOCK FALSE
