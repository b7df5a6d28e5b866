SPECIFICATION Spec
CONSTANTS
  None = None
  b1 = b1
  r1 = r1
  r2 = r2
  a1 = a1
  a2 = a2
  Broadcast <- MCBroadcast
  Request <- MCRequest
  Audio <- MCAudio
  LastDay = 3
SYMMETRY Symmetry
INVARIANT CancelledHasNoPlanned
