SPECIFICATION Spec
CONSTANTS
  None = None
  u1 = u1
  u2 = u2
  u3 = u3
  c1 = c1
  c2 = c2
  r1 = r1
  r2 = r2
  t1 = t1
  User <- MCUser
  Company <- MCCompany
  Request <- MCRequest
  Token <- MCToken
  ProMembers = 2
  FreeCopilot = 5
  DemoCopilot = 20
SYMMETRY Symmetry
INVARIANTS
  TypeOK
  OneFoundingPerUser
  MembersWithinReach
PROPERTIES
  InvitationsAreSingleUse
