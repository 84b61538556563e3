SPECIFICATION Spec
CONSTANTS
  u1 = u1
  u2 = u2
  s1 = s1
  s2 = s2
  c1 = c1
  c2 = c2
  Nobody = Nobody
  MaxPassword = 2
  User <- TwoUsers
  Session <- TwoSessions
  Client <- TwoClients
SYMMETRY Symmetric
CHECK_DEADLOCK FALSE
INVARIANTS TypeOK AdministratorRemains OldAccessEnds
