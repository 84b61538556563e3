SPECIFICATION Spec
CONSTANTS
  c1 = c1
  c2 = c2
  c3 = c3
  Client <- ThreeClients
  Limit = 2
  Count = 2
  MaxRequests = 5
SYMMETRY Symmetric
INVARIANTS TypeOK Throttled FactorFits
CHECK_DEADLOCK FALSE
