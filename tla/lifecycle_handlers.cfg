SPECIFICATION Spec
CONSTANTS
  s1 = s1
  r1 = r1
  r2 = r2
  worker = worker
  Server <- Servers1
  Client <- Clients2
  Worker = worker
  Limit = 1
  MaxAborts = 1
  Handlers <- StartStopDelete
SYMMETRY RequestSymmetry
INVARIANTS TypeOK  
PROPERTIES  OrdersKept
