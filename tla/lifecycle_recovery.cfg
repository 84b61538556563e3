SPECIFICATION FairSpec
CONSTANTS
  s1 = s1
  r1 = r1
  r2 = r2
  worker = worker
  Server <- Servers1
  Client <- Clients1
  Worker = worker
  Limit = 1
  MaxAborts = 1
  Handlers <- AllHandlers
PROPERTIES  CrashedServerRecovers
