SPECIFICATION FairSpec
CONSTANTS
  s1 = s1
  s2 = s2
  j1 = j1
  j2 = j2
  c1 = c1
  c2 = c2
  NoJob = NoJob
  NoServer = NoServer
  Server <- TwoServers
  Client <- TwoClients
  Job <- TwoJobs
  MaxRestarts = 1
INVARIANTS TypeOK ActiveJobsScheduled
PROPERTIES JobsFinishOnce ActiveJobsFinish
