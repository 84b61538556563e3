SPECIFICATION Spec
CONSTANTS
  c1 = c1
  c2 = c2
  Pass = Pass
  Missing = Missing
  Client <- OneClient
  Version <- TwoVersions
  First = 1
  MaxBackups = 2
  Retention = 1
  MaxFaults = 0
INVARIANTS JavaFits
