SPECIFICATION FairSpec
CONSTANTS
  None = None
  PastLines = 1
  MaxStarts = 1
  MaxLines = 2
  MaxFaults = 1
INVARIANTS TypeOK LogFaithful SessionUnused
PROPERTIES PageCatchesUp HandlerEnds
