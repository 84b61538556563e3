SPECIFICATION Spec
CONSTANTS
  c1 = c1
  c2 = c2
  Nothing = Nothing
  Folder = Folder
  Client <- TwoClients
  Dir <- ServerDirs
  Name <- ServerNames
  Initial <- ServerFiles
  Zipped <- ServerZip
  MaxRequests = 2
  MaxFaults = 1
  MaxStarts = 1
SYMMETRY Symmetric
INVARIANTS TypeOK NothingLost
PROPERTIES LiveFilesKept
