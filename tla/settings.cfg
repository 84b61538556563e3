SPECIFICATION Spec
CONSTANTS
  h1 = h1
  h2 = h2
  v1 = v1
  v2 = v2
  None = None
  Handler <- TwoHandlers
  Value <- Values
  Port <- Ports
  Taken <- TakenPorts
  FirstPort = 1
  MaxRequests = 3
  MaxFaults = 1
SYMMETRY Symmetric
INVARIANTS TypeOK OneChange 
 
