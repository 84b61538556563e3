SPECIFICATION FairSpec
CONSTANTS
  Base = 2
  Groups = 4
  Word = 16
  MaxPacket = 6
  MaxString = 2
  Host <- Hosts
  Port <- Ports
INVARIANTS TypeOK RequestUnderstood 
PROPERTIES QueryEnds
