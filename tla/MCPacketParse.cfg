CONSTANTS
  StreamLen = 6
  MaxLen = 4
  MaxInner = 2
  MaxNest = 1
SPECIFICATION Spec
INVARIANTS
  TypeOK
  PacketWhole
  ReadersMatchPackets
PROPERTIES
  Terminates
