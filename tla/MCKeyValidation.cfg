CONSTANTS
  k1 = k1
  k2 = k2
  s1 = s1
  u1 = u1
  u2 = u2
  a1 = a1
  None = None
  Packets <- MCPackets
  MaxPackets = 5
  PacketLen = 2
  SigSize = 3
  KeyIdSize = 2
SPECIFICATION Spec
CHECK_DEADLOCK FALSE
INVARIANTS
  TypeOK
  KeysPartitionStream
  JudgedRight
