CONSTANTS
  BlockSize = 3
  BufferSize = 4
  StreamLen = 18
  Mpis = 2
  MaxMpi = 3
  Contents = {8}
  MaxPackets = 3
  MaxNest = 2
SPECIFICATION DecryptSpec
CHECK_DEADLOCK FALSE
INVARIANTS
  DecryptTypeOK
  DataDecrypted
