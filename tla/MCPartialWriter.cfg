CONSTANTS
  PartialLengths = {1, 2, 4, 8, 16}
  MinPartial = 4
  PacketSize = 8
  HeaderLen = 2
  MaxTotal = 18
SPECIFICATION Spec
CHECK_DEADLOCK FALSE
INVARIANTS
  TypeOK
  PacketFormed
  FailuresReported
PROPERTIES
  IsByteStream
