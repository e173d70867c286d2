CONSTANTS
  CompressBuffer = 2
  MaxData = 6
  MaxCoded = 2
  DecompressBuffer = 3
  MaxRead = 4
SPECIFICATION Spec
CHECK_DEADLOCK FALSE
INVARIANTS
  TypeOK
  StreamWhole
  DataRestored
PROPERTIES
  IsByteStream
  ReadReturns
