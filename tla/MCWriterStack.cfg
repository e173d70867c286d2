CONSTANTS
  MaxData = 2
  MaxWriters = 7
  Usual <- MCUsual
SPECIFICATION Spec
CHECK_DEADLOCK FALSE
INVARIANTS
  TypeOK
  Enclosed
  ErrorsKept
PROPERTIES
  IsByteStream
