CONSTANTS
  StreamLen = 6
  MaxRequest = 3
  MaxRegion = 3
  IntMax = 2
SPECIFICATION Spec
INVARIANTS
  TypeOK
  BytesAccounted
  BytesDelivered
PROPERTY ReadReturns
CHECK_DEADLOCK FALSE
