CONSTANTS
  MaxLen = 5
  Buf = 8
  Word = 16
SPECIFICATION Spec
INVARIANTS
  TypeOK
  SetsExact
PROPERTIES
  Terminates
