CONSTANTS
  BodySize = 4
  MaxText = 6
  MaxLater = 2
SPECIFICATION MessageSpec
CHECK_DEADLOCK FALSE
INVARIANTS
  MessageTypeOK
  TextReadBack
  HashesRight
