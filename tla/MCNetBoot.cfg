CONSTANTS
  Loads <- MCLoads
  Default = 2
  MaxPacket = 3
  MaxRetries = 1
  NumRxDesc = 2
  Blocks = 8
  Replies = {"DATA", "OACK", "OddOACK", "ERROR"}
  MaxNoise = 1
  MaxUp = 1
SPECIFICATION Spec
CHECK_DEADLOCK FALSE
INVARIANTS
  TypeOK
  BlocksAgree
PROPERTY
  ImageProceeds
