CONSTANTS
  LineLength = 11
  BreakPos = 12
  BufSize = 3
  MaxBlocks = 2
  MaxOctets = 42
  FewOctets = 3
  MaxRead = 2
  Texts <- MCTexts
  Losses = {1, 5}
  Changes <- MCChanges
SPECIFICATION ArmourSpec
CHECK_DEADLOCK FALSE
INVARIANTS
  ArmourTypeOK
  FileReadBack
