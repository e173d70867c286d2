CONSTANTS
  N = 4
  Kinds = {"device", "bridge", "left alone"}
  BarSets <- MCBarSets
  PowerUp <- MCPowerUp
  LastBus = 9
  IoAlign = 2
  IoBridgeAlign = 8
  MemAlign = 2
  OneMeg = 8
  IoStart = 8
  MemStart = 128
  IoSpace = 24
  Space = 256
SPECIFICATION PciSpec
INVARIANTS
  PciTypeOK
  TreeLaidOut
  AddressesAnswer
