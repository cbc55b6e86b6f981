SPECIFICATION HdSpec
CONSTANTS
  Drives = {0}
  SectorSize = 2
  ImageLen <- TwoSectors
  Byte = {0}
  Erased = 0
  RegBase = 2
  SectorRegs = {0, 1}
  CylRegs = {0, 1}
  HeadRegs = {0}
  FeatureRegs = {"data_width", "other"}
  Calls = {"features", "identify", "read", "write"}
  ProbeLbas = {3}
  Payloads <- Zeros
  InfoByte = 0
  NoSector = NoSector
INVARIANTS
  HdTypeOK
  NoPanic
PROPERTIES
  RoutinesReturn
