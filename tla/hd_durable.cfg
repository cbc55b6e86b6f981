SPECIFICATION HdSpec
CONSTANTS
  Drives = {0}
  SectorSize = 2
  ImageLen <- TwoSectors
  Byte = {0, 1}
  Erased = 1
  RegBase = 2
  SectorRegs = {0, 1}
  CylRegs = {0, 1}
  HeadRegs = {0}
  FeatureRegs = {"data_width", "other"}
  Calls = {"read", "write"}
  ProbeLbas = {3}
  Payloads <- Uniform
  InfoByte = 0
  NoSector = NoSector
INVARIANTS
  AcknowledgedSurvives
PROPERTIES
  ImplementsSectorDevice
  OneSectorPerWrite
