SPECIFICATION Spec
CONSTANTS
  Drives = {0}
  SectorSize = 2
  ImageLen <- OneImage
  Byte = {0, 1}
  Erased = 1
  RegBase = 4
  SectorRegs = {0, 1, 2, 3}
  CylRegs = {0}
  HeadRegs = {0}
  FeatureRegs = {"data_width", "other"}
PROPERTIES
  OneSectorPerWrite
