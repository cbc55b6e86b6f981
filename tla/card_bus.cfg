SPECIFICATION Spec
CONSTANTS
  Drives = {0, 1}
  SectorSize = 2
  ImageLen <- TwoImages
  Byte = {1}
  Erased = 1
  RegBase = 2
  SectorRegs = {0, 1}
  CylRegs = {0}
  HeadRegs = {0}
  FeatureRegs = {"data_width", "other"}
INVARIANTS
  TypeOK
  TransferInSector
  DataRequestTracksTransfer
  NoSilentFailure
PROPERTIES
  DriveIsolation
