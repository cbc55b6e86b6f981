SPECIFICATION Spec
CONSTANTS
  BANK_SIZE = 3
  BANK_SHADOW_SIZE = 1
  BankCount = 2
  Byte = {0, 1}
  Selections = {0, 1, 3}
  Roms <- MCRoms
  OverflowChecks = TRUE
  Events <- MCEvents
  MaxTyped = 3
  MaxPending = 2
  HdBytes = {0}
  VdcInitValues <- MCVdcInitValues
  Charset <- MCCharset
  HelloMsg <- MCHelloMsg
  SetupCycles = 2
  LoopCycles = 12
  OtherCycles = 16
  Ports = {0, 1, 2, 16, 32, 64, 257}
  Data = {0, 1, 3}
  Left = 1
  Top = 1
INVARIANTS
  NoPanic
  KeysInOrder
  RasterInside
  ScreenShowsMessage
PROPERTIES
  ImplementsBankedMemory
  QuitHalts
  FramesKeepComing
CHECK_DEADLOCK FALSE
