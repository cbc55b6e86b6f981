SPECIFICATION CopySpec
CONSTANTS
  Nibble = 2
  Bits = {0, 1, 2, 3, 4}
  Headers = {}
  Bytes = {}
  Patterns = {}
  Controls = {}
  Masks = {}
  InitialBus <- AllDistinct
  ReadLimit = 0
  Jobs <- AllJobs
  LaterJobs <- SomeJobs
  Blocks = 2
  Detour = TRUE
INVARIANTS
  BlockCopied
PROPERTIES
  CopyEnds
CHECK_DEADLOCK FALSE
