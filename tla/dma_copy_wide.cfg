SPECIFICATION CopySpec
CONSTANTS
  Nibble = 2
  Bits = {0, 1, 2, 3, 4}
  Headers = {}
  Bytes = {}
  Patterns = {}
  Controls = {}
  Masks = {}
  InitialBus <- AllDistinct
  ReadLimit = 0
  Jobs <- WideJobs
  LaterJobs = {}
  Blocks = 1
  Detour = FALSE
INVARIANTS
  BlockAnywhereCopied
CHECK_DEADLOCK FALSE
