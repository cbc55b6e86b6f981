SPECIFICATION Spec
CONSTANTS
  Nibble = 2
  Bits = {0}
  Headers <- SomeHeaders
  Bytes = {0}
  Patterns = {{}}
  Controls <- SomeControls
  Masks <- SomeMasks
  InitialBus <- Empty
  ReadLimit = 1
INVARIANTS
  DmaTypeOK
  WriteOrderBounded
  ParametersOfOneCommand
PROPERTIES
  BlockEnds
CHECK_DEADLOCK FALSE
