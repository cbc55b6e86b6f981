SPECIFICATION Spec
CONSTANTS
  Byte = {0, 7}
  LineControls = {1, 3, 128}
  FIFO_SIZE = 2
  OverflowChecks = TRUE
  MaxArrived = 3
  MaxWritten = 3
INVARIANTS
  ReceivedInOrder
  SentInOrder
PROPERTY BytesGoOut
CHECK_DEADLOCK FALSE
