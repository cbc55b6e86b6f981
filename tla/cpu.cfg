SPECIFICATION Spec
CONSTANTS
  Guests <- MCGuests
  Code <- GuestCode
  Data <- GuestData
  Inputs = {7, 128}
  Acknowledge = 16
  Raises = 2
INVARIANTS
  CpuTypeOK
  PromiseKept
  EachServedOnce
  StackBounded
  NoUnimplementedMode
PROPERTY ProgramHalts
CHECK_DEADLOCK FALSE
