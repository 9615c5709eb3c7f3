SPECIFICATION Spec
CONSTANTS
  Bits = 3
  Fifo = 8
  DeviceId <- MCId
  Addrs <- MCAddrs
  Values <- MCValues
  Sizes = {2, 3}
  Inputs <- MCInputs
  None = None
  Hasty = FALSE
INVARIANTS ReadIsSample WriteReaches AnswerRight BusReleased IntrTellsChange
PROPERTIES CallsReturn
CHECK_DEADLOCK FALSE
