SPECIFICATION Spec
CONSTANTS
  Bits = 3
  Bytes <- MCBytes
  Rates = {38400}
  StopBits = {1, 2}
  ToSize = 1
  FromSize = 1
  Dead = 1
  Timeouts = {9}
  MaxSent = 3
  None = None
INVARIANTS FramingExact NothingLost
PROPERTIES NobodyStuck
CHECK_DEADLOCK FALSE
