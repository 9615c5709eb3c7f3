SPECIFICATION Spec
CONSTANTS
  Tasks = {t1, t2}
  Clocks <- MCClocks
  Jobs <- MCTransfers
  BufBits = 32
  None = None
INVARIANTS ExactOnWire ReceivedExact
PROPERTIES LockComesBack
