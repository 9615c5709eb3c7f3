SPECIFICATION Spec
CONSTANTS
  Tasks = {t1, t2}
  Clocks <- MCClocks
  Jobs <- MCWrites
  BufBits = 32
  None = None
INVARIANTS InBuffer
