SPECIFICATION Spec
CONSTANTS
  t1 = t1
  t2 = t2
  Tasks = {t1, t2}
  Units = {0}
  Setup <- MCUpDown
  Ops <- BothOps
  BusLevels <- OneChannel
  CntMod = 8
  MaxLock = 2
INVARIANTS Fresh CountVisible ResetHolds CountRight
PROPERTIES ClearClears
