SPECIFICATION Spec
CONSTANTS
  Tasks = {t1, t2, t3}
  Count = 1
INVARIANTS Conservation NoLostWakeup
PROPERTIES FreeTokenIsUsed
