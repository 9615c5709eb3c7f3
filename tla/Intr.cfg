SPECIFICATION Spec
CONSTANTS
  h1 = h1
  h2 = h2
  Handles = {h1, h2}
  None = None
  Ints = {2, 7, 19}
  Wired = 43
  Sources <- MCSources
  Requests <- MCRequests
SYMMETRY Symmetry
INVARIANTS OwnersKnown Routed MasksAgree FoundUnlessStale
CHECK_DEADLOCK FALSE
