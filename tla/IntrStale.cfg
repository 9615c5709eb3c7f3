SPECIFICATION Spec
CONSTANTS
  h1 = h1
  h2 = h2
  Handles = {h1, h2}
  None = None
  Ints = {2, 19}
  Wired = 43
  Sources <- StaleSources
  Requests <- StaleRequests
SYMMETRY Symmetry
INVARIANT FoundIfFree
CHECK_DEADLOCK FALSE
