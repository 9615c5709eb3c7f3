SPECIFICATION Spec
CONSTANTS
  PageWords = 2
  SecPages = 1
  WordBytes = 2
  TxCap = 12
  Tasks = {t1, t2}
  MaxBacklog = 12
  NoTask = NoTask
  Unknown = Unknown
  Habits = {}
  Requests <- LegalRequests
  rangestart <- TwoRangesStart
  rangeend <- TwoRangesEnd
  Junk <- MCJunk
INVARIANTS PortExclusive InStep LegalNeverStops ReadIsExact
PROPERTIES ImplementsFlash Served
