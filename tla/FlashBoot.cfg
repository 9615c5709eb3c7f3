SPECIFICATION BootSpec
CONSTANTS
  PageWords = 2
  SecPages = 2
  WordBytes = 2
  TxCap = 12
  Tasks = {t1}
  MaxBacklog = 0
  NoTask = NoTask
  Unknown = Unknown
  Habits = {"illegal", "cross", "small"}
  Requests <- BootRequests
  rangestart <- OneRangeStart
  rangeend <- OneRangeEnd
  Junk <- MCJunk
  LoadWord <- MCLoadWord
  MaxAddr = 15
  MaxRanges = 2
  MaxLoads = 2
  LoadStarts = {0, 4, 8, 12}
  LoadSizes = {2, 4, 6, 8, 12}
INVARIANTS RangesRight PagesDistinct ErasedIsEmpty
PROPERTIES PreloadExact EraseBeforeWrite
CHECK_DEADLOCK FALSE
