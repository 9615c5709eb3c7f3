SPECIFICATION Spec
CONSTANTS
  Frames <- MCFrames
  Retries = {1}
  Endless = 255
  Cap = 2
  Long = 3
  MaxFrames = 3
  LeaveUnread = FALSE
  SlowFrames = FALSE
  None = None
INVARIANTS RightAnswer AckFirst IrqTells
PROPERTIES Answered
CHECK_DEADLOCK FALSE
