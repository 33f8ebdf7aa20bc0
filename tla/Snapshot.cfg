SPECIFICATION LockSpec
CONSTANTS
  Words = {left, right}
  Readers = {page, voice}
  Idle = Idle
  Wrap = 2
  MaxPublished = 4
PROPERTIES IsAtomicRegister FinalFrameArrives
CHECK_DEADLOCK FALSE
