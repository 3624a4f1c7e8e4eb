CONSTANTS
  Id = {1}
  QueueSize = 1
  RxSize = 3
  Capacity = 3
  MaxFrames = 3
  MaxMessages = 3
  MaxAsked = 2
  MaxLost = 1
SPECIFICATION FairSpec
CHECK_DEADLOCK FALSE
INVARIANTS TypeOK OneHandler PanicNeedsRepeat MixedNeedsTear
PROPERTIES Answered
