CONSTANTS
  Client = {c1}
  Sizes = {2}
  MaxPages = 2
  OutSize = 1
  QueueSize = 1
  MaxOps = 2
  MaxReboots = 1
  MaxFaults = 1
SPECIFICATION FairSpec
CHECK_DEADLOCK FALSE
INVARIANTS StaleNeedsOverlap PanicNeedsDeparture SuccessIsWritten EndReported
PROPERTIES OperationEnds
