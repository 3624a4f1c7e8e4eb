CONSTANTS
  Conn = {c1}
  Producer = {p1}
  Nobody = Nobody
  Channel = {}
  QueueSize = 1
  MaxId = 2
  MaxEvents = 2
  AnyNumber = FALSE
SPECIFICATION FairSpec
CHECK_DEADLOCK FALSE
PROPERTIES TerminationDeletes
