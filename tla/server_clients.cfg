CONSTANTS
  Conn = {c1}
  Producer = {p1}
  Nobody = Nobody
  Channel = {ch}
  QueueSize = 2
  MaxId = 3
  MaxEvents = 2
  AnyNumber = TRUE
SPECIFICATION FairSpec
CHECK_DEADLOCK FALSE
INVARIANTS NumberingAgrees AckAnswersRequest
PROPERTIES TerminationDeletesUnlessFull
