CONSTANTS
  Caller = {p1, p2}
  Nobody = Nobody
  Redial = TRUE
  MayTerminate = TRUE
  ChannelSize = 1
  MaxId = 2
  MaxDials = 2
  MaxSent = 2
  MaxEvents = 1
SPECIFICATION FairSpec
CHECK_DEADLOCK FALSE
INVARIANTS NumbersConsecutive AnswerMatches OneReader
PROPERTIES Completed
