CONSTANTS
  Caller = {p1}
  Nobody = Nobody
  Redial = TRUE
  MayTerminate = FALSE
  ChannelSize = 1
  MaxId = 2
  MaxDials = 2
  MaxSent = 1
  MaxEvents = 1
SPECIFICATION FairSpec
CHECK_DEADLOCK FALSE
PROPERTIES Reconnects
