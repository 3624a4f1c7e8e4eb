CONSTANTS
  Sample <- MCSample
  Follow <- MCFollow
  FirstMsgId = 255
  MaxSent = 2
  MaxKept = 8
SPECIFICATION Spec
CHECK_DEADLOCK FALSE
INVARIANTS InSync Faithful RefusedForName BusExact
