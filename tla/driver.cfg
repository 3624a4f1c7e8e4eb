CONSTANTS
  Sender = {s1, s2}
  NodeId = {i0}
  TxSize = 1
  RxSize = 1
  MaxFrames = 2
  MaxMessages = 2
  MaxReceived = 2
  MaxFails = 1
SPECIFICATION Spec
CHECK_DEADLOCK FALSE
INVARIANTS RxExact NoLostEdge
PROPERTIES DeliversMessages
