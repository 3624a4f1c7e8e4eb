CONSTANTS
  Udid = {u1, u2}
  NullUdid = NullUdid
  MaxNode = 1
  CacheConfigured = TRUE
  MaxEntries = 2
  Object = {n1, n2}
  Null = Null
  Firmware = {2, 3}
  PingerRunning = TRUE
SPECIFICATION Spec
SYMMETRY Symmetry
INVARIANTS CacheForward DurableWhenQuiet
PROPERTIES NoSteal
