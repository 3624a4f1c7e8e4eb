CONSTANTS
  Udid = {u1, u2}
  NullUdid = NullUdid
  MaxNode = 2
  CacheConfigured = TRUE
  MaxEntries = 2
  Object = {n1, n2, n3}
  Null = Null
  Firmware = {3}
  PingerRunning = TRUE
SPECIFICATION Spec
SYMMETRY Symmetry
INVARIANTS TypeOK Consistent
PROPERTIES StableAddress IdNotReused RemovesOwnDevice
