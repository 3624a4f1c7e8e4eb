CONSTANTS
  Conn = {c1, c2}
  Producer = {p1}
  Nobody = Nobody
  Channel = {ch}
  QueueSize = 1
  MaxId = 1
  MaxEvents = 2
  AnyNumber = FALSE
SPECIFICATION Spec
CHECK_DEADLOCK FALSE
SYMMETRY Symmetry
INVARIANTS NoPanic ListExact SameOrder
