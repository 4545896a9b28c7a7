SPECIFICATION Spec
CONSTANTS
  d1 = d1
  d2 = d2
  MaxConnects = 3
  MaxMsgs = 0
  Disconnects = {d1, d2}
  Usage = "free"
SYMMETRY Symmetry
INVARIANT CanceledHasNoSocket
PROPERTY LinkSpec
CHECK_DEADLOCK FALSE
