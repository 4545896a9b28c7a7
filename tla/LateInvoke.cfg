SPECIFICATION Spec
CONSTANTS
  i1 = i1
  i2 = i2
  c1 = c1
  c2 = c2
  Invocations = {i1}
  HubStops = {c1}
  MaxSessions = 1
  Usage = "free"
INVARIANT NothingPendingWhenDown
CHECK_DEADLOCK FALSE
