SPECIFICATION Spec
CONSTANTS
  i1 = i1
  i2 = i2
  c1 = c1
  c2 = c2
  Invocations = {i1}
  HubStops = {c1}
  MaxSessions = 2
  Usage = "quiet"
PROPERTY LostOnlyWhenLost
CHECK_DEADLOCK FALSE
