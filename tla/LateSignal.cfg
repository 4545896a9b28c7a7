SPECIFICATION Spec
CONSTANTS
  a1 = a1
  a2 = a2
  e1 = e1
  e2 = e2
  NoOp = NoOp
  Usage = "free"
  MaxStarts = 2
  AppStops = {a1}
  Errors = {}
INVARIANT ShutdownAssertion
CHECK_DEADLOCK FALSE
