SPECIFICATION Spec
CONSTANTS
  a1 = a1
  a2 = a2
  e1 = e1
  e2 = e2
  NoOp = NoOp
  Usage = "awaited"
  MaxStarts = 2
  AppStops = {a1, a2}
  Errors = {e1, e2}
SYMMETRY Symmetry
INVARIANT RequestsHaveTransport
INVARIANT DisconnectedHasNoTransport
INVARIANT SignaledIsSettled
INVARIANT TokenOfThisSession
PROPERTY LifecycleSpec
CHECK_DEADLOCK FALSE
