SPECIFICATION FairSpec
CONSTANTS
  a1 = a1
  a2 = a2
  e1 = e1
  e2 = e2
  NoOp = NoOp
  Usage = "once"
  MaxStarts = 1
  AppStops = {a1, a2}
  Errors = {e1, e2}
INVARIANT TypeOK
INVARIANT NoNullTransport
INVARIANT StateAssertions
INVARIANT WaitIsForSomeone
INVARIANT TeardownExcludesReconnect
INVARIANT ReconnectNeverThrows
PROPERTY CallsComplete
PROPERTY FairLifecycle
CHECK_DEADLOCK FALSE
