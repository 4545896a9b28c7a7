SPECIFICATION FairSpec
CONSTANTS
  d1 = d1
  d2 = d2
  MaxConnects = 2
  MaxMsgs = 2
  Disconnects = {d1, d2}
  Usage = "connection"
INVARIANT TypeOK
INVARIANT LoopReadsOwnSocket
INVARIANT AllMessagesHandled
PROPERTY TransportCallsComplete
PROPERTY CanceledLoopEnds
CHECK_DEADLOCK FALSE
