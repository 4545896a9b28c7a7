SPECIFICATION FairSpec
CONSTANTS
  i1 = i1
  i2 = i2
  c1 = c1
  c2 = c2
  Invocations = {i1, i2}
  HubStops = {c1}
  MaxSessions = 2
  Usage = "quiet"
INVARIANT TypeOK
INVARIANT NothingPendingWhenDown
INVARIANT NothingPendingAfterLoss
INVARIANT RepliesAnswer
INVARIANT CallbacksArePending
PROPERTY TasksCompleteOnce
PROPERTY AnsweredWhenDown
CHECK_DEADLOCK FALSE
