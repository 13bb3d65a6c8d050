SPECIFICATION FairSpecOfBoth
CONSTANTS
  Tags = {g1, g2}
  MaxTip = 2
  NoWork = NoWork
  PollDelay = 1
  ZmqDelay = 2
  FailureDelay = 2
  RefreshAfter = 2
  StaleAfter = 3
  RpcTimeout = 1
  Backoff <- MCBackoff
  ConnectTimeout = 1
  FirstTag = g1
  MaxTagSets = 1
INVARIANTS
  TipsArriveInTime
  StalenessBounded
  ReachableHasTemplate
  SubscriptionWorks
PROPERTIES
  ImplementsFeed
  EventuallySettled
