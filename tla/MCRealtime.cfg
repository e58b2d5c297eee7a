\* One market that moves from its curve to its pool, and one browser that is slow.
SPECIFICATION RealtimeSpec
CONSTANTS
  c1 = c1
  t1 = t1
  Tokens = {t1}
  Launch <- LaunchOne
  Graduation <- GraduateOne
  MaximumBackfillBlocks = 2
  DedupCapacity = 2
  SubscriberBuffer = 1
  Clients = {c1}
  MaximumSubscribers = 1
  MaxBlocks = 4
  MaxLogs = 2
  MaxForks = 2
  MaxOutages = 1
  MaxSkips = 1
INVARIANTS
  EveryTradeAccounted
  SubscribersMissNothing
  PublishedOnce
  FeedMatchesChain
PROPERTIES
  EventuallyPublished
CHECK_DEADLOCK FALSE
