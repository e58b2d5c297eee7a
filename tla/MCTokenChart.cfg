CONSTANTS
  Intervals = {1, 2}
  VisibleBars = 4
  Horizon = 4
  GapBuckets = 2
  FallbackBars = 2
  LogicalWidth = 4
  RightOffset = 1
  Tolerance = 1
  Prices <- MCPrices
  Pasts <- MCPasts
  Steps = {0, 4}
  MaxTrades = 2
  MaxReorgs = 1
  MaxPans = 1
  MaxSwitches = 1
SPECIFICATION ChartSpec
INVARIANTS CandlesAreTheTrades FeedIsCurrent OpensOnTheNewestSession
CHECK_DEADLOCK FALSE
