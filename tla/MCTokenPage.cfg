SPECIFICATION Spec
CONSTANTS
  Intervals = {"5m", "1h"}
  DedupeCapacity = 1
  ReMining = TRUE
  MaxHeight = 3
  MaxTrades = 2
  MaxReorgs = 1
  MaxLosses = 1
  MaxRedeliveries = 1
  MaxSwitches = 2
  MaxConcerns = 2
INVARIANTS
  SurfacesComplete
  NoDoubleCount
PROPERTIES
  EventuallyRetired
ACTION_CONSTRAINT FewConcerns
CHECK_DEADLOCK FALSE
