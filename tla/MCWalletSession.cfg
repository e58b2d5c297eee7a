CONSTANTS
  Addresses = {a, b}
  Arc = arc
  Other = other
  ConfiguredChain = arc
  ExecutionFlag = TRUE
  None = none
  MaxMoves = 3
SPECIFICATION Spec
INVARIANTS SignsForWhoWasShown
PROPERTIES SwitchEndsOnArc ReadyInTheEnd
CHECK_DEADLOCK FALSE
