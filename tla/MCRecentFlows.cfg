SPECIFICATION Spec
CONSTANTS
  NumIntervals = 5
  NumSubintervals = 2
  NumPorts = 2
  NumSizes = 3
  ByteMode = FALSE
  IntLimit = 8
  MaxPort = 2
  MaxAddress = 3
  Filled = 5
INVARIANTS
  TotalsTrackWindow
  GrandTotal
  RecentFlowsListed
  NeverUnderstated
  SteadyFlowsExact
  WindowFlowsCovered
  PercentOfMaximum
  ExtremesExact
  UndefinedOnly
  EmptyWindowZero
CHECK_DEADLOCK FALSE
