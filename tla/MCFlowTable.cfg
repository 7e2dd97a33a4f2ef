SPECIFICATION Spec
CONSTANTS
  NumAddr = 3
  NumSamples = 4
  NumFlows = 2
  NumIntervals = 6
  FirstWindow = 2
  Windows = {1, 2, 3}
  Filled = 4
  Pairs <- MCPairs
INVARIANTS
  FlowNumbersExact
  FlowSizesExact
  OverrunOnlyWhenTooLong
  FlowWindowsEvaluated
CHECK_DEADLOCK FALSE
