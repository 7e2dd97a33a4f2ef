SPECIFICATION Spec
CONSTANTS
  NumAddr = 3
  NumSamples = 7
  NumFlows = 3
  NumIntervals = 5
  FirstWindow = 2
  Windows = {2}
  Filled = 3
  Pairs <- MCPairs
INVARIANT EveryFlowNumbered
CHECK_DEADLOCK FALSE
