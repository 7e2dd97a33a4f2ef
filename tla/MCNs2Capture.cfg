SPECIFICATION Spec
CONSTANTS
  TicksPerSecond = 10
  NumIntervals = 4
  NumSubintervals = 2
  NumPorts = 3
  NumSizes = 3
  NumAddr = 5
  ByteMode = TRUE
  MaxLines = 4
  Traces <- MCTraces
INVARIANTS
  TalliesExact
  SynNeverMissed
CHECK_DEADLOCK FALSE
