SPECIFICATION Spec
CONSTANTS
  TicksPerSecond = 10
  OffsetTicks = 1
  StartTime = 0
  MaxTime = 2
  NumSubintervals = 2
  WindowTicks = 10
  NumPorts = 3
  NumSizes = 3
  NumAddr = 5
  ByteMode = FALSE
  Links = {"sll", "other"}
  Stamps = {0, 3, 12, 19}
  MaxRecords = 3
  ServerIps <- MCServerIps
  Frames <- MCFrames
  Captures <- MCCaptures
INVARIANTS
  TypeOK
  TalliesExact
  TracesMatchCounters
  LossOnlyAfterLateRecord
  StrayOnlyBeforeTimeZero
  SpareSlotEmpty
CHECK_DEADLOCK FALSE
