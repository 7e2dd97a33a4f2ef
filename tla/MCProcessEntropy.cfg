SPECIFICATION SpecProgram
CONSTANTS
  TicksPerSecond = 10
  OffsetTicks = 1
  StartTime = 0
  MaxTime = 3
  NumSubintervals = 2
  WindowTicks = 10
  FirstWindow = 2
  NumPorts = 3
  NumSizes = 3
  NumAddr = 5
  NumSamples = 7
  NumFlows = 3
  IntLimit = 4
  ByteMode = TRUE
  Links = {"other"}
  Stamps = {0, 4, 12, 28}
  MaxRecords = 3
  ServerIps = {}
  Frames <- MCFrames
  Captures <- MCCaptures
INVARIANTS
  TermsAreDistributions
  WindowsAligned
PROPERTIES
  ReportSpec
  ProgramTerminates
CHECK_DEADLOCK FALSE
