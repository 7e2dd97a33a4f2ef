SPECIFICATION Spec
CONSTANTS
  TicksPerSecond = 10
  OffsetTicks = 1
  Delay = 14
  HdrRoom = 3
  BufferRoom = 5
  Stamps = {3, 7, 16, 17, 25, 30}
  MaxRecords = 4
  MaxUnordered = 3
  Captures <- MCCaptures
INVARIANTS
  EveryPacketAccounted
  OutputInOrder
  AttackKeepsRhythm
  LostAtTheEnd
  OverrunOnlyWhenFull
PROPERTY FifoSpec
CHECK_DEADLOCK FALSE
