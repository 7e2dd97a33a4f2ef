SPECIFICATION SpecFlood
CONSTANTS
  Sockets = {s1, s2}
  Peers = {p1, p2}
  Routed = {s1}
  Randomize = FALSE
  TicksInSecond = 3
  Gap = 1
  MaxTime = 5
  MaxSends = 3
INVARIANTS
  OnsetsExact
  FileOfLastCloser
CHECK_DEADLOCK FALSE
