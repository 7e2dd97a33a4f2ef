SPECIFICATION SpecSweep
CONSTANTS
  TicksPerSecond = 4
  Subintervals = 2
  Samples = 5
  Thresholds = 3
  FixedAttacks = 2
  AttackTimes <- MCAttackTimes
INVARIANTS
  CountsExact
  SampleMostPersistent
  SampleDelaysExact
CHECK_DEADLOCK FALSE
