SPECIFICATION Spec
CONSTANTS
  Tests <- MCTests
  Cusums <- MCCusums
  TxtFiles <- MCTxtFiles
INVARIANTS
  LaterDetectorsFollow
  EarlierArchived
PROPERTY AllMoved
CHECK_DEADLOCK FALSE
