SPECIFICATION Spec
CONSTANTS
  g0 = g0
  g1 = g1
  Game <- TwoGames
  LossRecords = TRUE
  MaxWrites = 7
  MaxCrash = 2
INVARIANTS
  SuspendsBelong
PROPERTIES
  SuspendKeepsOld
SYMMETRY Swapping
CHECK_DEADLOCK FALSE
