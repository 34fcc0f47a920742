SPECIFICATION Spec
CONSTANTS
  g0 = g0
  g1 = g1
  Game <- TwoGames
  LossRecords = FALSE
  MaxWrites = 7
  MaxCrash = 3
INVARIANTS
  TypeOK
  ValidIsWhole
SYMMETRY Swapping
CHECK_DEADLOCK FALSE
