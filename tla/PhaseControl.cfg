SPECIFICATION FairSpec
CONSTANTS
  MaxUnits = 2
  Request <- Everyone
  Debug = TRUE
INVARIANTS TypeOK LentForOnePhase NoSuspendInBluePhase
PROPERTIES RunningKeepsControl ControlReturns
CHECK_DEADLOCK FALSE
