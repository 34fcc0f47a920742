SPECIFICATION Spec
CONSTANTS
  MaxUnits = 1
  Request <- Nobody
  Debug = FALSE
INVARIANTS PlayerIsBlue
CHECK_DEADLOCK FALSE
