SPECIFICATION Spec
CONSTANTS
  MaxUnits = 1
  Request <- Nobody
  Debug = FALSE
INVARIANTS MarkerOwnsControl
CHECK_DEADLOCK FALSE
