SPECIFICATION Spec
CONSTANTS
  Stops = {s1, s2}
  Mints = FALSE
  MaxMoves = 1
INVARIANTS StopWaits
CHECK_DEADLOCK FALSE
