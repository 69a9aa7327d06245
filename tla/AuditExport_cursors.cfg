SPECIFICATION Spec
CONSTANTS
  w1 = w1
  w2 = w2
  Worker = {w1}
  Owner <- MCOwner
  Ttl = 1
  WorkBound = 2
  MaxCrashes = 0
  Options <- WideOptions
  LookBack = 100
  Late = 0
  MaxRows <- MoreRows
  MaxTime = 3
PROPERTIES CursorsAdvance
CHECK_DEADLOCK FALSE
