SPECIFICATION Spec
CONSTANTS
  w1 = w1
  w2 = w2
  Worker = {w1, w2}
  Owner <- MCOwner
  Ttl = 1
  WorkBound = 1
  MaxCrashes = 1
  Options <- MCOptions
  LookBack = 2
  Late = 0
  MaxRows <- FewRows
  MaxTime = 2
SYMMETRY Workers
INVARIANTS NothingSkipped CompleteIsComplete
CHECK_DEADLOCK FALSE
