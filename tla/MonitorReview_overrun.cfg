SPECIFICATION FairMonitorSpec
CONSTANTS
  w1 = w1
  w2 = w2
  w3 = w3
  Worker = {w1, w2}
  Owner <- DistinctOwner
  Periodic = {w1}
  Ttl = 2
  BusyWait = 1
  WorkBound = 3
  MaxCrashes = 1
  MaxRuns = 2
  NoIntent = {1}
  Limit = 2
  MaxFailures = 1
INVARIANT ReviewedOnce
PROPERTIES NoTheft SuccessIsReviewed LockIsGrantedAgain EveryRunIsReviewed
