CONSTANTS
  d1 = d1
  d2 = d2
  Alert = {"a1", "a2"}
  Dispatcher <- MCDispatcher
  WorkerId <- MCWorkerId
  MaxRows = 2
  BatchLimit = 1
  AttemptLimits = {2}
  ClaimLease = 1
  PostLease = 2
  PostBound = 1
  BackoffBase = 1
  BackoffMax = 1
  MaxCrashes = 1
SPECIFICATION FairSpec
PROPERTIES
  EveryRowSettles
  ActiveIsEnqueued
