CONSTANTS
  d1 = d1
  d2 = d2
  Alert = {"a1"}
  Dispatcher <- MCDispatcher
  WorkerId <- MCWorkerId
  MaxRows = 2
  BatchLimit = 2
  AttemptLimits = {1, 2}
  ClaimLease = 1
  PostLease = 2
  PostBound = 3
  BackoffBase = 1
  BackoffMax = 1
  MaxCrashes = 1
SPECIFICATION Spec
PROPERTIES
  ImplementsLedger
