\* The other parts of the service, one moving in each behaviour.
SPECIFICATION ServiceSpec
CONSTANTS
  x1 = x1  x2 = x2
  y1 = y1  y2 = y2  y3 = y3
  Text <- MCText
  Process <- Pair
  User = {"u1", "u2"}
  MaxTurns = 2
  MaxFaults = 2
  Operator <- Pair
  Asked = {"keep", "resolved", "silenced"}
  Window = 2
  MaxClock = 1
  MaxSeen = 3
  MaxTriage = 2
  Author = {"a1"}
  Reviewer <- Pair
  MaxReviews = 3
  GateRun <- Pair
  Suites = 2
  Actor = {"root"}
  Preflight = {"p1"}
  GateRequest <- Triple
  Readings <- Gate
  MaxChanges = 2
  Call <- Triple
  Nonce <- Pair
  Key = {"k1"}
  MaxAge = 2
  Skew = 1
  Cost = 2
  Burst = 3
  StaleAfter = 4
  MaxLag = 1
  MaxTime = 5
  Document = {"d1", "d2"}
  SourceOf <- MCSourceOf
  Wording = {"both", "match"}
  Scope = {"billing"}
  Ingester = {"i1"}
  MaxHits = 1
  MaxScan = 2
  Saying <- Troubles
  Calm <- AllWell
  MaxTroubles = 1
  MaxShifts = 1
  MaxExecutions = 1
  Worker = {"w1", "w2", "w3"}
  Owner <- SharedOwner
  Periodic = {"w1"}
  Ttl = 6
  BusyWait = 1
  WorkBound = 3
  MaxCrashes = 2
SYMMETRY Alike
CHECK_DEADLOCK FALSE
INVARIANTS
  PlanFitsRoute VerdictsAgree MemoryMeetsLog OneOwner
  NothingNewIsHidden PassedMeansAllPassed
  AcceptedOnceWhileFresh TokensInBudget
  ReportAgreesWithGate BlockedGateIsAddressed QuietPlanIsJustified
  OneAtATime LockCoversWork
PROPERTIES
  NoBlindTriage CommittedReviewsAreSeen NoApprovalWhileBlocked SearchServesDocuments
