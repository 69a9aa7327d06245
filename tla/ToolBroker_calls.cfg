SPECIFICATION FairSpec
CONSTANTS
  Caller = {c1, c2}
  Attempts = 2
  Threshold = 2
  Reset = 2
  Payload = {"p", "q"}
  Lease = 3
  WorkBound = 2
  MaxTickets = 3
INVARIANTS HandlersAreExclusive SuccessesAgree OpenedAtThreshold
PROPERTIES CompletedIsFinal OpenIsQuiet OpenEnds
