SPECIFICATION Spec
CONSTANTS
  m1 = m1
  m2 = m2
  Worker = {m1, m2}
  Owner <- MCOwner
  Ttl = 1
  WorkBound = 2
  MaxCrashes = 1
  Path = {"p"}
  MayReplace = FALSE
  MaxRows = 2
  MaxTime = 4
  Late = 1
  Retention = 2
  MaxTokens = 1
PROPERTIES DeletedRowsAreBackedUp DeletedRowsWerePreviewed
CHECK_DEADLOCK FALSE
SYMMETRY Symmetry
