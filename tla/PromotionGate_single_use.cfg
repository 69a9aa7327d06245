\* Two decisions of one actor on one preflight, the readiness checks awaited in between.
SPECIFICATION PromotionSpec
CONSTANTS
  Actor = {"root"}
  Preflight = {"p1"}
  GateRequest = {"q1", "q2", "q3"}
  Readings <- Gate
  MaxChanges = 1
INVARIANT SingleUse
CHECK_DEADLOCK FALSE
