---------------------------- MODULE MCAuditExport ----------------------------
\* Export workers with an owner_id of their own; small batches, and a manual
\* window beside the regular options.
EXTENDS AuditExport, TLC

CONSTANTS w1, w2

MCOwner == [w \in Worker |-> w]
Workers == Permutations(Worker)

Regular  == [sources |-> {"event", Ops}, after |-> 0, before |-> 0,
             incremental |-> TRUE, limit |-> 2, order |-> "asc"]
Window   == [Regular EXCEPT !.after = 2]
Backward == [Regular EXCEPT !.order = "desc"]
Wide     == [Regular EXCEPT !.limit = 9]

MCOptions   == {Backward, Window}
WideOptions == {Wide}

\* Rows of two sources; the others are empty.
Rows(events, operations) ==
  [s \in Source |-> CASE s = "event" -> events [] s = Ops -> operations [] OTHER -> 0]
FewRows  == Rows(2, 2)
MoreRows == Rows(1, 3)
=============================================================================
