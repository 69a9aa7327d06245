-------------------------- MODULE MCPromotionGate --------------------------
(* Readings of the five sources: alerts and eval runs that change. *)
EXTENDS PromotionGate

Gate == [s \in EvidenceSource |->
  CASE s = "readiness"      -> {[failed |-> FALSE, deep |-> TRUE, skipped |-> FALSE]}
    [] s = "monitor_alerts" -> {[p0p1 |-> n, active |-> 0, news |-> 0] : n \in {0, 1}}
    [] s = "tool_audit"     -> {[calls |-> 1, rate |-> 0]}
    [] s = "feedback"       -> {[count |-> 5, rate |-> 0]}
    [] OTHER                -> {[run |-> "g1", status |-> "passed", old |-> FALSE],
                                [run |-> "g2", status |-> "failed", old |-> FALSE]}]
=============================================================================
