---------------------------- MODULE ReleaseChecks ----------------------------
(***************************************************************************)
(* The five checks of the promotion gate of api/main.py, each on what its  *)
(* source of evidence says, and the status of a gate.  The gate itself     *)
(* (PromotionGate) and the reports that start from it (OperationsPlan)     *)
(* share them.  Rates are in hundredths.                                   *)
(***************************************************************************)
EXTENDS Naturals

\* The defaults of PromotionPreflightRequest and PromotionDecisionRequest.
MaxP0P1 == 0
MaxActive == 10
MaxFailureRate == 5
MaxNegativeRate == 40
MinToolCalls == 1
MinFeedback == 5

GateChecks == <<"readiness", "monitor_alerts", "tool_audit", "feedback", "staging_eval_gate">>
EvidenceSource == {GateChecks[i] : i \in DOMAIN GateChecks}

-----------------------------------------------------------------------------
(* The checks. *)

ReadinessCheck(r) ==
  IF r.failed THEN "blocked" ELSE IF ~ r.deep /\ r.skipped THEN "warn" ELSE "passed"

AlertCheck(m) ==
  IF m.p0p1 > MaxP0P1 THEN "blocked"
  ELSE IF m.active > MaxActive \/ m.news > 0 THEN "warn" ELSE "passed"

ToolCheck(t) ==
  IF t.calls < MinToolCalls THEN "warn"
  ELSE IF t.rate > MaxFailureRate THEN "blocked" ELSE "passed"

FeedbackCheck(f) ==
  IF f.count < MinFeedback THEN "warn"
  ELSE IF f.rate > MaxNegativeRate THEN "blocked" ELSE "passed"

EvalCheck(e) ==
  IF e.status # "passed" THEN "blocked" ELSE IF e.old THEN "warn" ELSE "passed"

CheckOf(s, reading) ==
  CASE s = "readiness"      -> ReadinessCheck(reading)
    [] s = "monitor_alerts" -> AlertCheck(reading)
    [] s = "tool_audit"     -> ToolCheck(reading)
    [] s = "feedback"       -> FeedbackCheck(reading)
    [] OTHER                -> EvalCheck(reading)

StatusOf(gate) ==
  IF \E s \in EvidenceSource : CheckOf(s, gate[s]) = "blocked" THEN "blocked"
  ELSE IF \E s \in EvidenceSource : CheckOf(s, gate[s]) = "warn" THEN "warn" ELSE "passed"
=============================================================================
