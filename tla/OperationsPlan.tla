--------------------------- MODULE OperationsPlan ---------------------------
(***************************************************************************)
(* What the operations console is told by api/main.py: the automation plan *)
(* (what to do now) and the SLO report (how the service does).  Both start *)
(* from the promotion gate and then read on: the plan reads the monitor a  *)
(* second time and the outbox twice, the report the outbox twice, the      *)
(* review workers and the ledger of executions.  Each read is a            *)
(* transaction of its own, and between two reads other processes write.    *)
(*                                                                         *)
(* Two requests share nothing but what they read, so one is followed.      *)
(* Rates are in hundredths (the code keeps four digits), the rows of an    *)
(* alert's severity, owner and age are what the plan looks at, and a       *)
(* worker's heartbeat is fresh or stale.  An event store is configured.    *)
(***************************************************************************)
EXTENDS ReleaseChecks, Integers, Sequences, FiniteSets, SequencesExt

CONSTANTS
  Saying,         \* what there is to read of each source
  Calm,           \* what each source says when nothing is wrong
  MaxTroubles,    \* bound: sources that are not calm when the request begins
  MaxShifts,      \* bound: changes of a source during the request
  MaxExecutions   \* bound: rows of the ledger

OpsSource == EvidenceSource \cup {"outbox", "workers"}

Ranked      == <<"P0", "P1", "P2", "P3">>
NotMeasured == -1

\* The types of what is read.
AlertRow == [severity : Range(Ranked), active : BOOLEAN, news : BOOLEAN, owned : BOOLEAN, stale : BOOLEAN]
AnySaying ==
  [readiness         |-> [failed : BOOLEAN, deep : BOOLEAN, skipped : BOOLEAN],
   monitor_alerts    |-> [alerts : Seq(AlertRow), events : Nat, grounded : Nat, compliant : Nat,
                          human : Nat, mtta : Nat \cup {NotMeasured}],
   tool_audit        |-> [calls : Nat, rate : Nat],
   feedback          |-> [count : Nat, rate : Nat],
   staging_eval_gate |-> [status : {"none", "passed", "failed", "error"}, old : BOOLEAN],
   outbox            |-> [webhook : BOOLEAN, waiting : Nat, failed : Nat, dead : Nat,
                          deadSeverity : Range(Ranked), gaps : Nat, tracking : BOOLEAN,
                          dispatcher : {"active", "stale", "missing", "disabled", "unknown"}],
   workers           |-> [beats : Seq([fresh : BOOLEAN, failed : Nat])]]

ASSUME OperationsAssumption ==
  /\ MaxTroubles \in Nat /\ MaxShifts \in Nat /\ MaxExecutions \in Nat
  /\ DOMAIN Saying = OpsSource /\ DOMAIN Calm = OpsSource
  /\ \A s \in OpsSource : Saying[s] \subseteq AnySaying[s] /\ Calm[s] \in Saying[s]

VARIABLES
  signals,   \* source -> what it would say now
  shifts,    \* changes so far
  ledger,    \* status -> executions recorded with it
  report     \* the request

operationsVars == <<signals, shifts, ledger, report>>

-----------------------------------------------------------------------------
(* Summaries of what is read. *)

IsP0P1(alert)         == alert.severity \in {"P0", "P1"}
NeedsAttention(alert) == alert.active \/ alert.news

\* The places of the alerts that pass a test, and the first of some: alerts come
\* the most severe first.
Places(m, Test(_))  == {i \in DOMAIN m.alerts : Test(m.alerts[i])}
CountOf(m, Test(_)) == Cardinality(Places(m, Test))
FirstPlace(places)  == CHOOSE i \in places : \A j \in places : i <= j

Pressing(m)     == Places(m, NeedsAttention)
PressingP0P1(m) == {i \in Pressing(m) : IsP0P1(m.alerts[i])}
ActiveP0P1(m) == CountOf(m, LAMBDA a : a.active /\ IsP0P1(a))
ActiveAlerts(m) == CountOf(m, LAMBDA a : a.active)

\* What the alert check of the gate looks at.
AlertCounts(m) == [p0p1 |-> ActiveP0P1(m), active |-> ActiveAlerts(m),
                   news |-> CountOf(m, LAMBDA a : a.news)]

GateStatus(s, reading) == CheckOf(s, IF s = "monitor_alerts" THEN AlertCounts(reading) ELSE reading)

BacklogThreshold == 10
Tracked(o)    == o.webhook /\ o.tracking
Dispatcher(o) == IF o.webhook THEN o.dispatcher ELSE "disabled"

\* summarize_alert_deliveries: rows that wait are pending or in progress.
DeliveryStatus(o) ==
  IF ~ o.webhook THEN "disabled"
  ELSE IF o.failed > 0 \/ o.dead > 0 THEN "failed"
  ELSE IF \/ Tracked(o) /\ o.gaps > 0
          \/ Dispatcher(o) \in {"missing", "stale"}
          \/ o.waiting >= BacklogThreshold THEN "degraded"
  ELSE IF o.waiting > 0 THEN "queued" ELSE "ok"

\* Heartbeats are listed the latest first.
WorkersStatus(beats) == IF beats = << >> THEN "missing"
                        ELSE IF \E i \in DOMAIN beats : beats[i].fresh THEN "active" ELSE "stale"

Executions == ledger["completed"] + ledger["failed"] + ledger["rejected"]
FailureRate(rows) == LET all == rows["completed"] + rows["failed"] + rows["rejected"]
                     IN IF all = 0 THEN 0 ELSE ((rows["failed"] + rows["rejected"]) * 100) \div all

-----------------------------------------------------------------------------
(* The objectives of the SLO report, with the defaults of its query.  An     *)
(* objective within its target is at risk when less than a quarter of the    *)
(* budget, the distance from the target to the ideal, is left.               *)

Budget(within, left, whole) ==
  IF ~ within THEN "breached" ELSE IF 4 * left < whole THEN "at_risk" ELSE "met"

MinimumRate(rate, target, samples) ==
  IF samples = 0 THEN "no_data" ELSE Budget(rate >= target, rate - target, 100 - target)

\* A fault: the samples are not counted.
MaximumRateAnyhow(rate, target, samples, min) ==
  Budget(rate <= target, target - rate, target)

MaximumRate(rate, target, samples, min) ==
  IF samples < min THEN "no_data" ELSE Budget(rate <= target, target - rate, target)

MaximumCount(count, target) == Budget(count <= target, target - count, target)

FreshEval(e) == IF e.status = "none" THEN "no_data"
                ELSE IF e.status # "passed" THEN "breached"
                ELSE IF e.old THEN "at_risk" ELSE "met"

MaxMtta == 900
TriageTime(m) ==
  IF ActiveAlerts(m) = 0 THEN "met"
  ELSE IF m.mtta # NotMeasured THEN Budget(m.mtta <= MaxMtta, MaxMtta - m.mtta, MaxMtta)
  ELSE IF CountOf(m, LAMBDA a : a.active /\ ~ a.owned) > 0 THEN "breached" ELSE "no_data"

AlertDelivery(o, p0p1, dead) ==
  LET silent == Dispatcher(o) \in {"missing", "stale"}
      status == DeliveryStatus(o)
  IN IF dead > 0 \/ status = "failed" \/ (silent /\ p0p1 > 0) THEN "breached"
     ELSE IF status \in {"queued", "degraded"} THEN "at_risk"
     ELSE IF status # "disabled" THEN "met"
     ELSE IF p0p1 > 0 THEN "at_risk" ELSE "no_data"

ReviewWorkers(beats) ==
  IF WorkersStatus(beats) # "active" THEN "breached"
  ELSE IF beats[1].failed = 0 THEN "met" ELSE "at_risk"

\* One request's readings of a route, the first place of each source.
At(route, read, s) == read[CHOOSE i \in DOMAIN route : route[i] = s /\ \A j \in 1 .. i - 1 : route[j] # s]

ReportRoute == GateChecks \o <<"outbox", "workers", "ledger", "outbox">>

Objectives(read) ==
  LET of(s) == At(ReportRoute, read, s)
      m     == of("monitor_alerts")
      rows  == of("ledger")
  IN [grounded_rate          |-> MinimumRate(m.grounded, 95, m.events),
      policy_compliance_rate |-> MinimumRate(m.compliant, 99, m.events),
      human_review_rate      |-> MaximumRate(m.human, 40, m.events, 1),
      active_p0p1_alerts     |-> MaximumCount(ActiveP0P1(m), MaxP0P1),
      tool_failure_rate      |-> MaximumRate(of("tool_audit").rate, MaxFailureRate,
                                             of("tool_audit").calls, MinToolCalls),
      feedback_negative_rate |-> MaximumRate(of("feedback").rate, MaxNegativeRate,
                                             of("feedback").count, MinFeedback),
      staging_eval_gate      |-> FreshEval(of("staging_eval_gate")),
      triage_response_time   |-> TriageTime(m),
      alert_delivery         |-> AlertDelivery(of("outbox"), ActiveP0P1(m), Last(read).dead),
      review_workers         |-> ReviewWorkers(of("workers").beats),
      automation             |-> MaximumRate(FailureRate(rows), 10,
                                   rows["completed"] + rows["failed"] + rows["rejected"], 1)]

ReportStatus(objectives) ==
  LET said == {objectives[o] : o \in DOMAIN objectives} IN
  IF said = {"no_data"} THEN "unknown"
  ELSE IF "breached" \in said THEN "breached"
  ELSE IF said \cap {"at_risk", "no_data"} # {} THEN "watch" ELSE "healthy"

-----------------------------------------------------------------------------
(* The actions of the plan. *)

Act(kind, priority, safe) == [kind |-> kind, priority |-> priority, safe |-> safe]
Actions(cond, act)        == IF cond THEN {act} ELSE {}

\* For the first of some alerts.
ForFirst(m, places, kind, safe) ==
  Actions(places # {}, Act(kind, m.alerts[FirstPlace(places)].severity, safe))

\* A fault: without a webhook nothing is said of the alerts.
NotifyIfEnabled(m, o) ==
  IF ~ o.webhook THEN {} ELSE ForFirst(m, PressingP0P1(m), "dispatch_alert_deliveries", TRUE)

Notify(m, o) ==
  IF PressingP0P1(m) # {}
  THEN IF o.webhook THEN ForFirst(m, PressingP0P1(m), "dispatch_alert_deliveries", TRUE)
                    ELSE ForFirst(m, PressingP0P1(m), "configure_alert_webhook", FALSE)
  ELSE Actions(o.webhook /\ o.waiting + o.failed > 0, Act("dispatch_alert_deliveries", "P2", TRUE))

Triages(m) ==
  ForFirst(m, {i \in Pressing(m) : ~ m.alerts[i].owned}, "assign_triage_owner", FALSE)
  \cup ForFirst(m, {i \in Pressing(m) : m.alerts[i].news}, "retriage_recurring_alert", FALSE)
  \cup ForFirst(m, {i \in Pressing(m) : m.alerts[i].stale}, "investigate_stale_alert", FALSE)

\* The row listed is the latest of the dead ones.
Deliveries(summary, dead) ==
  Actions(dead.dead > 0, Act("requeue_dead_delivery", dead.deadSeverity, FALSE))
  \cup Actions(Tracked(summary) /\ summary.gaps > 0, Act("inspect_missing_alert_receipts", "P1", TRUE))

\* For the first pressing alert and the first of its runs: every alert has one (monitor.py:183).
Incident(m) ==
  ForFirst(m, Pressing(m), "generate_incident_brief", TRUE)
  \cup Actions(Pressing(m) # {}, Act("create_regression_draft", "P2", TRUE))

Promotion(status, m) ==
  Actions(status = "blocked",
    Act("block_promotion", IF PressingP0P1(m) # {} THEN "P0" ELSE "P1", TRUE))
  \cup Actions(status = "warn", Act("review_promotion_gate", "P2", TRUE))

\* A fault: an old evaluation is run again, a failed one is not.
StagingEvalIfOld(e, status) ==
  Actions(e.status = "passed" /\ e.old, Act("run_staging_eval", "P2", FALSE))

StagingEval(e, status) ==
  Actions(e.status # "passed" \/ e.old,
    Act("run_staging_eval", IF status = "blocked" THEN "P1" ELSE "P2", FALSE))

Quality(tools, feedback, m) ==
  Actions(tools.calls >= MinToolCalls /\ tools.rate > MaxFailureRate, Act("inspect_tool_audit", "P1", TRUE))
  \cup Actions(feedback.count >= MinFeedback /\ feedback.rate > MaxNegativeRate,
         Act("review_feedback", "P2", TRUE))
  \cup Actions(m.events > 0 /\ m.grounded < 95, Act("run_retrieval_diagnostics", "P2", TRUE))

PlanRoute == GateChecks \o <<"monitor_alerts", "outbox", "outbox">>

GateOfRead(read) == {GateStatus(GateChecks[i], read[i]) : i \in DOMAIN GateChecks}
GateStatusOf(read) == IF "blocked" \in GateOfRead(read) THEN "blocked"
                      ELSE IF "warn" \in GateOfRead(read) THEN "warn" ELSE "passed"

NoActionRequired == Act("no_action_required", "P3", TRUE)

\* read[2] is what the gate saw of the monitor, read[6] what the plan sees of it.
PlanFor(read) ==
  LET gate == GateStatusOf(read)
      m    == read[6]
      acts == Notify(m, read[7]) \cup Triages(m) \cup Deliveries(read[7], read[8]) \cup Incident(m)
              \cup Promotion(gate, m) \cup StagingEval(read[5], gate) \cup Quality(read[3], read[4], m)
  IN IF acts = {} THEN {NoActionRequired} ELSE acts

-----------------------------------------------------------------------------
(* The request, and what goes on under it. *)

\* seen: what each source has said since the request began (a history).
IdleReport == [pc |-> "idle", kind |-> "none", read |-> << >>, seen |-> << >>, plan |-> {}, status |-> "none"]

Shift(s, reading) ==
  /\ shifts < MaxShifts /\ report.pc = "reading" /\ signals[s] # reading
  /\ signals' = [signals EXCEPT ![s] = reading]
  /\ shifts' = shifts + 1
  /\ report' = [report EXCEPT !.seen[s] = @ \cup {reading}]
  /\ UNCHANGED ledger

RouteOf(kind) == IF kind = "plan" THEN PlanRoute ELSE ReportRoute

BeginReport(kind) ==
  /\ report.pc = "idle"
  /\ report' = [IdleReport EXCEPT !.pc = "reading", !.kind = kind,
                                  !.seen = [s \in OpsSource |-> {signals[s]}]]
  /\ UNCHANGED <<signals, shifts, ledger>>

ReadNext ==
  LET route == RouteOf(report.kind)
      s     == route[Len(report.read) + 1]
  IN /\ report.pc = "reading" /\ Len(report.read) < Len(route)
     /\ report' = [report EXCEPT !.read = Append(@, IF s = "ledger" THEN ledger ELSE signals[s])]
     /\ UNCHANGED <<signals, shifts, ledger>>

AllReported == report.pc = "reading" /\ Len(report.read) = Len(RouteOf(report.kind))

AnswerPlan ==
  /\ AllReported /\ report.kind = "plan"
  /\ report' = [report EXCEPT !.pc = "answered", !.plan = PlanFor(report.read)]
  /\ UNCHANGED <<signals, shifts, ledger>>

AnswerReport ==
  /\ AllReported /\ report.kind = "slo"
  /\ report' = [report EXCEPT !.pc = "answered", !.status = ReportStatus(Objectives(report.read))]
  /\ UNCHANGED <<signals, shifts, ledger>>

\* Whoever executes commands of a plan records how they went, of this plan or of an older one.
RecordExecution(status) ==
  /\ Executions < MaxExecutions
  /\ ledger' = [ledger EXCEPT ![status] = @ + 1]
  /\ UNCHANGED <<signals, shifts, report>>

OperationsInit ==
  /\ \E troubles \in {T \in SUBSET OpsSource : Cardinality(T) <= MaxTroubles} :
       \E said \in [troubles -> UNION {Saying[s] : s \in troubles}] :
         /\ \A s \in troubles : said[s] \in Saying[s]
         /\ signals = [s \in OpsSource |-> IF s \in troubles THEN said[s] ELSE Calm[s]]
  /\ shifts = 0
  /\ ledger = [status \in {"completed", "failed", "rejected"} |-> 0]
  /\ report = IdleReport

OperationsNext ==
  \/ \E s \in OpsSource : \E reading \in Saying[s] : Shift(s, reading)
  \/ \E kind \in {"plan", "slo"} : BeginReport(kind)
  \/ ReadNext \/ AnswerPlan \/ AnswerReport
  \/ \E status \in {"completed", "failed", "rejected"} : RecordExecution(status)

OperationsSpec == OperationsInit /\ [][OperationsNext]_operationsVars

-----------------------------------------------------------------------------
(* Properties *)

Kinds == {act.kind : act \in report.plan}
\* A source was in a state throughout the request.
Throughout(s, Test(_)) == \A reading \in report.seen[s] : Test(reading)

(***************************************************************************)
(* The report and the gate are computed by different code from the same    *)
(* readings, with budgets here and comparisons there, and agree: the       *)
(* objective of alerts, tools, feedback or evaluation is breached exactly  *)
(* when its check blocks, but for an evaluation that never ran (no_data at *)
(* main.py:1124, blocked at main.py:2497); and a report is never healthy   *)
(* when one of the four blocks.                                            *)
(***************************************************************************)
ObjectiveOf == <<"none", "active_p0p1_alerts", "tool_failure_rate", "feedback_negative_rate",
                 "staging_eval_gate">>

ReportAgreesWithGate ==
  report.pc = "answered" /\ report.kind = "slo" =>
    LET blocks(i)   == GateStatus(GateChecks[i], report.read[i]) = "blocked"
        breached(i) == Objectives(report.read)[ObjectiveOf[i]] = "breached"
        neverRan    == report.read[5].status = "none"
    IN /\ \A i \in 2 .. 4 : breached(i) <=> blocks(i)
       /\ breached(5) <=> blocks(5) /\ ~ neverRan
       /\ (\E i \in 2 .. 5 : blocks(i)) => report.status # "healthy"

(***************************************************************************)
(* A plan that says the promotion is blocked also says what to do about    *)
(* it: each check that blocks (readiness apart) has its own action in the  *)
(* plan, although alerts are read twice and may be triaged in between.     *)
(***************************************************************************)
BlockedGateIsAddressed ==
  report.pc = "answered" /\ report.kind = "plan" =>
    LET blocks(i) == GateStatus(GateChecks[i], report.read[i]) = "blocked" IN
    /\ blocks(2) /\ Throughout("monitor_alerts", LAMBDA m : ActiveP0P1(m) > 0) =>
         Kinds \cap {"dispatch_alert_deliveries", "configure_alert_webhook"} # {}
    /\ blocks(3) => "inspect_tool_audit" \in Kinds
    /\ blocks(4) => "review_feedback" \in Kinds
    /\ blocks(5) => "run_staging_eval" \in Kinds
    /\ (\E i \in 1 .. 5 : blocks(i)) <=> "block_promotion" \in Kinds

(***************************************************************************)
(* A plan asks for nothing only if every signal it names was within its    *)
(* thresholds at some moment of the request: no alert that presses and     *)
(* answers that are grounded, no delivery to send, none dead, no receipt   *)
(* missing, no check that warns.  Each had its own moment: the outbox is   *)
(* read in pieces and may never have been free of all three at once.       *)
(***************************************************************************)
QuietPlanIsJustified ==
  report.pc = "answered" /\ report.plan = {NoActionRequired} =>
    /\ ~ Throughout("monitor_alerts", LAMBDA m : Pressing(m) # {} \/ (m.events > 0 /\ m.grounded < 95))
    /\ ~ Throughout("outbox", LAMBDA o : o.dead > 0)
    /\ ~ Throughout("outbox", LAMBDA o : o.webhook /\ o.waiting + o.failed > 0)
    /\ ~ Throughout("outbox", LAMBDA o : Tracked(o) /\ o.gaps > 0)
    /\ \A s \in {"tool_audit", "feedback", "staging_eval_gate"} :
         ~ Throughout(s, LAMBDA r : CheckOf(s, r) # "passed")
=============================================================================
