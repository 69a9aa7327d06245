--------------------------- MODULE AgentPipeline ---------------------------
(***************************************************************************)
(* What SupportAgentOrchestrator.handle_message (agent/orchestrator.py)    *)
(* decides about the messages of one conversation: the policy findings     *)
(* (agent/policy.py), the intent (agent/intent.py), the route              *)
(* (agent/router.py), the plan of the domain agent (agent/agents.py), the  *)
(* tool calls, the kind of answer and the monitor's verdict on the run     *)
(* (monitoring/monitor.py), live and again by the review worker from the   *)
(* stored trace (monitoring/monitor_review_service.py).                    *)
(*                                                                         *)
(* A text is what the keyword tables and expressions find in it.  Tools,   *)
(* retrieval and the model answer anything they can.                       *)
(***************************************************************************)
EXTENDS Naturals, Sequences, FiniteSets

CONSTANTS
  Text     \* the texts users send, see AnyText

(***************************************************************************)
(* order: an order number is in the text; support: words of the general    *)
(* support context.  Every word that makes a text angry is also one of the *)
(* complaint keywords (intent.py:28 and :53).                              *)
(***************************************************************************)
Topic == {"refund_or_return", "order_status", "billing", "technical_issue",
          "complaint", "account_security"}
AnyText == {t \in [topics : SUBSET Topic, angry : BOOLEAN, support : BOOLEAN,
                   order : BOOLEAN, pii : BOOLEAN, injection : BOOLEAN] :
              t.angry => "complaint" \in t.topics}

ASSUME TextAssumption == Text \subseteq AnyText

VARIABLES
  known,   \* state.facts has a last_order_id
  turn     \* the run handle_message is at: its trace so far

pipelineVars == <<known, turn>>

-----------------------------------------------------------------------------
(* Policy and intent. *)

Finding(c, r, e) == [code |-> c, risk |-> r, escalate |-> e]

InputFindings(t) ==
  (IF t.pii THEN {Finding("PII_IN_INPUT", "medium", FALSE)} ELSE {})
    \cup (IF t.injection THEN {Finding("PROMPT_INJECTION_ATTEMPT", "high", TRUE)} ELSE {})

\* An answer is told by what check_output looks for in it.
OutputFindings(a, highRisk) ==
  (IF a.promise THEN {Finding("UNSUPPORTED_COMPENSATION_PROMISE", "high", TRUE)} ELSE {})
    \cup (IF a.pii THEN {Finding("PII_IN_OUTPUT", "critical", TRUE)} ELSE {})
    \cup (IF highRisk /\ ~ a.human
          THEN {Finding("HIGH_RISK_WITHOUT_HANDOFF", "medium", FALSE)} ELSE {})

HasRisk(findings, levels) == \E f \in findings : f.risk \in levels
Risky(findings) == HasRisk(findings, {"high", "critical"})

\* The confidence of a candidate, in hundredths; earlier entries of the table win ties.
Confidence == [refund_or_return |-> 88, order_status |-> 84, billing |-> 84,
               technical_issue |-> 80, complaint |-> 86, account_security |-> 90]
TableOrder == <<"refund_or_return", "order_status", "billing", "technical_issue",
                "complaint", "account_security">>
Before(a, b) == \E i, j \in DOMAIN TableOrder :
                  i < j /\ TableOrder[i] = a /\ TableOrder[j] = b

Primary(t) ==
  IF t.topics = {} THEN "general_question"
  ELSE CHOOSE a \in t.topics :
         \A b \in t.topics \ {a} :
           \/ Confidence[a] > Confidence[b]
           \/ Confidence[a] = Confidence[b] /\ Before(a, b)

\* intent.confidence < 0.55 and no finding of a high risk: ask back, before any tool.
Unclear(t) == t.topics = {} /\ ~ t.support /\ ~ Risky(InputFindings(t))

-----------------------------------------------------------------------------
(* Route and plan. *)

SafeTools  == {"crm.get_customer", "ticket.create", "kb.search"}
OrderTools == {"order.search", "order.get"}

AllowedFor(intent) ==
  CASE intent \in {"refund_or_return", "order_status", "billing"} ->
         SafeTools \cup OrderTools \cup {"shipping.track"}
    [] intent = "technical_issue" -> SafeTools \cup OrderTools
    [] OTHER -> SafeTools

TargetOf(intent) ==
  CASE intent \in {"refund_or_return", "order_status"} -> "order_agent"
    [] intent = "billing"          -> "billing_agent"
    [] intent = "technical_issue"  -> "tech_agent"
    [] intent = "account_security" -> "safety_agent"
    [] OTHER                       -> "general_agent"

Decision(target, allowed, human) == [target |-> target, allowed |-> allowed, human |-> human]
NoRoute == Decision("none", {}, FALSE)

\* A fault: sentiment before risk.
RouteAngerFirst(t) ==
  LET i == Primary(t) IN
  IF t.angry \/ i = "complaint" THEN Decision("retention_agent", AllowedFor(i), TRUE)
  ELSE IF Risky(InputFindings(t)) THEN Decision(TargetOf(i), SafeTools, TRUE)
  ELSE Decision(TargetOf(i), AllowedFor(i), TargetOf(i) = "safety_agent")

Route(t) ==
  LET i == Primary(t) IN
  IF Risky(InputFindings(t)) THEN Decision("safety_agent", SafeTools, TRUE)
  ELSE IF t.angry \/ i = "complaint" THEN Decision("retention_agent", AllowedFor(i), TRUE)
  ELSE Decision(TargetOf(i), AllowedFor(i), TargetOf(i) = "safety_agent")

\* The tool requests of AGENTS[target].plan; hasOrder: order_id or last_order_id is known.
Plan(target, intent, hasOrder) ==
  CASE target = "order_agent" ->
         <<"crm.get_customer">> \o
         (IF ~ hasOrder THEN <<"order.search">>
          ELSE <<"order.get">> \o
               (IF intent = "refund_or_return" THEN <<"ticket.create">> ELSE << >>))
    [] target = "billing_agent" ->
         <<"crm.get_customer">> \o (IF hasOrder THEN <<"order.get">> ELSE << >>)
    [] target = "retention_agent" -> <<"crm.get_customer", "ticket.create">>
    [] target = "safety_agent"    -> <<"ticket.create">>
    [] OTHER                      -> <<"crm.get_customer">>

\* A fault: the billing agent asks for a human too.
HandoffOfComplaints(target) ==
  target \in {"retention_agent", "safety_agent", "billing_agent"}

HandoffReason(target) == target \in {"retention_agent", "safety_agent"}

-----------------------------------------------------------------------------
(* One turn. *)

Result(n, s) == [name |-> n, status |-> s]

NoTurn == [stage |-> "idle", intent |-> "none", target |-> "none", allowed |-> {},
           human |-> FALSE, todo |-> << >>, results |-> {}, cited |-> FALSE,
           findings |-> {}, handoff |-> FALSE, goal |-> "none"]

\* handle_message up to agent.plan: one stretch without an await.
Receive(t) ==
  /\ turn.stage = "idle"
  /\ known' = (known \/ t.order)
  /\ LET r == Route(t) IN
     turn' = IF Unclear(t)
             THEN [NoTurn EXCEPT !.stage = "answered", !.intent = Primary(t),
                                 !.findings = InputFindings(t), !.goal = "clarify"]
             ELSE [NoTurn EXCEPT !.stage = "tools", !.intent = Primary(t),
                                 !.target = r.target, !.allowed = r.allowed, !.human = r.human,
                                 !.todo = Plan(r.target, Primary(t), known'),
                                 !.findings = InputFindings(t)]

\* The follow-up of a successful order.get whose order has been shipped.
FollowUp(name, ok, shipped) ==
  IF /\ name = "order.get" /\ ok /\ shipped
     /\ turn.intent = "order_status" /\ "shipping.track" \in turn.allowed
  THEN <<"shipping.track">> ELSE << >>

CallTool ==
  /\ turn.stage = "tools" /\ turn.todo # << >>
  /\ LET n == Head(turn.todo) IN
     \/ /\ n \in turn.allowed
        /\ \E ok, shipped \in BOOLEAN :
             turn' = [turn EXCEPT !.todo = FollowUp(n, ok, shipped) \o Tail(@),
                                  !.results = @ \cup {Result(n, IF ok THEN "success" ELSE "failed")}]
     \/ /\ n \notin turn.allowed
        /\ turn' = [turn EXCEPT !.todo = Tail(@), !.results = @ \cup {Result(n, "skipped")}]
  /\ UNCHANGED known

Succeeded(n) == Result(n, "success") \in turn.results
Failed       == {r \in turn.results : r.status = "failed"}

\* Which answer _compose_answer drafts.
Goal ==
  IF Failed # {} THEN "apology"
  ELSE CASE turn.target = "order_agent" ->
              IF Succeeded("order.get")
              THEN IF turn.intent = "refund_or_return" THEN "after_sales" ELSE "order_detail"
              ELSE IF Succeeded("order.search") THEN "confirm_order" ELSE "ask_order"
         [] turn.target \in {"retention_agent", "safety_agent"} ->
              IF Succeeded("ticket.create") THEN "ticket_opened" ELSE "handed_over"
         [] OTHER -> "advice"

\* The drafts that say a human takes over; the model's text may say anything.
DraftSaysHuman(g) == g \in {"apology", "ticket_opened", "handed_over"}
Draft(g) == [promise |-> FALSE, pii |-> FALSE, human |-> DraftSaysHuman(g)]

\* Retrieval, the model (or its fallback to the draft) and check_output.
Answer ==
  /\ turn.stage = "tools" /\ turn.todo = << >>
  /\ \E cited \in BOOLEAN,
        a \in [promise : BOOLEAN, pii : BOOLEAN, human : BOOLEAN] \cup {Draft(Goal)} :
       turn' = [turn EXCEPT !.stage = "answered", !.goal = Goal, !.cited = cited,
                            !.findings = @ \cup OutputFindings(a, turn.human),
                            !.handoff = turn.human \/ HandoffReason(turn.target)]
  /\ UNCHANGED known

\* The response is returned; the next message may come.
Respond == /\ turn.stage = "answered" /\ turn' = NoTurn /\ UNCHANGED known

\* A failed knowledge search or an exception of a tool ends the request.
Abort == /\ turn.stage = "tools" /\ turn' = NoTurn /\ UNCHANGED known

PipelineInit == known = FALSE /\ turn = NoTurn
PipelineNext == (\E t \in Text : Receive(t)) \/ CallTool \/ Answer \/ Respond \/ Abort
PipelineSpec == PipelineInit /\ [][PipelineNext]_pipelineVars

-----------------------------------------------------------------------------
(* The verdict of the monitor. *)

Escalated(findings) == {f \in findings : f.escalate}

Verdict(intent, findings, failed, cited, handoff) ==
  LET review == Escalated(findings) # {} \/ failed # {} \/ handoff IN
  [risk      |-> IF HasRisk(findings, {"critical"}) THEN "critical"
                 ELSE IF HasRisk(findings, {"high"}) THEN "high"
                 ELSE IF review THEN "medium" ELSE "low",
   grounded  |-> cited \/ intent \in {"complaint", "account_security"},
   compliant |-> Escalated(findings) = {},
   leak      |-> \E f \in findings : f.code = "PII_IN_OUTPUT",
   review    |-> review,
   failures  |-> {f.code : f \in Escalated(findings)} \cup {r.name : r \in failed}]

\* OnlineMonitorAgent.review of the response, in _finalize.
LiveVerdict == Verdict(turn.intent, turn.findings, Failed, turn.cited, turn.handoff)

\* The worker's, from what the stored trace has: the handoff is worked out again.
WorkerVerdict ==
  Verdict(turn.intent, turn.findings, Failed, turn.cited,
          turn.human \/ Escalated(turn.findings) # {})

\* The filter of summarize_monitor_events, and that of monitoring/triage.py.
SummaryAlerts(v) == v.failures # {} \/ ~ v.grounded \/ ~ v.compliant \/ v.review
TriageAlerts(v)  == SummaryAlerts(v) \/ v.leak

Severity(v) ==
  IF v.leak \/ v.risk = "critical" THEN "P0"
  ELSE IF v.risk = "high" \/ ~ v.compliant THEN "P1"
  ELSE IF v.review \/ ~ v.grounded THEN "P2" ELSE "P3"

-----------------------------------------------------------------------------
(* Properties *)

(***************************************************************************)
(* The tools an agent plans are among those the router allows it, for      *)
(* every text: the tables of agents.py and of policy.py agree, so that     *)
(* TOOL_NOT_ALLOWED (orchestrator.py:176) is never what a customer gets.   *)
(***************************************************************************)
NoPlannedToolRefused == \A r \in turn.results : r.status # "skipped"

(***************************************************************************)
(* A turn that is handed to a human has a ticket to be found by: by the    *)
(* time it is answered ticket.create has been called, whatever route led   *)
(* to the handoff (router.py decides it, agents.py calls the tool), and a  *)
(* turn that looks risky touches no order.                                 *)
(***************************************************************************)
HandoffHasTicket ==
  turn.stage = "answered" /\ turn.goal # "clarify" =>
    /\ turn.handoff => \E r \in turn.results : r.name = "ticket.create"
    /\ Finding("PROMPT_INJECTION_ATTEMPT", "high", TRUE) \in turn.findings =>
         {r.name : r \in turn.results} \subseteq SafeTools

(***************************************************************************)
(* The tables of router, policy and agents fit each other for every text:  *)
(* whatever the router decides, the plan asks for no tool it forbids, and  *)
(* a human it promises finds a ticket.                                     *)
(***************************************************************************)
PlanFitsRoute == NoPlannedToolRefused /\ HandoffHasTicket

(***************************************************************************)
(* The review worker, which rebuilds a response from the stored trace      *)
(* (monitor_review_service.py:181), reaches the verdict of the live        *)
(* monitor: it does not matter which of the two reviewed a run.            *)
(***************************************************************************)
WorkerAgrees == turn.stage = "answered" => WorkerVerdict = LiveVerdict

(***************************************************************************)
(* The summary of alerts and the triage metrics classify runs alike: one   *)
(* looks at pii_leak and the other does not (triage.py:211, monitor.py     *)
(* :125), and a leak is always a P0 alert.                                 *)
(***************************************************************************)
LeaksAreAlerts ==
  turn.stage = "answered" =>
    /\ TriageAlerts(LiveVerdict) <=> SummaryAlerts(LiveVerdict)
    /\ LiveVerdict.leak => Severity(LiveVerdict) = "P0" /\ SummaryAlerts(LiveVerdict)

(***************************************************************************)
(* There is one verdict on a run, whoever reaches it and whoever counts    *)
(* it: the live monitor, the review worker, the alert summary and the      *)
(* triage metrics (monitoring/*.py).                                       *)
(***************************************************************************)
VerdictsAgree == WorkerAgrees /\ LeaksAreAlerts
=============================================================================
