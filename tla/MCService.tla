------------------------------ MODULE MCService ------------------------------
(***************************************************************************)
(* The parts of the service that share no state with the outbox, the tools *)
(* or the export, side by side in one run, and the operation lock by       *)
(* itself.  They share none with each other either, so nothing is lost by  *)
(* letting one part move in a behaviour while the others stay where they   *)
(* began: part says which.                                                 *)
(***************************************************************************)
EXTENDS AgentPipeline, ConversationMemory, AlertTriage, FeedbackReview, EvalGate, MCPromotionGate,
        RequestEdge, KnowledgeIndex, OperationsPlan, OperationLock

VARIABLE part

Parts == {"pipeline", "memory", "triage", "feedback", "eval", "promotion", "edge", "knowledge", "operations", "lock"}

ServiceInit ==
  /\ part \in Parts
  /\ PipelineInit
  /\ ConversationInit /\ (part # "memory" => deployed = Process)
  /\ TriageInit /\ FeedbackInit /\ EvalInit
  /\ PromotionInit
  /\ part # "promotion" => evidence = [s \in EvidenceSource |-> CHOOSE r \in Readings[s] : TRUE]
  /\ EdgeInit /\ KnowledgeInit
  /\ OperationsInit /\ (part # "operations" => signals = Calm)
  /\ Init

ServiceNext ==
  /\ UNCHANGED part
  /\ IF part = "pipeline" THEN PipelineNext ELSE UNCHANGED pipelineVars
  /\ IF part = "memory" THEN ConversationNext ELSE UNCHANGED conversationVars
  /\ IF part = "triage" THEN TriageNext ELSE UNCHANGED triageVars
  /\ IF part = "feedback" THEN FeedbackNext ELSE UNCHANGED feedbackVars
  /\ IF part = "eval" THEN EvalNext ELSE UNCHANGED evalVars
  /\ IF part = "promotion" THEN PromotionNext ELSE UNCHANGED promotionVars
  /\ IF part = "edge" THEN EdgeNext ELSE UNCHANGED edgeVars
  /\ IF part = "knowledge" THEN KnowledgeNext ELSE UNCHANGED knowledgeVars
  /\ IF part = "operations" THEN OperationsNext ELSE UNCHANGED operationsVars
  /\ IF part = "lock" THEN Next ELSE UNCHANGED lockVars

serviceVars == <<part, pipelineVars, conversationVars, triageVars, feedbackVars, evalVars,
                 promotionVars, edgeVars, knowledgeVars, operationsVars, lockVars>>
ServiceSpec == ServiceInit /\ [][ServiceNext]_serviceVars

-----------------------------------------------------------------------------
(* The instance. *)

CONSTANTS x1, x2, y1, y2, y3
Pair   == {x1, x2}
Triple == {y1, y2, y3}
\* Processes, operators, reviewers and nonces are alike, and so are requests and attempts.
Alike  == Permutations(Pair) \cup Permutations(Triple)

\* Texts with a word of the general support context have no other topic.
MCText == {t \in AnyText : t.support => t.topics = {}}

MCSourceOf == [d1 |-> "s1", d2 |-> "s2"]

\* w1 and w2 share an owner_id, as two runs of event_store_ops.py by one actor do.
SharedOwner == [w \in {"w1", "w2", "w3"} |-> IF w = "w3" THEN "api" ELSE "cli"]

Alert(sev, active, news, owned) ==
  [severity |-> sev, active |-> active, news |-> news, owned |-> owned,
   stale |-> ~ owned]
Seen(alerts, grounded, human, mtta) ==
  [alerts |-> alerts, events |-> 10, grounded |-> grounded, human |-> human, mtta |-> mtta,
   compliant |-> IF grounded < 95 THEN 98 ELSE 100]
Box(webhook, waiting, dead, gaps, dispatcher) ==
  [webhook |-> webhook, waiting |-> waiting, failed |-> 0, dead |-> dead, deadSeverity |-> "P2",
   gaps |-> gaps, tracking |-> TRUE, dispatcher |-> dispatcher]
Beat(fresh, failed) == [fresh |-> fresh, failed |-> failed]

AllWell == [readiness         |-> [failed |-> FALSE, deep |-> TRUE, skipped |-> FALSE],
            monitor_alerts    |-> Seen(<< >>, 100, 0, NotMeasured),
            tool_audit        |-> [calls |-> 20, rate |-> 0],
            feedback          |-> [count |-> 6, rate |-> 10],
            staging_eval_gate |-> [status |-> "passed", old |-> FALSE],
            outbox            |-> Box(TRUE, 0, 0, 0, "active"),
            workers           |-> [beats |-> <<Beat(TRUE, 0)>>]]

\* Readings at a threshold, beyond it, and of too few samples.
Troubles == [s \in OpsSource |-> {AllWell[s]} \cup
  CASE s = "readiness"         -> {[failed |-> TRUE, deep |-> TRUE, skipped |-> FALSE]}
    [] s = "monitor_alerts"    -> {Seen(<<Alert("P0", TRUE, FALSE, FALSE)>>, 94, 40, NotMeasured),
                                   Seen(<<Alert("P1", FALSE, TRUE, TRUE), Alert("P2", TRUE, FALSE, FALSE)>>,
                                        96, 50, 900)}
    [] s = "tool_audit"        -> {[calls |-> 20, rate |-> 5], [calls |-> 20, rate |-> 6]}
    [] s = "feedback"          -> {[count |-> 4, rate |-> 100], [count |-> 6, rate |-> 41]}
    [] s = "staging_eval_gate" -> {[status |-> "none", old |-> FALSE], [status |-> "failed", old |-> FALSE],
                                   [status |-> "passed", old |-> TRUE]}
    [] s = "outbox"            -> {Box(FALSE, 1, 0, 0, "active"), Box(TRUE, 1, 0, 0, "active"),
                                   Box(TRUE, 0, 1, 0, "stale"), Box(TRUE, 0, 0, 1, "active")}
    [] OTHER                   -> {[beats |-> <<Beat(FALSE, 0)>>], [beats |-> <<Beat(TRUE, 1), Beat(FALSE, 0)>>]}]
=============================================================================
