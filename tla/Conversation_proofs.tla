------------------------- MODULE Conversation_proofs -------------------------
(***************************************************************************)
(* Proofs about a conversation and what is made of it: the pipeline that   *)
(* decides about a message (AgentPipeline), for any set of texts; the      *)
(* memory of the conversation and its log (ConversationMemory), for any    *)
(* processes, users, turns and faults; the documents its answers are found *)
(* in (KnowledgeIndex); the feedback on its runs (FeedbackReview) and the  *)
(* alerts they raise (AlertTriage).  Each component has its inductive      *)
(* invariant: PipelineInv, OwnerInv and HistoryInv, KnowledgeInv,          *)
(* FeedbackInv, TriageInv.                                                 *)
(***************************************************************************)
EXTENDS AgentPipeline, ConversationMemory, KnowledgeIndex, FeedbackReview, AlertTriage,
        FiniteSetTheorems, WellFoundedInduction, TLAPS

-----------------------------------------------------------------------------
(* Sequences. *)

Has(s, x) == \E i \in DOMAIN s : s[i] = x

\* Whatever is put in front of what is left of a list, an entry is the head or
\* still to come.
LEMMA HeadOrLater ==
  ASSUME NEW S, NEW s \in Seq(S), s # << >>, NEW f \in Seq(S),
         NEW x, Has(s, x)
  PROVE  Head(s) = x \/ Has(f \o Tail(s), x)
<1>1. PICK i \in 1 .. Len(s) : s[i] = x
  BY DEF Has
<1>2. CASE i = 1
  BY <1>1, <1>2
<1>3. CASE i > 1
  <2> DEFINE t == f \o Tail(s)
  <2>1. Tail(s) \in Seq(S) /\ Len(Tail(s)) = Len(s) - 1 /\ Tail(s)[i - 1] = s[i]
    BY <1>3
  <2>2. t \in Seq(S) /\ Len(t) = Len(f) + Len(s) - 1
    BY <2>1
  <2>3. Len(f) + (i - 1) \in 1 .. Len(t) /\ t[Len(f) + (i - 1)] = x
    <3>1. PICK k \in Nat : k = i - 1 /\ k \in 1 .. Len(Tail(s)) /\ Tail(s)[k] = x
      BY <1>1, <1>3, <2>1
    <3>2. Len(f) \in Nat /\ Len(f) + k \in 1 .. Len(t)
      BY <2>1, <2>2, <3>1
    <3>3. t[Len(f) + k] = Tail(s)[k]
      BY <2>1, <3>1
    <3> QED BY <3>1, <3>2, <3>3
  <2>4. PICK u \in Seq(S) : u = t
    BY <2>2
  <2>5. Has(u, x)
    <3>1. DOMAIN u = 1 .. Len(u)
      OBVIOUS
    <3> QED BY <2>3, <2>4, <3>1 DEF Has
  <2> QED BY <2>4, <2>5
<1> QED BY <1>2, <1>3

\* What is a sequence over a set, and what are its parts.
LEMMA Single == ASSUME NEW S, NEW x \in S PROVE <<x>> \in Seq(S)
OBVIOUS

LEMMA EmptyIsSeq == ASSUME NEW S PROVE << >> \in Seq(S)
OBVIOUS

LEMMA SeqParts ==
  ASSUME NEW S, NEW s \in Seq(S), s # << >>
  PROVE  Head(s) \in S /\ Tail(s) \in Seq(S)
OBVIOUS

LEMMA Joined == ASSUME NEW S, NEW s \in Seq(S), NEW f \in Seq(S) PROVE f \o s \in Seq(S)
OBVIOUS

LEMMA SeqGrows == ASSUME NEW S, NEW T, S \subseteq T, NEW s \in Seq(S) PROVE s \in Seq(T)
OBVIOUS

\* Sequences that are joined, and a row that is inserted into one.
LEMMA JoinedLength ==
  ASSUME NEW S, NEW a \in Seq(S), NEW b \in Seq(S)
  PROVE  a \o b \in Seq(S) /\ Len(a \o b) = Len(a) + Len(b)
OBVIOUS

LEMMA Inserted ==
  ASSUME NEW S, NEW q \in Seq(S), NEW e \in S, NEW i \in 0 .. Len(q)
  PROVE  InsertAt(q, i + 1, e) \in Seq(S) /\ Len(InsertAt(q, i + 1, e)) = Len(q) + 1
<1>1. (i + 1) - 1 = i /\ Len(q) \in Nat
  OBVIOUS
<1>2. SubSeq(q, 1, i) \in Seq(S) /\ Len(SubSeq(q, 1, i)) = i
  OBVIOUS
<1>3. SubSeq(q, i + 1, Len(q)) \in Seq(S) /\ Len(SubSeq(q, i + 1, Len(q))) = Len(q) - i
  OBVIOUS
<1>4. <<e>> \in Seq(S) /\ Len(<<e>>) = 1
  OBVIOUS
<1>5. /\ SubSeq(q, 1, i) \o <<e>> \in Seq(S)
      /\ Len(SubSeq(q, 1, i) \o <<e>>) = i + 1
  BY <1>2, <1>4, JoinedLength, Zenon
<1>6. /\ (SubSeq(q, 1, i) \o <<e>>) \o SubSeq(q, i + 1, Len(q)) \in Seq(S)
      /\ Len((SubSeq(q, 1, i) \o <<e>>) \o SubSeq(q, i + 1, Len(q)))
           = Len(SubSeq(q, 1, i) \o <<e>>) + Len(SubSeq(q, i + 1, Len(q)))
  BY <1>3, <1>5, JoinedLength, Zenon
<1>7. InsertAt(q, i + 1, e) = (SubSeq(q, 1, i) \o <<e>>) \o SubSeq(q, i + 1, Len(q))
  BY <1>1, Zenon DEF InsertAt
<1>8. Len(SubSeq(q, 1, i) \o <<e>>) + Len(SubSeq(q, i + 1, Len(q))) = Len(q) + 1
  <2>1. (i + 1) + (Len(q) - i) = Len(q) + 1
    BY <1>1
  <2> QED BY <2>1, <1>3, <1>5, Zenon
<1> QED BY <1>6, <1>7, <1>8, Zenon

-----------------------------------------------------------------------------
(* Recursion over the numbers up to a bound. *)

\* A set of numbers that is not empty has a least one.
LEMMA LeastIsThere ==
  ASSUME NEW S \in SUBSET Nat, S # {}
  PROVE  \E x \in S : \A y \in S : x <= y
<1> DEFINE R == OpToRel(<, Nat)
<1>1. PICK x \in S : \A y \in S : ~ (<<y, x>> \in R)
  BY NatLessThanWellFounded, WFMin
<1>2. \A y \in S : <<y, x>> \in R <=> y < x
  BY DEF OpToRel
<1> HIDE DEF R
<1>3. \A y \in S : x <= y
  <2> SUFFICES ASSUME NEW y \in S PROVE x <= y
    OBVIOUS
  <2>1. ~ (y < x)
    BY <1>1, <1>2
  <2>2. x \in Nat /\ y \in Nat
    OBVIOUS
  <2> QED BY <2>1, <2>2
<1> QED BY <1>3

\* What holds of 0 and goes on from each number to the next holds up to the bound.
LEMMA UpToBound ==
  ASSUME NEW N \in Nat, NEW S, 0 \in S, \A n \in 1 .. N : n - 1 \in S => n \in S
  PROVE  0 .. N \subseteq S
<1> SUFFICES ASSUME (0 .. N) \ S # {} PROVE FALSE
  OBVIOUS
<1>1. PICK x \in (0 .. N) \ S : \A y \in (0 .. N) \ S : x <= y
  <2>1. (0 .. N) \ S \in SUBSET Nat
    OBVIOUS
  <2> QED BY <2>1, LeastIsThere, Zenon
<1>2. x \in 1 .. N /\ x - 1 \in 0 .. N /\ ~ (x <= x - 1)
  BY <1>1
<1> QED BY <1>1, <1>2

Recurs(f, b, step, m) == f[0] = b /\ \A n \in 1 .. m : f[n] = step[<<f[n - 1], n>>]

\* The equations of a recursive function have a solution.
LEMMA RecursionWorks ==
  ASSUME NEW V, NEW b \in V, NEW N \in Nat, NEW step \in [V \X (1 .. N) -> V]
  PROVE  \E f \in [0 .. N -> V] : Recurs(f, b, step, N)
<1> DEFINE Solves(f, m) == Recurs(f, b, step, m)
           S == {m \in 0 .. N : \E f \in [0 .. m -> V] : Solves(f, m)}
<1>1. 0 \in S
  <2>1. [n \in 0 .. 0 |-> b] \in [0 .. 0 -> V] /\ Solves([n \in 0 .. 0 |-> b], 0)
    BY DEF Recurs
  <2>2. 0 \in 0 .. N
    OBVIOUS
  <2> HIDE DEF Solves
  <2> QED BY <2>1, <2>2, Zenon
<1>2. ASSUME NEW m \in 1 .. N, m - 1 \in S PROVE m \in S
  <2>1. PICK f \in [0 .. m - 1 -> V] : Solves(f, m - 1)
    BY <1>2
  <2> DEFINE g == [n \in 0 .. m |-> IF n = m THEN step[<<f[m - 1], m>>] ELSE f[n]]
  <2>2. f[m - 1] \in V /\ step[<<f[m - 1], m>>] \in V
    OBVIOUS
  <2>3. g \in [0 .. m -> V]
    BY <2>2
  <2>4. g[0] = b
    BY <2>1 DEF Recurs
  <2>5. ASSUME NEW n \in 1 .. m PROVE g[n] = step[<<g[n - 1], n>>]
    <3>1. g[n - 1] = f[n - 1]
      OBVIOUS
    <3>2. CASE n = m
      <4>1. g[m] = step[<<f[m - 1], m>>]
        OBVIOUS
      <4>2. g[m - 1] = f[m - 1]
        BY <3>1, <3>2
      <4> HIDE DEF g
      <4> QED BY <3>2, <4>1, <4>2
    <3>3. CASE n \in 1 .. m - 1
      <4>1. g[n] = f[n]
        BY <3>3
      <4>2. f[n] = step[<<f[n - 1], n>>]
        <5>1. \A h \in 1 .. m - 1 : f[h] = step[<<f[h - 1], h>>]
          BY <2>1 DEF Recurs
        <5> QED BY <3>3, <5>1
      <4> QED BY <3>1, <4>1, <4>2
    <3> QED BY <3>2, <3>3
  <2>6. Solves(g, m)
    BY <2>4, <2>5 DEF Recurs
  <2>7. m \in 0 .. N
    OBVIOUS
  <2> HIDE DEF Solves, g
  <2> QED BY <2>3, <2>6, <2>7, Zenon
<1> HIDE DEF S
<1>3. N \in S
  BY <1>1, <1>2, UpToBound
<1> QED BY <1>3 DEF S

-----------------------------------------------------------------------------
(* The pipeline. *)

KnownFindings ==
  {Finding("PII_IN_INPUT", "medium", FALSE), Finding("PROMPT_INJECTION_ATTEMPT", "high", TRUE),
   Finding("UNSUPPORTED_COMPENSATION_PROMISE", "high", TRUE),
   Finding("PII_IN_OUTPUT", "critical", TRUE), Finding("HIGH_RISK_WITHOUT_HANDOFF", "medium", FALSE)}

ToolName == SafeTools \cup OrderTools \cup {"shipping.track"}
Injected == Finding("PROMPT_INJECTION_ATTEMPT", "high", TRUE)
Target   == {"order_agent", "billing_agent", "tech_agent", "safety_agent", "general_agent",
             "retention_agent"}

\* A ticket is asked for, or was.
TicketAhead == Has(turn.todo, "ticket.create")
TicketAsked == \E r \in turn.results : r.name = "ticket.create"

\* A run asks only for what its route allows; a run for a human asks for a ticket.
InTools ==
  /\ turn.todo \in Seq(turn.allowed)
  /\ turn.results \subseteq [name : turn.allowed, status : {"success", "failed"}]
  /\ Injected \in turn.findings => turn.allowed = SafeTools
  /\ turn.human <=> HandoffReason(turn.target)
  /\ turn.human => TicketAhead \/ TicketAsked

InAnswer ==
  /\ turn.handoff = turn.human
  /\ \A r \in turn.results : r.status # "skipped"
  /\ turn.goal # "clarify" =>
       /\ turn.human => TicketAsked
       /\ Injected \in turn.findings => {r.name : r \in turn.results} \subseteq SafeTools

TurnRecord ==
  [stage : {"idle", "tools", "answered"}, intent : Topic \cup {"general_question", "none"},
   target : Target \cup {"none"}, allowed : SUBSET ToolName,
   human : BOOLEAN, todo : Seq(ToolName),
   results : SUBSET [name : ToolName,
                     status : {"success", "failed", "skipped"}],
   cited : BOOLEAN, findings : SUBSET KnownFindings, handoff : BOOLEAN,
   goal : {"none", "clarify", "apology", "after_sales", "order_detail", "confirm_order",
           "ask_order", "ticket_opened", "handed_over", "advice"}]

PipelineInv ==
  /\ turn \in TurnRecord
  /\ turn.stage = "idle" => turn = NoTurn
  /\ turn.stage = "tools" => InTools
  /\ turn.stage = "answered" => InAnswer

\* One of the candidates of a text beats all others.
LEMMA PrimaryIsTopic ==
  ASSUME NEW t \in AnyText
  PROVE  Primary(t) \in Topic \cup {"general_question"}
<1> SUFFICES ASSUME t.topics # {}
             PROVE  \E a \in t.topics : \A b \in t.topics \ {a} :
                      \/ Confidence[a] > Confidence[b]
                      \/ Confidence[a] = Confidence[b] /\ Before(a, b)
  BY DEF Primary, AnyText
<1>0. t.topics \subseteq Topic
  BY DEF AnyText
<1>1. Before("order_status", "billing")
  BY DEF Before, TableOrder
<1>2. CASE "account_security" \in t.topics
  BY <1>0, <1>2 DEF Topic, Confidence
<1>3. CASE "refund_or_return" \in t.topics /\ "account_security" \notin t.topics
  BY <1>0, <1>3 DEF Topic, Confidence
<1>4. CASE /\ "complaint" \in t.topics
           /\ t.topics \cap {"account_security", "refund_or_return"} = {}
  BY <1>0, <1>4 DEF Topic, Confidence
<1>5. CASE /\ "order_status" \in t.topics
           /\ t.topics \cap {"account_security", "refund_or_return", "complaint"} = {}
  BY <1>0, <1>1, <1>5 DEF Topic, Confidence
<1>6. CASE /\ "billing" \in t.topics
           /\ t.topics \subseteq {"billing", "technical_issue"}
  BY <1>6 DEF Confidence
<1>7. CASE t.topics \subseteq {"technical_issue"}
  BY <1>7
<1> QED BY <1>0, <1>2, <1>3, <1>4, <1>5, <1>6, <1>7 DEF Topic

\* No turn has begun at first.
LEMMA PipelineInitial == PipelineInit => PipelineInv
BY EmptyIsSeq DEF PipelineInit, PipelineInv, NoTurn, TurnRecord

\* The plan of every target stays within what its route allows, whatever text led
\* there; the routes to a human are those whose agents open a ticket.
LEMMA PlanIsAllowed ==
  ASSUME NEW t \in AnyText, NEW order \in BOOLEAN
  PROVE  LET r == Route(t)
             todo == Plan(r.target, Primary(t), order)
         IN /\ r.target \in Target
            /\ r.allowed \in SUBSET ToolName
            /\ r.human \in BOOLEAN /\ (r.human <=> HandoffReason(r.target))
            /\ todo \in Seq(r.allowed)
            /\ r.human => Has(todo, "ticket.create")
            /\ t.injection => r.allowed = SafeTools
<1>0. DEFINE i == Primary(t)
             r == Route(t)
             todo == Plan(r.target, i, order)
<1>a. i \in Topic \cup {"general_question"}
  BY PrimaryIsTopic
<1>b. t.injection => Risky(InputFindings(t))
  <2>1. t.injection => Injected \in InputFindings(t)
    BY DEF Injected, InputFindings
  <2>2. Injected.risk = "high"
    BY DEF Injected, Finding
  <2> QED BY <2>1, <2>2 DEF Risky, HasRisk
<1>c. AllowedFor(i) \in SUBSET ToolName /\ SafeTools \subseteq AllowedFor(i)
  BY <1>a DEF AllowedFor, Topic, SafeTools, OrderTools, ToolName
<1>1. CASE Risky(InputFindings(t))
  <2>1. r = Decision("safety_agent", SafeTools, TRUE)
    BY <1>1 DEF Route
  <2>2. todo = <<"ticket.create">>
    BY <2>1 DEF Plan, Decision
  <2> HIDE DEF i, r, todo
  <2>3. todo \in Seq(r.allowed) /\ Has(todo, "ticket.create")
    BY <2>1, <2>2 DEF Has, Decision, SafeTools
  <2> QED BY <2>1, <2>3 DEF Decision, Target, HandoffReason, r, todo, i, ToolName
<1>2. CASE ~ Risky(InputFindings(t)) /\ (t.angry \/ i = "complaint")
  <2>1. r = Decision("retention_agent", AllowedFor(i), TRUE)
    BY <1>2 DEF Route
  <2>2. todo = <<"crm.get_customer", "ticket.create">>
    BY <2>1 DEF Plan, Decision
  <2> HIDE DEF i, r, todo
  <2>3. todo \in Seq(r.allowed) /\ Has(todo, "ticket.create")
    BY <1>c, <2>1, <2>2 DEF Has, Decision, SafeTools
  <2> QED BY <1>b, <1>c, <1>2, <2>1, <2>3 DEF Decision, Target, HandoffReason, r, todo, i
<1>3. CASE ~ Risky(InputFindings(t)) /\ ~ (t.angry \/ i = "complaint")
  <2>1. r = Decision(TargetOf(i), AllowedFor(i), TargetOf(i) = "safety_agent")
    BY <1>3 DEF Route
  <2>2. TargetOf(i) \in Target \ {"retention_agent"}
    BY <1>a DEF TargetOf, Target, Topic
  <2>3. TargetOf(i) \in {"order_agent", "billing_agent"} => OrderTools \subseteq AllowedFor(i)
    BY <1>a DEF TargetOf, AllowedFor, Topic, OrderTools
  <2>4. todo = Plan(TargetOf(i), i, order) /\ r.allowed = AllowedFor(i)
    BY <2>1 DEF Decision
  <2> HIDE DEF i, r, todo
  <2>5. CASE TargetOf(i) = "safety_agent"
    <3>1. todo = <<"ticket.create">>
      BY <2>4, <2>5 DEF Plan
    <3>2. todo \in Seq(r.allowed) /\ Has(todo, "ticket.create")
      BY <1>c, <2>4, <3>1 DEF Has, SafeTools
    <3>3. ~ t.injection
      BY <1>b, <1>3
    <3>4. r.target = "safety_agent" /\ r.human = TRUE
      BY <2>1, <2>5 DEF Decision
    <3> QED BY <1>c, <2>4, <3>2, <3>3, <3>4 DEF Target, HandoffReason, r, todo, i
  <2>6. CASE TargetOf(i) # "safety_agent"
    <3>1. todo \in Seq(r.allowed)
      <4>1. CASE TargetOf(i) = "order_agent"
        <5>1. {"crm.get_customer", "order.search", "order.get", "ticket.create"} \subseteq r.allowed
          BY <1>c, <2>3, <2>4, <4>1 DEF SafeTools, OrderTools
        <5>2. /\ <<"crm.get_customer">> \in Seq(r.allowed) /\ <<"order.search">> \in Seq(r.allowed)
              /\ <<"order.get">> \in Seq(r.allowed) /\ <<"ticket.create">> \in Seq(r.allowed)
              /\ << >> \in Seq(r.allowed)
          BY <5>1, Single, EmptyIsSeq, Zenon
        <5>3. \A u, v \in Seq(r.allowed) : u \o v \in Seq(r.allowed)
          OBVIOUS
        <5>4. CASE ~ order
          BY <2>4, <4>1, <5>2, <5>3, <5>4 DEF Plan
        <5>5. CASE order /\ i = "refund_or_return"
          BY <2>4, <4>1, <5>2, <5>3, <5>5 DEF Plan
        <5>6. CASE order /\ i # "refund_or_return"
          BY <2>4, <4>1, <5>2, <5>3, <5>6 DEF Plan
        <5> QED BY <5>4, <5>5, <5>6
      <4>2. CASE TargetOf(i) = "billing_agent"
        <5>1. {"crm.get_customer", "order.get"} \subseteq r.allowed
          BY <1>c, <2>3, <2>4, <4>2 DEF SafeTools, OrderTools
        <5>2. /\ <<"crm.get_customer">> \in Seq(r.allowed) /\ <<"order.get">> \in Seq(r.allowed)
              /\ << >> \in Seq(r.allowed)
          BY <5>1, Single, EmptyIsSeq, Zenon
        <5>3. \A u, v \in Seq(r.allowed) : u \o v \in Seq(r.allowed)
          OBVIOUS
        <5> QED BY <2>4, <4>2, <5>2, <5>3 DEF Plan
      <4>3. CASE TargetOf(i) \in {"tech_agent", "general_agent"}
        <5>1. todo = <<"crm.get_customer">>
          BY <2>4, <4>3 DEF Plan
        <5> QED BY <1>c, <2>4, <5>1 DEF SafeTools
      <4> QED BY <2>2, <2>6, <4>1, <4>2, <4>3 DEF Target
    <3>2. ~ t.injection
      BY <1>b, <1>3
    <3>3. r.target = TargetOf(i) /\ r.human = FALSE
      BY <2>1, <2>6 DEF Decision
    <3>4. ~ HandoffReason(r.target)
      BY <2>2, <2>6, <3>3 DEF HandoffReason
    <3> QED BY <1>c, <2>2, <2>4, <3>1, <3>2, <3>3, <3>4 DEF r, todo, i
  <2> QED BY <2>5, <2>6
<1> QED BY <1>1, <1>2, <1>3

\* The policy finds nothing it has no code for.
LEMMA FindingsAreKnown ==
  /\ \A t \in AnyText :
       /\ InputFindings(t) \subseteq KnownFindings
       /\ Injected \in InputFindings(t) => t.injection
  /\ \A a \in [promise : BOOLEAN, pii : BOOLEAN, human : BOOLEAN] : \A human \in BOOLEAN :
       OutputFindings(a, human) \subseteq KnownFindings \ {Injected}
<1>1. ASSUME NEW t \in AnyText
      PROVE  /\ InputFindings(t) \subseteq KnownFindings
             /\ Injected \in InputFindings(t) => t.injection
  <2>1. Finding("PII_IN_INPUT", "medium", FALSE) # Injected
    BY DEF Injected, Finding
  <2> QED BY <2>1 DEF InputFindings, KnownFindings, Injected
<1>2. ASSUME NEW a \in [promise : BOOLEAN, pii : BOOLEAN, human : BOOLEAN], NEW human \in BOOLEAN
      PROVE  OutputFindings(a, human) \subseteq KnownFindings \ {Injected}
  <2>1. /\ Finding("UNSUPPORTED_COMPENSATION_PROMISE", "high", TRUE) # Injected
        /\ Finding("PII_IN_OUTPUT", "critical", TRUE) # Injected
        /\ Finding("HIGH_RISK_WITHOUT_HANDOFF", "medium", FALSE) # Injected
    BY DEF Injected, Finding
  <2> QED BY <2>1 DEF OutputFindings, KnownFindings
<1> QED BY <1>1, <1>2

\* A turn goes on; each step finds what the one before it left.
LEMMA PipelineStep == PipelineInv /\ [PipelineNext]_pipelineVars => PipelineInv'
<1> SUFFICES ASSUME PipelineInv, [PipelineNext]_pipelineVars PROVE PipelineInv'
  OBVIOUS
<1> USE DEF PipelineInv
<1>0. NoTurn \in TurnRecord /\ NoTurn.stage = "idle"
  BY DEF NoTurn, TurnRecord
<1>1. ASSUME NEW t \in Text, Receive(t) PROVE PipelineInv'
  <2> DEFINE r == Route(t)
             todo == Plan(r.target, Primary(t), known \/ t.order)
  <2>0. t \in AnyText /\ (known \/ t.order) \in BOOLEAN
    BY TextAssumption
  <2>1. /\ r.target \in Target /\ r.allowed \in SUBSET ToolName
        /\ r.human \in BOOLEAN /\ (r.human <=> HandoffReason(r.target))
        /\ todo \in Seq(r.allowed)
        /\ r.human => Has(todo, "ticket.create")
        /\ t.injection => r.allowed = SafeTools
    BY <2>0, PlanIsAllowed
  <2>2. Primary(t) \in Topic \cup {"general_question"}
    BY <2>0, PrimaryIsTopic
  <2>3. /\ InputFindings(t) \subseteq KnownFindings
        /\ Injected \in InputFindings(t) => t.injection
    BY <2>0, FindingsAreKnown
  <2>4. CASE Unclear(t)
    <3>1. turn' = [NoTurn EXCEPT !.stage = "answered", !.intent = Primary(t),
                                 !.findings = InputFindings(t), !.goal = "clarify"]
      BY <1>1, <2>4 DEF Receive
    <3>2. turn' \in TurnRecord
      BY <2>2, <2>3, <3>1, EmptyIsSeq DEF NoTurn, TurnRecord
    <3>3. turn'.stage = "answered" /\ InAnswer'
      BY <3>1 DEF NoTurn, InAnswer
    <3> QED BY <3>2, <3>3
  <2>5. CASE ~ Unclear(t)
    <3>1. turn' = [NoTurn EXCEPT !.stage = "tools", !.intent = Primary(t),
                                 !.target = r.target, !.allowed = r.allowed, !.human = r.human,
                                 !.todo = todo, !.findings = InputFindings(t)]
      BY <1>1, <2>5 DEF Receive
    <3> HIDE DEF r, todo
    <3>2. todo \in Seq(ToolName)
      BY <2>1, SeqGrows, Zenon
    <3>3. turn' \in TurnRecord
      BY <2>1, <2>2, <2>3, <3>1, <3>2 DEF NoTurn, TurnRecord
    <3>4. InTools'
      BY <2>1, <2>3, <3>1 DEF NoTurn, InTools, TicketAhead, TicketAsked
    <3> QED BY <3>1, <3>3, <3>4 DEF NoTurn
  <2> QED BY <2>4, <2>5
<1>2. ASSUME CallTool PROVE PipelineInv'
  <2> DEFINE n == Head(turn.todo)
  <2>0. turn.stage = "tools" /\ turn.todo # << >> /\ InTools /\ turn \in TurnRecord
    BY <1>2 DEF CallTool
  <2>1. turn.todo \in Seq(turn.allowed) /\ n \in turn.allowed /\ Tail(turn.todo) \in Seq(turn.allowed)
    BY <2>0, SeqParts, Zenon DEF InTools
  <2>2. PICK ok \in BOOLEAN, shipped \in BOOLEAN :
          turn' = [turn EXCEPT !.todo = FollowUp(n, ok, shipped) \o Tail(@),
                               !.results = @ \cup {Result(n, IF ok THEN "success" ELSE "failed")}]
    BY <1>2, <2>1 DEF CallTool
  <2> DEFINE f == FollowUp(n, ok, shipped)
             res == Result(n, IF ok THEN "success" ELSE "failed")
  <2>3. f \in Seq(turn.allowed)
    <3>1. CASE f = <<"shipping.track">> /\ "shipping.track" \in turn.allowed
      BY <3>1, Single, Zenon
    <3>2. CASE f = << >>
      BY <3>2, EmptyIsSeq, Zenon
    <3> QED BY <3>1, <3>2 DEF FollowUp
  <2>4. res \in [name : turn.allowed, status : {"success", "failed"}] /\ res.name = n
    BY <2>1 DEF Result
  <2> HIDE DEF f, res, n
  <2>5. f \o Tail(turn.todo) \in Seq(turn.allowed)
    BY <2>1, <2>3, Joined, Zenon
  <2>6. turn.allowed \subseteq ToolName
    BY <2>0 DEF TurnRecord
  <2>7. f \o Tail(turn.todo) \in Seq(ToolName)
    BY <2>5, <2>6, SeqGrows, Zenon
  <2>8. /\ turn' = [turn EXCEPT !.todo = f \o Tail(turn.todo), !.results = turn.results \cup {res}]
        /\ turn' \in TurnRecord
    BY <2>0, <2>2, <2>4, <2>6, <2>7 DEF TurnRecord, f, res, n
  <2>9. InTools'
    <3>1. /\ turn'.todo = f \o Tail(turn.todo) /\ turn'.results = turn.results \cup {res}
          /\ turn'.allowed = turn.allowed /\ turn'.findings = turn.findings
          /\ turn'.human = turn.human /\ turn'.target = turn.target
      BY <2>0, <2>8 DEF TurnRecord
    <3>2. TicketAhead => (TicketAhead \/ TicketAsked)'
      <4>1. TicketAhead => n = "ticket.create" \/ Has(f \o Tail(turn.todo), "ticket.create")
        BY <2>0, <2>1, <2>3, HeadOrLater, Zenon DEF TicketAhead, n
      <4> QED BY <2>4, <3>1, <4>1 DEF TicketAhead, TicketAsked
    <3>3. TicketAsked => TicketAsked'
      BY <3>1 DEF TicketAsked
    <3> QED BY <2>0, <2>4, <2>5, <3>1, <3>2, <3>3 DEF InTools
  <2>10. turn'.stage = "tools"
    BY <2>0, <2>8 DEF TurnRecord
  <2> QED BY <2>8, <2>9, <2>10
<1>3. ASSUME Answer PROVE PipelineInv'
  <2>0. turn.stage = "tools" /\ turn.todo = << >> /\ InTools /\ turn \in TurnRecord
    BY <1>3 DEF Answer
  <2>1. PICK cited \in BOOLEAN,
             a \in [promise : BOOLEAN, pii : BOOLEAN, human : BOOLEAN] \cup {Draft(Goal)} :
          turn' = [turn EXCEPT !.stage = "answered", !.goal = Goal, !.cited = cited,
                               !.findings = @ \cup OutputFindings(a, turn.human),
                               !.handoff = turn.human \/ HandoffReason(turn.target)]
    BY <1>3 DEF Answer
  <2>2. a \in [promise : BOOLEAN, pii : BOOLEAN, human : BOOLEAN]
    <3>1. DraftSaysHuman(Goal) \in BOOLEAN
      BY DEF DraftSaysHuman
    <3>2. Draft(Goal) \in [promise : BOOLEAN, pii : BOOLEAN, human : BOOLEAN]
      BY <3>1 DEF Draft
    <3> QED BY <3>2
  <2>3. OutputFindings(a, turn.human) \subseteq KnownFindings \ {Injected}
    BY <2>0, <2>2, FindingsAreKnown DEF TurnRecord
  <2>4. Goal \in {"apology", "after_sales", "order_detail", "confirm_order",
                  "ask_order", "ticket_opened", "handed_over", "advice"}
    BY DEF Goal
  <2>5. turn.human \/ HandoffReason(turn.target) <=> turn.human
    BY <2>0 DEF InTools
  <2>6. /\ turn' \in TurnRecord /\ turn'.stage = "answered"
        /\ turn'.handoff = turn.human /\ turn'.human = turn.human
        /\ turn'.results = turn.results
        /\ turn'.findings = turn.findings \cup OutputFindings(a, turn.human)
    BY <2>0, <2>1, <2>3, <2>4, <2>5 DEF TurnRecord
  <2>7. ~ TicketAhead
    BY <2>0 DEF TicketAhead, Has
  <2>8. InAnswer'
    BY <2>0, <2>3, <2>6, <2>7 DEF InAnswer, InTools, TicketAsked
  <2> QED BY <2>6, <2>8
<1>4. CASE Respond
  BY <1>0, <1>4 DEF Respond
<1>5. CASE Abort
  BY <1>0, <1>5 DEF Abort
<1>6. CASE UNCHANGED pipelineVars
  BY <1>6 DEF pipelineVars, NoTurn, InTools, InAnswer, TicketAhead, TicketAsked
<1> QED BY <1>1, <1>2, <1>3, <1>4, <1>5, <1>6 DEF PipelineNext

\* For any set of texts, tools that answer anything and a model that says
\* anything: no planned tool is refused, a turn for a human has asked for a
\* ticket, and one that tries to inject touches no order (router.py, agents.py,
\* policy.py).
THEOREM PlansFitTheirRoutes == PipelineSpec => []PlanFitsRoute
<1>1. PipelineInv => PlanFitsRoute
  <2> SUFFICES ASSUME PipelineInv PROVE NoPlannedToolRefused /\ HandoffHasTicket
    BY DEF PlanFitsRoute
  <2>1. NoPlannedToolRefused
    BY DEF PipelineInv, TurnRecord, InTools, InAnswer, NoTurn, NoPlannedToolRefused
  <2>2. HandoffHasTicket
    BY DEF PipelineInv, InAnswer, HandoffHasTicket, TicketAsked, Injected
  <2> QED BY <2>1, <2>2
<1> QED BY <1>1, PipelineInitial, PipelineStep, PTL DEF PipelineSpec

\* One verdict on a run, from the response or from its trace, and the summary of
\* alerts and the triage metrics count it alike: a leak is always a P0 alert
\* (monitor.py, triage.py, monitor_review_service.py).
THEOREM VerdictsAgreeAlways == PipelineSpec => []VerdictsAgree
<1>1. PipelineInv => VerdictsAgree
  <2> SUFFICES ASSUME PipelineInv, turn.stage = "answered"
               PROVE  /\ WorkerVerdict = LiveVerdict
                      /\ TriageAlerts(LiveVerdict) <=> SummaryAlerts(LiveVerdict)
                      /\ LiveVerdict.leak => Severity(LiveVerdict) = "P0" /\ SummaryAlerts(LiveVerdict)
    BY DEF VerdictsAgree, WorkerAgrees, LeaksAreAlerts
  <2>1. turn.handoff = turn.human /\ turn \in TurnRecord
    BY DEF PipelineInv, InAnswer
  <2>2. (Escalated(turn.findings) # {} \/ Failed # {} \/ (turn.human \/ Escalated(turn.findings) # {}))
          = (Escalated(turn.findings) # {} \/ Failed # {} \/ turn.handoff)
    BY <2>1 DEF TurnRecord
  <2>3. WorkerVerdict = LiveVerdict
    BY <2>2 DEF WorkerVerdict, LiveVerdict, Verdict
  <2>4. LiveVerdict.leak => LiveVerdict.review
    <3>1. LiveVerdict.leak <=> \E f \in turn.findings : f.code = "PII_IN_OUTPUT"
      BY DEF LiveVerdict, Verdict
    <3>2. \A f \in KnownFindings : f.code = "PII_IN_OUTPUT" => f.escalate
      BY DEF KnownFindings, Finding
    <3>3. LiveVerdict.leak => Escalated(turn.findings) # {}
      BY <2>1, <3>1, <3>2 DEF TurnRecord, Escalated
    <3> QED BY <3>3 DEF LiveVerdict, Verdict
  <2> QED BY <2>3, <2>4 DEF TriageAlerts, SummaryAlerts, Severity
<1> QED BY <1>1, PipelineInitial, PipelineStep, PTL DEF PipelineSpec

-----------------------------------------------------------------------------
(* Memory and log: the owner of a conversation. *)

EventOf(U) == [kind : {"question", "reply", "run"}, turn : Turns, user : U, by : Process]
InTurn(n) == taken[n].pc \in {"asking", "awaiting", "replying", "recording"}

(***************************************************************************)
(* The owner u of the conversation of process p: of its log, of what p     *)
(* remembers and of what a listing has read.  A turn in progress keeps     *)
(* the state loaded, so that nobody else is admitted before its question   *)
(* is in the log.                                                          *)
(***************************************************************************)
OwnedBy(p, u) ==
  /\ log \in Seq(EventOf({u}))
  /\ Loaded(p) => memory[p].user = u
  /\ listing[p] # NotLoaded => listing[p].user = u /\ log # << >>
  /\ \A n \in Turns : InTurn(n) => taken[n].user = u /\ taken[n].process = p /\ Loaded(p)

OwnerInv ==
  /\ deployed \in SUBSET Process
  /\ memory = [p \in Process |-> [user |-> memory[p].user, messages |-> memory[p].messages]]
  /\ listing = [p \in Process |-> [user |-> listing[p].user, messages |-> listing[p].messages]]
  /\ taken = [n \in Turns |-> [pc |-> taken[n].pc, process |-> taken[n].process,
                               user |-> taken[n].user, tip |-> taken[n].tip]]
  /\ \A p \in Process : deployed = {p} => \E u \in User : OwnedBy(p, u)

\* Who is loaded with a user is loaded.
LEMMA UserIsLoaded ==
  ASSUME NEW s, s.user \in User
  PROVE  s # NotLoaded
BY MemoryAssumption DEF NotLoaded

\* An empty log is anybody's.
LEMMA OwnerInitInv == ConversationInit => OwnerInv
<1> SUFFICES ASSUME ConversationInit PROVE OwnerInv
  OBVIOUS
<1>1. PICK u \in User : TRUE
  BY MemoryAssumption
<1>2. \A p \in Process : OwnedBy(p, u)
  BY DEF ConversationInit, OwnedBy, InTurn, Loaded, Idle
<1>3. /\ \A p \in Process : memory[p] = NotLoaded /\ listing[p] = NotLoaded
      /\ \A n \in Turns : taken[n] = Idle
  BY DEF ConversationInit
<1> QED BY <1>1, <1>2, <1>3 DEF ConversationInit, OwnerInv, NotLoaded, Idle

\* The events of an owner name nobody else.
LEMMA AuthorsOfOwner ==
  ASSUME NEW u, NEW rows \in Seq(EventOf({u}))
  PROVE  Authors(rows) \subseteq {u}
<1>1. \A i \in DOMAIN rows : rows[i] \in EventOf({u})
  OBVIOUS
<1> QED BY <1>1 DEF Authors, EventOf

\* The rows of an owner have one author.
LEMMA OneAuthor == OwnerInv => OneOwner
<1> SUFFICES ASSUME OwnerInv, Cardinality(deployed) = 1 PROVE Cardinality(Authors(log)) <= 1
  BY DEF OneOwner
<1>1. PICK p \in Process : deployed = {p}
  <2>1. IsFiniteSet(deployed)
    BY MemoryAssumption, FS_Subset DEF OwnerInv
  <2>2. \E p : deployed = {p}
    BY <2>1, FS_Singleton
  <2> QED BY <2>2 DEF OwnerInv
<1>2. PICK u \in User : OwnedBy(p, u)
  BY <1>1 DEF OwnerInv
<1>3. Authors(log) \subseteq {u}
  BY <1>2, AuthorsOfOwner DEF OwnedBy
<1>4. IsFiniteSet({u}) /\ Cardinality({u}) = 1
  BY FS_Singleton
<1>5. IsFiniteSet(Authors(log)) /\ Cardinality(Authors(log)) <= Cardinality({u})
  BY <1>3, <1>4, FS_Subset
<1> QED BY <1>4, <1>5

\* The row of a turn is a row of the turn's user, in whatever place it comes.
LEMMA PlacedRow ==
  ASSUME NEW U, log \in Seq(EventOf(U)), NEW n \in Turns, NEW k \in {"question", "reply", "run"},
         taken[n].user \in U, taken[n].process \in Process, Place(k, n)
  PROVE  log' \in Seq(EventOf(U)) /\ log' # << >>
<1>1. PICK i \in 0 .. Len(log) : log' = InsertAt(log, i + 1, Event(k, n, taken[n].user, taken[n].process))
  BY DEF Place
<1>2. Event(k, n, taken[n].user, taken[n].process) \in EventOf(U)
  BY DEF Event, EventOf
<1>3. log' \in Seq(EventOf(U)) /\ Len(log') = Len(log) + 1
  BY <1>1, <1>2, Inserted
<1> QED BY <1>3

\* A turn goes on: its user, its process and the other turns stay what they are.
Continues(n) ==
  /\ taken' = [m \in Turns |-> taken'[m]]
  /\ \A m \in Turns : taken'[m].user = taken[m].user /\ taken'[m].process = taken[m].process
  /\ \A m \in Turns \ {n} : taken'[m] = taken[m]
  /\ taken'[n] = [pc |-> taken'[n].pc, process |-> taken'[n].process, user |-> taken'[n].user,
                  tip |-> taken'[n].tip]

\* What the steps of a turn change of it.
LEMMA TurnsGoOn ==
  ASSUME OwnerInv, NEW n \in Turns
  PROVE  /\ \A a, rows : Goto(n, a, rows) => Continues(n) /\ taken'[n].pc = a /\ taken'[n].tip = Tip(rows)
         /\ Finish(n) => Continues(n) /\ taken'[n].pc = "done" /\ taken'[n].tip = NoRow
         /\ taken' = [taken EXCEPT ![n].pc = "awaiting", ![n].tip = NoRow]
              => Continues(n) /\ taken'[n].pc = "awaiting" /\ taken'[n].tip = NoRow
<1>1. ASSUME NEW a, NEW tip, taken' = [taken EXCEPT ![n].pc = a, ![n].tip = tip]
      PROVE  Continues(n) /\ taken'[n].pc = a /\ taken'[n].tip = tip
  <2>1. taken[n] = [pc |-> taken[n].pc, process |-> taken[n].process, user |-> taken[n].user, tip |-> taken[n].tip]
    BY DEF OwnerInv
  <2>2. taken = [m \in Turns |-> taken[m]]
    BY DEF OwnerInv
  <2>3. /\ taken' = [m \in Turns |-> taken'[m]]
        /\ \A m \in Turns \ {n} : taken'[m] = taken[m]
        /\ taken'[n] = [[taken[n] EXCEPT !.pc = a] EXCEPT !.tip = tip]
    BY <1>1, <2>2
  <2>4. taken'[n] = [pc |-> a, process |-> taken[n].process, user |-> taken[n].user, tip |-> tip]
    BY <2>1, <2>3
  <2> QED BY <2>3, <2>4 DEF Continues
<1> QED BY <1>1 DEF Goto, Finish

\* A step of one turn that leaves memory and listings alone, and may add its row.
LEMMA OwnerOfTurn ==
  ASSUME OwnerInv, NEW n \in Turns, InTurn(n), Continues(n),
         \/ UNCHANGED log
         \/ \E k \in {"question", "reply", "run"} : Place(k, n),
         UNCHANGED <<deployed, memory, listing>>
  PROVE  OwnerInv'
<1>1. ASSUME NEW p \in Process, deployed = {p} PROVE \E u \in User : OwnedBy(p, u)'
  <2>1. PICK u \in User : OwnedBy(p, u)
    BY <1>1 DEF OwnerInv
  <2>2. log' \in Seq(EventOf({u})) /\ (log # << >> => log' # << >>)
    BY <2>1, PlacedRow DEF OwnedBy
  <2>3. \A m \in Turns : InTurn(m)' => InTurn(m)
    BY DEF Continues, InTurn
  <2>4. OwnedBy(p, u)'
    BY <2>1, <2>2, <2>3 DEF OwnedBy, Loaded, Continues
  <2> QED BY <2>4
<1>2. taken' = [m \in Turns |-> [pc |-> taken'[m].pc, process |-> taken'[m].process,
                                user |-> taken'[m].user, tip |-> taken'[m].tip]]
  BY DEF Continues, OwnerInv
<1> QED BY <1>1, <1>2 DEF OwnerInv

\* A message more leaves the user what it was.
LEMMA StillTheirs ==
  ASSUME NEW s, s = [user |-> s.user, messages |-> s.messages], NEW k, NEW n
  PROVE  Remember(s, k, n) = [user |-> s.user, messages |-> Append(s.messages, Says(k, n))]
BY DEF Remember

\* A turn is only admitted for the owner: of the memory, or of the log.
LEMMA OwnerOfAsk ==
  ASSUME OwnerInv, NEW n \in Turns, NEW p \in deployed, NEW u \in User, Ask(n, p, u)
  PROVE  OwnerInv'
<1> DEFINE s == Hydrated(p, u)
<1>1. s = [user |-> s.user, messages |-> s.messages]
  BY DEF Hydrated, Replay, NotLoaded, OwnerInv
<1> HIDE DEF s
<1>2. memory' = [memory EXCEPT ![p] = [user |-> s.user, messages |-> Append(s.messages, Says("question", n))]]
  BY <1>1, StillTheirs DEF Ask, s
<1>3. /\ taken' = [taken EXCEPT ![n] = [pc |-> "asking", process |-> p, user |-> u, tip |-> Tip(log)]]
      /\ UNCHANGED <<deployed, log, listing>> /\ Admits(p, u)
  BY DEF Ask
<1>4. p \in Process /\ deployed \in SUBSET Process
  BY DEF OwnerInv
<1>5. ASSUME deployed = {p} PROVE \E v \in User : OwnedBy(p, v)'
  <2>1. PICK v \in User : OwnedBy(p, v)
    BY <1>4, <1>5 DEF OwnerInv
  <2>2. s.user = u /\ (log # << >> \/ Loaded(p) => u = v)
    <3>1. CASE Loaded(p)
      BY <3>1, <1>3, <2>1 DEF Admits, Hydrated, s, OwnedBy
    <3>2. CASE ~ Loaded(p) /\ log = << >>
      BY <3>2 DEF Hydrated, s, NotLoaded
    <3>3. CASE ~ Loaded(p) /\ log # << >>
      <4>1. Authors(log) = {u} /\ s = Replay(log)
        BY <3>3, <1>3 DEF Admits, Replays, Hydrated, s
      <4>2. s.user = u
        BY <4>1 DEF Replay
      <4>3. Authors(log) \subseteq {v}
        BY <2>1, AuthorsOfOwner DEF OwnedBy
      <4> QED BY <4>1, <4>2, <4>3
    <3> QED BY <3>1, <3>2, <3>3
  <2>3. memory'[p].user = u /\ Loaded(p)'
    <3>1. memory'[p] = [user |-> s.user, messages |-> Append(s.messages, Says("question", n))]
      BY <1>2, <1>4 DEF OwnerInv
    <3>2. memory'[p].user = u
      BY <3>1, <2>2
    <3> QED BY <3>2, UserIsLoaded DEF Loaded
  <2>4. \A m \in Turns \ {n} : taken'[m] = taken[m]
    BY <1>3
  <2>5. taken'[n].user = u /\ taken'[n].process = p
    BY <1>3 DEF OwnerInv
  <2>6. log' \in Seq(EventOf({u}))
    <3>1. CASE log = << >>
      BY <3>1, <1>3
    <3>2. CASE log # << >>
      BY <3>2, <1>3, <2>1, <2>2 DEF OwnedBy
    <3> QED BY <3>1, <3>2
  <2>7. listing'[p] # NotLoaded => listing'[p].user = u /\ log' # << >>
    BY <1>3, <2>1, <2>2 DEF OwnedBy
  <2>8. ASSUME NEW m \in Turns, InTurn(m)' PROVE taken'[m].user = u /\ taken'[m].process = p
    <3>1. CASE m = n
      BY <3>1, <2>5
    <3>2. CASE m # n
      BY <3>2, <2>1, <2>2, <2>4, <2>8 DEF OwnedBy, InTurn
    <3> QED BY <3>1, <3>2
  <2>9. OwnedBy(p, u)'
    BY <2>3, <2>6, <2>7, <2>8 DEF OwnedBy
  <2> QED BY <2>9
<1>6. taken' = [m \in Turns |-> [pc |-> taken'[m].pc, process |-> taken'[m].process,
                                user |-> taken'[m].user, tip |-> taken'[m].tip]]
  BY <1>3 DEF OwnerInv
<1>7. memory' = [x \in Process |-> [user |-> memory'[x].user, messages |-> memory'[x].messages]]
  BY <1>2 DEF OwnerInv
<1>8. deployed' \in SUBSET Process /\ listing' =
        [x \in Process |-> [user |-> listing'[x].user, messages |-> listing'[x].messages]]
  BY <1>3, <1>4 DEF OwnerInv
<1>9. ASSUME NEW x \in Process, deployed' = {x} PROVE \E v \in User : OwnedBy(x, v)'
  <2>1. x = p /\ deployed = {p}
    BY <1>3, <1>9
  <2> QED BY <1>5, <2>1
<1> QED BY <1>6, <1>7, <1>8, <1>9 DEF OwnerInv

\* A reply is added to the owner's state.
LEMMA OwnerOfReply ==
  ASSUME OwnerInv, NEW n \in Turns, Reply(n)
  PROVE  OwnerInv'
<1> DEFINE q == taken[n].process
           s == memory[q]
<1>1. /\ memory' = [memory EXCEPT ![q] = Remember(s, "reply", n)]
      /\ Continues(n) /\ taken'[n].pc = "replying" /\ InTurn(n)
      /\ UNCHANGED <<deployed, log, listing>>
  BY TurnsGoOn DEF Reply, InTurn
<1>2. memory' = [x \in Process |-> [user |-> memory'[x].user, messages |-> memory'[x].messages]]
  <2>1. CASE q \in Process
    <3>1. Remember(s, "reply", n) = [user |-> s.user, messages |-> Append(s.messages, Says("reply", n))]
      BY <2>1, StillTheirs DEF OwnerInv
    <3> QED BY <1>1, <3>1 DEF OwnerInv
  <2>2. CASE q \notin Process
    BY <1>1, <2>2 DEF OwnerInv
  <2> QED BY <2>1, <2>2
<1>3. taken' = [m \in Turns |-> [pc |-> taken'[m].pc, process |-> taken'[m].process,
                                user |-> taken'[m].user, tip |-> taken'[m].tip]]
  BY <1>1 DEF Continues, OwnerInv
<1>4. ASSUME NEW p \in Process, deployed = {p} PROVE \E u \in User : OwnedBy(p, u)'
  <2>1. PICK u \in User : OwnedBy(p, u)
    BY <1>4 DEF OwnerInv
  <2>2. q = p /\ s.user = u
    BY <1>1, <2>1 DEF OwnedBy
  <2>3. memory'[p].user = u
    <3>1. Remember(s, "reply", n) = [user |-> s.user, messages |-> Append(s.messages, Says("reply", n))]
      BY <2>2, StillTheirs DEF OwnerInv
    <3>2. memory'[p] = Remember(s, "reply", n)
      BY <1>1, <2>2 DEF OwnerInv
    <3> QED BY <2>2, <3>1, <3>2
  <2>4. Loaded(p)'
    BY <2>3, UserIsLoaded DEF Loaded
  <2>5. \A m \in Turns : InTurn(m)' => InTurn(m)
    BY <1>1 DEF Continues, InTurn
  <2>6. \A m \in Turns : taken'[m].user = taken[m].user /\ taken'[m].process = taken[m].process
    BY <1>1 DEF Continues
  <2> HIDE DEF q, s
  <2>7. OwnedBy(p, u)'
    BY <1>1, <2>1, <2>3, <2>4, <2>5, <2>6 DEF OwnedBy
  <2> QED BY <2>7
<1> QED BY <1>1, <1>2, <1>3, <1>4 DEF OwnerInv

\* A listing that is allowed reads the owner's rows.
LEMMA OwnerOfListing ==
  ASSUME OwnerInv, NEW p \in deployed, NEW v \in User, StartListing(p, v)
  PROVE  OwnerInv'
<1>1. /\ listing' = [listing EXCEPT ![p] = Replay(log)] /\ log # << >> /\ Replays(log, v)
      /\ UNCHANGED <<deployed, log, memory, taken>>
  BY DEF StartListing
<1>2. Replay(log) = [user |-> Replay(log).user, messages |-> Replay(log).messages] /\ Replay(log).user = v
  BY <1>1 DEF Replay, Replays
<1>3. listing' = [x \in Process |-> [user |-> listing'[x].user, messages |-> listing'[x].messages]]
  BY <1>1, <1>2 DEF OwnerInv
<1>4. ASSUME NEW x \in Process, deployed = {x} PROVE \E u \in User : OwnedBy(x, u)'
  <2>1. PICK u \in User : OwnedBy(x, u)
    BY <1>4 DEF OwnerInv
  <2>2. x = p /\ Authors(log) \subseteq {u}
    BY <1>4, <2>1, AuthorsOfOwner DEF OwnedBy
  <2>3. v = u
    BY <1>1, <2>2 DEF Replays
  <2>4. listing'[x].user = u /\ log' # << >>
    BY <1>1, <1>2, <2>2, <2>3 DEF OwnerInv
  <2>5. /\ UNCHANGED log /\ (Loaded(x)' <=> Loaded(x)) /\ memory'[x] = memory[x]
        /\ \A m \in Turns : taken'[m] = taken[m] /\ (InTurn(m)' <=> InTurn(m))
    BY <1>1 DEF Loaded, InTurn
  <2>6. OwnedBy(x, u)'
    BY <2>1, <2>4, <2>5 DEF OwnedBy
  <2> QED BY <2>6
<1> QED BY <1>1, <1>3, <1>4 DEF OwnerInv

\* What a listing has read and installs is the owner's.
LEMMA OwnerOfInstall ==
  ASSUME OwnerInv, NEW p \in deployed, Install(p)
  PROVE  OwnerInv'
<1>1. /\ listing[p] # NotLoaded
      /\ memory' = [memory EXCEPT ![p] = listing[p]]
      /\ listing' = [listing EXCEPT ![p] = NotLoaded]
      /\ UNCHANGED <<deployed, log, taken>> /\ p \in Process
  BY DEF Install, OwnerInv
<1>2. /\ memory' = [x \in Process |-> [user |-> memory'[x].user, messages |-> memory'[x].messages]]
      /\ memory'[p] = listing[p]
  BY <1>1 DEF OwnerInv
<1>3. /\ listing' = [x \in Process |-> [user |-> listing'[x].user, messages |-> listing'[x].messages]]
      /\ listing'[p] = NotLoaded
  BY <1>1 DEF OwnerInv, NotLoaded
<1>4. ASSUME NEW x \in Process, deployed = {x} PROVE \E u \in User : OwnedBy(x, u)'
  <2>1. PICK u \in User : OwnedBy(x, u)
    BY <1>4 DEF OwnerInv
  <2>2. x = p /\ memory'[x].user = u /\ Loaded(x)'
    BY <1>1, <1>2, <1>4, <2>1 DEF OwnedBy, Loaded
  <2>3. \A m \in Turns : taken'[m] = taken[m] /\ (InTurn(m)' <=> InTurn(m))
    BY <1>1 DEF InTurn
  <2>4. OwnedBy(x, u)'
    BY <1>1, <1>3, <2>1, <2>2, <2>3 DEF OwnedBy
  <2> QED BY <2>4
<1> QED BY <1>1, <1>2, <1>3, <1>4 DEF OwnerInv

\* A crash ends the turns of the process with its memory.
LEMMA OwnerOfCrash ==
  ASSUME OwnerInv, NEW p \in deployed, CrashProcess(p)
  PROVE  OwnerInv'
<1>1. /\ memory' = [memory EXCEPT ![p] = NotLoaded]
      /\ listing' = [listing EXCEPT ![p] = NotLoaded]
      /\ taken' = [n \in Turns |-> IF n \in Here(p) THEN [taken[n] EXCEPT !.pc = "done", !.tip = NoRow]
                                  ELSE taken[n]]
      /\ UNCHANGED <<deployed, log>> /\ p \in Process
  BY DEF CrashProcess, OwnerInv
<1>2. /\ memory' = [x \in Process |-> [user |-> memory'[x].user, messages |-> memory'[x].messages]]
      /\ listing' = [x \in Process |-> [user |-> listing'[x].user, messages |-> listing'[x].messages]]
      /\ memory'[p] = NotLoaded /\ listing'[p] = NotLoaded
  BY <1>1 DEF OwnerInv, NotLoaded
<1>3. ASSUME NEW n \in Turns
      PROVE  /\ taken'[n] = [pc |-> taken'[n].pc, process |-> taken'[n].process, user |-> taken'[n].user,
                             tip |-> taken'[n].tip]
             /\ n \in Here(p) => taken'[n].pc = "done"
             /\ n \notin Here(p) => taken'[n] = taken[n]
  <2>1. taken[n] = [pc |-> taken[n].pc, process |-> taken[n].process, user |-> taken[n].user, tip |-> taken[n].tip]
    BY DEF OwnerInv
  <2> QED BY <1>1, <2>1
<1>4. ASSUME NEW x \in Process, deployed = {x} PROVE \E u \in User : OwnedBy(x, u)'
  <2>1. PICK u \in User : OwnedBy(x, u)
    BY <1>4 DEF OwnerInv
  <2>2. x = p /\ \A n \in Turns : ~ InTurn(n)'
    BY <1>3, <1>4, <2>1 DEF OwnedBy, Here, InTurn
  <2>3. OwnedBy(x, u)'
    BY <1>1, <1>2, <2>1, <2>2 DEF OwnedBy, Loaded
  <2> QED BY <2>3
<1>5. taken' = [m \in Turns |-> [pc |-> taken'[m].pc, process |-> taken'[m].process,
                                user |-> taken'[m].user, tip |-> taken'[m].tip]]
  BY <1>1, <1>3
<1> QED BY <1>1, <1>2, <1>4, <1>5 DEF OwnerInv

\* Every step keeps the owner.
LEMMA OwnerStepInv == OwnerInv /\ [ConversationNext]_conversationVars => OwnerInv'
<1> SUFFICES ASSUME OwnerInv, [ConversationNext]_conversationVars PROVE OwnerInv'
  OBVIOUS
<1>1. ASSUME NEW n \in Turns, NEW p \in deployed, NEW u \in User, Ask(n, p, u) PROVE OwnerInv'
  BY <1>1, OwnerOfAsk
<1>2. ASSUME NEW n \in Turns, LogQuestion(n) PROVE OwnerInv'
  <2>1. Continues(n) /\ InTurn(n) /\ Place("question", n) /\ UNCHANGED <<deployed, memory, listing>>
    BY <1>2, TurnsGoOn DEF LogQuestion, InTurn
  <2> QED BY <2>1, OwnerOfTurn
<1>3. ASSUME NEW n \in Turns, Reply(n) PROVE OwnerInv'
  BY <1>3, OwnerOfReply
<1>4. ASSUME NEW n \in Turns, LogReply(n) PROVE OwnerInv'
  <2>1. Continues(n) /\ InTurn(n) /\ Place("reply", n) /\ UNCHANGED <<deployed, memory, listing>>
    BY <1>4, TurnsGoOn DEF LogReply, InTurn
  <2> QED BY <2>1, OwnerOfTurn
<1>5. ASSUME NEW n \in Turns, LogRun(n) PROVE OwnerInv'
  <2>1. Continues(n) /\ InTurn(n) /\ Place("run", n) /\ UNCHANGED <<deployed, memory, listing>>
    BY <1>5, TurnsGoOn DEF LogRun, InTurn
  <2> QED BY <2>1, OwnerOfTurn
<1>6. ASSUME NEW n \in Turns, AppendFails(n) \/ GiveUp(n) PROVE OwnerInv'
  <2>1. Continues(n) /\ InTurn(n) /\ UNCHANGED <<deployed, log, memory, listing>>
    BY <1>6, TurnsGoOn DEF AppendFails, GiveUp, InTurn
  <2> QED BY <2>1, OwnerOfTurn
<1>7. ASSUME NEW p \in deployed, NEW u \in User, StartListing(p, u) PROVE OwnerInv'
  BY <1>7, OwnerOfListing
<1>8. ASSUME NEW p \in deployed, Install(p) PROVE OwnerInv'
  BY <1>8, OwnerOfInstall
<1>9. ASSUME NEW p \in deployed, CrashProcess(p) PROVE OwnerInv'
  BY <1>9, OwnerOfCrash
<1>10. CASE UNCHANGED conversationVars
  <2>1. UNCHANGED <<deployed, log, memory, taken, listing>>
    BY <1>10 DEF conversationVars
  <2>2. \A p, u : OwnedBy(p, u) => OwnedBy(p, u)'
    BY <2>1 DEF OwnedBy, InTurn, Loaded
  <2> QED BY <2>1, <2>2 DEF OwnerInv
<1> QED BY <1>1, <1>2, <1>3, <1>4, <1>5, <1>6, <1>7, <1>8, <1>9, <1>10 DEF ConversationNext

\* The owner is the same in every state.
LEMMA OwnerAlways == ConversationSpec => []OwnerInv
<1> QED BY OwnerInitInv, OwnerStepInv, PTL DEF ConversationSpec

(***************************************************************************)
(* With one process, for any users, turns, crashes and failed appends, a   *)
(* conversation is of one user: whoever finds it in memory or in the log   *)
(* is held to its owner (memory/store.py:42-60), and an owner that is only *)
(* in memory stays there until its turn is over.                           *)
(***************************************************************************)
THEOREM ConversationsHaveOneOwner == ConversationSpec => []OneOwner
<1> QED BY OwnerAlways, OneAuthor, PTL

-----------------------------------------------------------------------------
(* Memory and log: what is said in which order. *)

Message == [kind : {"question", "reply", "run"}, turn : Turns]

\* A message comes before another in a sequence.
Precedes(s, x, y) == \E i, j \in DOMAIN s : i < j /\ s[i] = x /\ s[j] = y

\* A message more is the last of the sequence.
LEMMA Appended ==
  ASSUME NEW S, NEW s \in Seq(S), NEW e \in S
  PROVE  /\ Append(s, e) \in Seq(S)
         /\ \A x : Has(Append(s, e), x) <=> Has(s, x) \/ x = e
         /\ \A x, y : Precedes(Append(s, e), x, y) <=> Precedes(s, x, y) \/ (Has(s, x) /\ y = e)
<1> DEFINE t == Append(s, e)
<1>1. /\ t \in Seq(S) /\ Len(s) \in Nat /\ DOMAIN s = 1 .. Len(s) /\ DOMAIN t = 1 .. Len(s) + 1
      /\ t[Len(s) + 1] = e /\ \A i \in 1 .. Len(s) : t[i] = s[i]
  OBVIOUS
<1> HIDE DEF t
<1>2. ASSUME NEW x PROVE Has(t, x) <=> Has(s, x) \/ x = e
  <2>1. ASSUME Has(t, x) PROVE Has(s, x) \/ x = e
    <3>1. PICK i \in 1 .. Len(s) + 1 : t[i] = x
      BY <1>1, <2>1 DEF Has
    <3>2. i = Len(s) + 1 \/ i \in 1 .. Len(s)
      BY <1>1
    <3> QED BY <1>1, <3>1, <3>2 DEF Has
  <2>2. ASSUME Has(s, x) \/ x = e PROVE Has(t, x)
    BY <1>1, <2>2 DEF Has
  <2> QED BY <2>1, <2>2
<1>3. ASSUME NEW x, NEW y
      PROVE  Precedes(t, x, y) <=> Precedes(s, x, y) \/ (Has(s, x) /\ y = e)
  <2>1. ASSUME Precedes(t, x, y) PROVE Precedes(s, x, y) \/ (Has(s, x) /\ y = e)
    <3>1. PICK i, j \in 1 .. Len(s) + 1 : i < j /\ t[i] = x /\ t[j] = y
      BY <1>1, <2>1 DEF Precedes
    <3>2. i \in 1 .. Len(s) /\ (j = Len(s) + 1 \/ j \in 1 .. Len(s))
      BY <1>1, <3>1
    <3> QED BY <1>1, <3>1, <3>2 DEF Precedes, Has
  <2>2. ASSUME Precedes(s, x, y) PROVE Precedes(t, x, y)
    BY <1>1, <2>2 DEF Precedes
  <2>3. ASSUME Has(s, x), y = e PROVE Precedes(t, x, y)
    <3>1. PICK i \in 1 .. Len(s) : s[i] = x
      BY <1>1, <2>3 DEF Has
    <3>2. i < Len(s) + 1 /\ t[i] = x /\ t[Len(s) + 1] = y /\ Len(s) + 1 \in DOMAIN t /\ i \in DOMAIN t
      BY <1>1, <2>3, <3>1
    <3> QED BY <3>2 DEF Precedes
  <2> QED BY <2>1, <2>2, <2>3
<1> QED BY <1>1, <1>2, <1>3 DEF t

-----------------------------------------------------------------------------
(* What the replay of some rows says. *)

\* A list of messages is what the first n rows say, in their order.
Lists(s, rows, n) ==
  /\ s \in Seq(Message)
  /\ \A m : Has(s, m) <=> \E i \in 1 .. n : IsSaid(rows[i]) /\ AsMessage(rows[i]) = m
  /\ \A m, o : Precedes(s, m, o) => \E i, j \in 1 .. n : i < j /\ AsMessage(rows[i]) = m /\ AsMessage(rows[j]) = o

\* One row more.
SaidNext(s, row)   == IF IsSaid(row) THEN Append(s, AsMessage(row)) ELSE s
FoldsSaid(f, rows) == f = [n \in 0 .. Len(rows) |-> IF n = 0 THEN << >> ELSE SaidNext(f[n - 1], rows[n])]

\* The list of what rows say, one row after the other.
LEMMA SaidIsFolded ==
  ASSUME NEW U, NEW rows \in Seq(EventOf(U))
  PROVE  \E f : /\ f[0] = << >>
                /\ \A n \in 1 .. Len(rows) : f[n] = SaidNext(f[n - 1], rows[n])
                /\ Said(rows) = f[Len(rows)]
<1> DEFINE N == Len(rows)
           V == Seq(Message)
           step == [x \in V \X (1 .. N) |-> SaidNext(x[1], rows[x[2]])]
           g == CHOOSE f : FoldsSaid(f, rows)
<1>1. N \in Nat /\ \A n \in 1 .. N : AsMessage(rows[n]) \in Message
  <2>1. \A n \in 1 .. N : rows[n] \in EventOf(U)
    OBVIOUS
  <2> QED BY <2>1 DEF EventOf, AsMessage, Says, Message
<1>2. << >> \in V
  OBVIOUS
<1>3. step \in [V \X (1 .. N) -> V]
  <2>1. ASSUME NEW s \in V, NEW n \in 1 .. N
        PROVE  SaidNext(s, rows[n]) \in V
    <3>1. Append(s, AsMessage(rows[n])) \in V
      BY <1>1
    <3> QED BY <3>1 DEF SaidNext
  <2> HIDE DEF V, N
  <2> QED BY <2>1
<1>4. PICK f \in [0 .. N -> V] : Recurs(f, << >>, step, N)
  <2> HIDE DEF step, N, V
  <2> QED BY <1>1, <1>2, <1>3, RecursionWorks, Zenon
<1>5. \A n \in 1 .. N : f[n] = SaidNext(f[n - 1], rows[n])
  <2> SUFFICES ASSUME NEW n \in 1 .. N
               PROVE  f[n] = SaidNext(f[n - 1], rows[n])
    OBVIOUS
  <2> HIDE DEF V
  <2>1. f[n - 1] \in V
    BY <1>1
  <2>2. f[n] = step[<<f[n - 1], n>>]
    BY <1>4 DEF Recurs
  <2> QED BY <2>1, <2>2
<1>6. FoldsSaid(f, rows)
  BY <1>1, <1>4, <1>5 DEF FoldsSaid, Recurs
<1>7. FoldsSaid(g, rows)
  BY <1>6, Zenon
<1>8. Said(rows) = g[N]
  BY DEF Said, FoldsSaid, SaidNext
<1> HIDE DEF g
<1>9. g[0] = << >> /\ \A n \in 1 .. N : g[n] = SaidNext(g[n - 1], rows[n])
  BY <1>1, <1>7 DEF FoldsSaid
<1> QED BY <1>8, <1>9

\* The replay lists what the rows say and nothing else, in their order.
LEMMA SaidLists ==
  ASSUME NEW U, NEW rows \in Seq(EventOf(U))
  PROVE  Lists(Said(rows), rows, Len(rows))
<1>1. PICK f : /\ f[0] = << >>
               /\ \A n \in 1 .. Len(rows) : f[n] = SaidNext(f[n - 1], rows[n])
               /\ Said(rows) = f[Len(rows)]
  BY SaidIsFolded
<1> DEFINE N == Len(rows)
           S == {n \in 0 .. N : Lists(f[n], rows, n)}
<1>2. N \in Nat /\ \A n \in 1 .. N : AsMessage(rows[n]) \in Message
  <2>1. \A n \in 1 .. N : rows[n] \in EventOf(U)
    OBVIOUS
  <2> QED BY <2>1 DEF EventOf, AsMessage, Says, Message
<1>3. 0 \in S
  <2>1. << >> \in Seq(Message) /\ DOMAIN << >> = {}
    OBVIOUS
  <2>2. Lists(<< >>, rows, 0)
    BY <2>1 DEF Lists, Has, Precedes
  <2> QED BY <1>1, <1>2, <2>2
<1>4. ASSUME NEW n \in 1 .. N, n - 1 \in S PROVE n \in S
  <2> DEFINE s == f[n - 1]  e == AsMessage(rows[n])
  <2>1. Lists(s, rows, n - 1) /\ n - 1 \in Nat /\ e \in Message /\ n \in 0 .. N
    BY <1>2, <1>4
  <2>2. \A i \in 1 .. n : i \in 1 .. n - 1 \/ i = n
    BY <2>1
  <2>3. \A i \in 1 .. n - 1 : i \in 1 .. n /\ i < n
    BY <2>1
  <2>4. CASE ~ IsSaid(rows[n])
    <3>1. f[n] = s
      BY <2>4, <1>1 DEF SaidNext
    <3>2. Lists(s, rows, n)
      <4> HIDE DEF s, e
      <4> QED BY <2>1, <2>2, <2>3, <2>4 DEF Lists
    <3> QED BY <3>1, <3>2, <2>1
  <2>5. CASE IsSaid(rows[n])
    <3>1. f[n] = Append(s, e)
      BY <2>5, <1>1 DEF SaidNext
    <3> HIDE DEF s
    <3>2. /\ Append(s, e) \in Seq(Message)
          /\ \A x : Has(Append(s, e), x) <=> Has(s, x) \/ x = e
          /\ \A x, y : Precedes(Append(s, e), x, y) <=> Precedes(s, x, y) \/ (Has(s, x) /\ y = e)
      <4> HIDE DEF e
      <4> QED BY <2>1, Appended DEF Lists
    <3>3. ASSUME NEW m
          PROVE  Has(Append(s, e), m) <=> \E i \in 1 .. n : IsSaid(rows[i]) /\ AsMessage(rows[i]) = m
      BY <2>1, <2>2, <2>3, <2>5, <3>2 DEF Lists
    <3>4. ASSUME NEW m, NEW o, Precedes(Append(s, e), m, o)
          PROVE  \E i, j \in 1 .. n : i < j /\ AsMessage(rows[i]) = m /\ AsMessage(rows[j]) = o
      <4>1. CASE Precedes(s, m, o)
        BY <4>1, <2>1, <2>3 DEF Lists
      <4>2. CASE Has(s, m) /\ o = e
        <5>1. PICK i \in 1 .. n - 1 : AsMessage(rows[i]) = m
          BY <4>2, <2>1 DEF Lists
        <5>2. i \in 1 .. n /\ n \in 1 .. n /\ i < n /\ AsMessage(rows[n]) = o
          BY <4>2, <5>1, <2>1, <2>3
        <5> QED BY <5>1, <5>2
      <4> QED BY <3>2, <3>4, <4>1, <4>2
    <3>5. Lists(Append(s, e), rows, n)
      <4> HIDE DEF e
      <4> QED BY <3>2, <3>3, <3>4 DEF Lists
    <3> QED BY <3>1, <3>5, <2>1
  <2> QED BY <2>4, <2>5
<1> HIDE DEF S
<1>5. N \in S
  <2> HIDE DEF N
  <2>1. 0 .. N \subseteq S
    BY <1>2, <1>3, <1>4, UpToBound
  <2> QED BY <2>1, <1>2
<1> QED BY <1>1, <1>5 DEF S

\* The places of what is inserted and of what was there.
InsertedAs(t, S, q, e, i) ==
  /\ t \in Seq(S) /\ Len(t) = Len(q) + 1 /\ t[i + 1] = e
  /\ \A a \in 1 .. i : t[a] = q[a]
  /\ \A a \in i + 1 .. Len(q) : t[a + 1] = q[a]

\* InsertAt inserts.
LEMMA InsertedPlaces ==
  ASSUME NEW S, NEW q \in Seq(S), NEW e \in S, NEW i \in 0 .. Len(q)
  PROVE  InsertedAs(InsertAt(q, i + 1, e), S, q, e, i)
<1> DEFINE t == InsertAt(q, i + 1, e)
           l == SubSeq(q, 1, i) \o <<e>>
           r == SubSeq(q, i + 1, Len(q))
<1>1. t \in Seq(S) /\ Len(t) = Len(q) + 1
  BY Inserted
<1>2. t = l \o r
  <2>1. (i + 1) - 1 = i /\ Len(q) \in Nat
    OBVIOUS
  <2> QED BY <2>1, Zenon DEF InsertAt
<1>3. SubSeq(q, 1, i) \in Seq(S) /\ Len(SubSeq(q, 1, i)) = i /\ \A a \in 1 .. i : SubSeq(q, 1, i)[a] = q[a]
  OBVIOUS
<1>4. /\ l \in Seq(S) /\ Len(l) = i + 1 /\ l[i + 1] = e /\ \A a \in 1 .. i : l[a] = q[a]
  BY <1>3
<1>5. r \in Seq(S) /\ Len(r) = Len(q) - i /\ \A a \in 1 .. Len(q) - i : r[a] = q[i + a]
  OBVIOUS
<1> HIDE DEF t, l, r
<1>6. /\ \A a \in 1 .. i + 1 : (l \o r)[a] = l[a]
      /\ \A a \in 1 .. Len(q) - i : (l \o r)[i + 1 + a] = r[a]
  BY <1>4, <1>5
<1>7. \A a \in 1 .. i : t[a] = q[a]
  BY <1>2, <1>4, <1>6
<1>8. t[i + 1] = e
  BY <1>2, <1>4, <1>6
<1>9. ASSUME NEW a \in i + 1 .. Len(q) PROVE t[a + 1] = q[a]
  <2>1. PICK d \in 1 .. Len(q) - i : a = i + d /\ a + 1 = i + 1 + d
    <3>1. a - i \in 1 .. Len(q) - i /\ a = i + (a - i) /\ a + 1 = i + 1 + (a - i)
      OBVIOUS
    <3> QED BY <3>1
  <2>2. t[i + 1 + d] = r[d] /\ r[d] = q[i + d]
    BY <1>2, <1>5, <1>6
  <2> QED BY <2>1, <2>2
<1> QED BY <1>1, <1>7, <1>8, <1>9 DEF t, InsertedAs

-----------------------------------------------------------------------------
(* The log while a row is added. *)

Appending(n) == taken[n].pc \in {"asking", "replying", "recording"}

\* What stands in the log at the tip of a turn's append or before it.
UpTo(n, m) == \E a, b \in DOMAIN log : a <= b /\ AsMessage(log[a]) = m /\ log[b] = taken[n].tip
Answered(n) == \E q, r, b \in DOMAIN log :
  /\ q < r /\ r <= b /\ log[b] = taken[n].tip
  /\ AsMessage(log[q]) = Says("question", n) /\ AsMessage(log[r]) = Says("reply", n)

\* A row comes behind the tip of the append, and the others stay in their order.
Inserts(n, e, i) ==
  /\ Len(log) \in Nat /\ i \in 0 .. Len(log)
  /\ DOMAIN log = 1 .. Len(log) /\ DOMAIN log' = 1 .. Len(log) + 1
  /\ log'[i + 1] = e
  /\ \A a \in 1 .. i : log'[a] = log[a]
  /\ \A a \in i + 1 .. Len(log) : log'[a + 1] = log[a] /\ log[a] # taken[n].tip

\* A row that is placed is inserted behind the tip of its append.
LEMMA PlaceInserts ==
  ASSUME NEW U, log \in Seq(EventOf(U)), NEW n \in Turns, NEW k \in {"question", "reply", "run"},
         taken[n].user \in U, taken[n].process \in Process, Place(k, n)
  PROVE  /\ log' \in Seq(EventOf(U))
         /\ \E i \in 0 .. Len(log) :
              Inserts(n, Event(k, n, taken[n].user, taken[n].process), i)
<1> DEFINE e == Event(k, n, taken[n].user, taken[n].process)
<1>1. PICK i \in 0 .. Len(log) :
        /\ \A j \in i + 1 .. Len(log) : log[j] # taken[n].tip
        /\ log' = InsertAt(log, i + 1, e)
  BY DEF Place
<1>2. e \in EventOf(U)
  BY DEF Event, EventOf
<1> HIDE DEF e
<1>0. InsertedAs(log', EventOf(U), log, e, i)
  BY <1>1, <1>2, InsertedPlaces, Zenon
<1>3. /\ log' \in Seq(EventOf(U)) /\ Len(log') = Len(log) + 1 /\ log'[i + 1] = e
      /\ \A a \in 1 .. i : log'[a] = log[a]
      /\ \A a \in i + 1 .. Len(log) : log'[a + 1] = log[a]
  BY <1>0 DEF InsertedAs
<1>4. DOMAIN log' = 1 .. Len(log) + 1 /\ DOMAIN log = 1 .. Len(log) /\ Len(log) \in Nat
  BY <1>3
<1> QED BY <1>1, <1>3, <1>4 DEF Inserts, e

\* The place an old row has now.
Now(i, a) == IF a <= i THEN a ELSE a + 1

\* The rows that were there move up or stay, and keep their order.
LEMMA RowsMove ==
  ASSUME NEW n, NEW e, NEW i, Inserts(n, e, i)
  PROVE  /\ \A a \in DOMAIN log : Now(i, a) \in DOMAIN log' /\ log'[Now(i, a)] = log[a] /\ Now(i, a) # i + 1
         /\ \A a, b \in DOMAIN log : a < b => Now(i, a) < Now(i, b)
         /\ \A a, b \in DOMAIN log : a <= b => Now(i, a) <= Now(i, b)
         /\ \A c \in DOMAIN log' : c = i + 1 \/ \E a \in DOMAIN log : Now(i, a) = c
         /\ i + 1 \in DOMAIN log' /\ log'[i + 1] = e
         /\ \A b \in DOMAIN log : log[b] = taken[n].tip => \A a \in DOMAIN log : a <= b => Now(i, a) < i + 1
<1>1. /\ i \in 0 .. Len(log) /\ Len(log) \in Nat /\ DOMAIN log = 1 .. Len(log) /\ DOMAIN log' = 1 .. Len(log) + 1
  BY DEF Inserts
<1>2. ASSUME NEW a \in DOMAIN log
      PROVE  Now(i, a) \in DOMAIN log' /\ log'[Now(i, a)] = log[a] /\ Now(i, a) # i + 1
  <2>1. CASE a <= i
    <3>1. a \in 1 .. i /\ Now(i, a) = a
      BY <1>1, <2>1 DEF Now
    <3> QED BY <1>1, <3>1 DEF Inserts
  <2>2. CASE ~ (a <= i)
    <3>1. a \in i + 1 .. Len(log) /\ Now(i, a) = a + 1
      BY <1>1, <2>2 DEF Now
    <3> QED BY <1>1, <3>1 DEF Inserts
  <2> QED BY <2>1, <2>2
<1>3. ASSUME NEW a \in DOMAIN log, NEW b \in DOMAIN log
      PROVE  (a < b => Now(i, a) < Now(i, b)) /\ (a <= b => Now(i, a) <= Now(i, b))
  BY <1>1 DEF Now
<1>4. ASSUME NEW c \in DOMAIN log', c # i + 1 PROVE \E a \in DOMAIN log : Now(i, a) = c
  <2>1. CASE c <= i
    BY <1>1, <2>1 DEF Now
  <2>2. CASE c > i + 1
    <3>1. c - 1 \in DOMAIN log /\ Now(i, c - 1) = c
      BY <1>1, <2>2 DEF Now
    <3> QED BY <3>1
  <2> QED BY <1>1, <1>4, <2>1, <2>2
<1>5. ASSUME NEW b \in DOMAIN log, log[b] = taken[n].tip, NEW a \in DOMAIN log, a <= b
      PROVE  Now(i, a) < i + 1
  <2>1. ~ (b \in i + 1 .. Len(log))
    BY <1>5 DEF Inserts
  <2>2. a <= i
    BY <1>1, <1>5, <2>1
  <2> QED BY <1>1, <2>2 DEF Now
<1>6. i + 1 \in DOMAIN log' /\ log'[i + 1] = e
  BY <1>1 DEF Inserts
<1> QED BY <1>2, <1>3, <1>4, <1>5, <1>6

\* What is in the log is said once more, and everything else stays in its order.
LEMMA LogGrows ==
  ASSUME NEW n, NEW e, NEW i, Inserts(n, e, i)
  PROVE  /\ \A m : InLog(m)' <=> InLog(m) \/ m = AsMessage(e)
         /\ \A m, o : InOrder(m, o) => InOrder(m, o)'
         /\ \A m : UpTo(n, m) => InOrder(m, AsMessage(e))'
         /\ LoggedOnce /\ ~ InLog(AsMessage(e)) => LoggedOnce'
<1> DEFINE at(a) == Now(i, a)
<1>1. /\ \A a \in DOMAIN log : at(a) \in DOMAIN log' /\ log'[at(a)] = log[a] /\ at(a) # i + 1
      /\ \A a, b \in DOMAIN log : a < b => at(a) < at(b)
      /\ \A c \in DOMAIN log' : c = i + 1 \/ \E a \in DOMAIN log : at(a) = c
      /\ i + 1 \in DOMAIN log' /\ log'[i + 1] = e
      /\ \A b \in DOMAIN log : log[b] = taken[n].tip => \A a \in DOMAIN log : a <= b => at(a) < i + 1
  BY RowsMove
<1> HIDE DEF at
<1>2. ASSUME NEW m PROVE InLog(m)' <=> InLog(m) \/ m = AsMessage(e)
  BY <1>1 DEF InLog
<1>3. ASSUME NEW m, NEW o, InOrder(m, o) PROVE InOrder(m, o)'
  <2>1. PICK a, b \in DOMAIN log : a < b /\ AsMessage(log[a]) = m /\ AsMessage(log[b]) = o
    BY <1>3 DEF InOrder
  <2>2. at(a) \in DOMAIN log' /\ at(b) \in DOMAIN log' /\ at(a) < at(b)
        /\ AsMessage(log'[at(a)]) = m /\ AsMessage(log'[at(b)]) = o
    BY <1>1, <2>1
  <2> QED BY <2>2 DEF InOrder
<1>4. ASSUME NEW m, UpTo(n, m) PROVE InOrder(m, AsMessage(e))'
  <2>1. PICK a, b \in DOMAIN log : a <= b /\ AsMessage(log[a]) = m /\ log[b] = taken[n].tip
    BY <1>4 DEF UpTo
  <2>2. at(a) \in DOMAIN log' /\ at(a) < i + 1 /\ AsMessage(log'[at(a)]) = m
    BY <1>1, <2>1
  <2> QED BY <1>1, <2>2 DEF InOrder
<1>5. ASSUME LoggedOnce, ~ InLog(AsMessage(e)) PROVE LoggedOnce'
  <2> SUFFICES ASSUME NEW c \in DOMAIN log', NEW d \in DOMAIN log', c # d,
                      AsMessage(log'[c]) = AsMessage(log'[d])
               PROVE  FALSE
    BY DEF LoggedOnce
  <2>1. CASE c = i + 1
    <3>1. PICK b \in DOMAIN log : at(b) = d
      BY <1>1, <2>1
    <3> QED BY <1>1, <1>5, <2>1, <3>1 DEF InLog
  <2>2. CASE d = i + 1
    <3>1. PICK a \in DOMAIN log : at(a) = c
      BY <1>1, <2>2
    <3> QED BY <1>1, <1>5, <2>2, <3>1 DEF InLog
  <2>3. CASE c # i + 1 /\ d # i + 1
    <3>1. PICK a \in DOMAIN log : at(a) = c
      BY <1>1, <2>3
    <3>2. PICK b \in DOMAIN log : at(b) = d
      BY <1>1, <2>3
    <3> QED BY <1>1, <1>5, <3>1, <3>2 DEF LoggedOnce
  <2> QED BY <2>1, <2>2, <2>3
<1> QED BY <1>2, <1>3, <1>4, <1>5

\* Another turn's append is not disturbed.
LEMMA TipsStay ==
  ASSUME NEW n, NEW e, NEW i, Inserts(n, e, i), NEW t, taken'[t].tip = taken[t].tip
  PROVE  /\ \A m : UpTo(t, m) => UpTo(t, m)'
         /\ Answered(t) => Answered(t)'
<1> DEFINE at(a) == Now(i, a)
<1>1. /\ \A a \in DOMAIN log : at(a) \in DOMAIN log' /\ log'[at(a)] = log[a]
      /\ \A a, b \in DOMAIN log : (a < b => at(a) < at(b)) /\ (a <= b => at(a) <= at(b))
  BY RowsMove
<1> HIDE DEF at
<1>2. ASSUME NEW m, UpTo(t, m) PROVE UpTo(t, m)'
  <2>1. PICK a, b \in DOMAIN log : a <= b /\ AsMessage(log[a]) = m /\ log[b] = taken[t].tip
    BY <1>2 DEF UpTo
  <2>2. at(a) \in DOMAIN log' /\ at(b) \in DOMAIN log' /\ at(a) <= at(b)
        /\ AsMessage(log'[at(a)]) = m /\ log'[at(b)] = taken'[t].tip
    BY <1>1, <2>1
  <2> QED BY <2>2 DEF UpTo
<1>3. ASSUME Answered(t) PROVE Answered(t)'
  <2>1. PICK q, r, b \in DOMAIN log :
          /\ q < r /\ r <= b /\ log[b] = taken[t].tip
          /\ AsMessage(log[q]) = Says("question", t) /\ AsMessage(log[r]) = Says("reply", t)
    BY <1>3 DEF Answered
  <2>2. at(q) \in DOMAIN log' /\ at(r) \in DOMAIN log' /\ at(b) \in DOMAIN log'
        /\ at(q) < at(r) /\ at(r) <= at(b) /\ log'[at(b)] = taken'[t].tip
        /\ AsMessage(log'[at(q)]) = Says("question", t) /\ AsMessage(log'[at(r)]) = Says("reply", t)
    BY <1>1, <2>1
  <2> QED BY <2>2 DEF Answered
<1> QED BY <1>2, <1>3

\* The message that a turn has put in memory and not yet in the log.
Pends(n, m) == \/ taken[n].pc = "asking" /\ m = Says("question", n)
               \/ taken[n].pc = "replying" /\ m = Says("reply", n)
PendsAt(p, m) == \E n \in Turns : taken[n].process = p /\ Pends(n, m)

(***************************************************************************)
(* How far a turn is, by what of it is in the log: a turn that is about to *)
(* append its reply has its question at its tip or before, and one that is *)
(* about to append its run both of them.  A turn in progress keeps its     *)
(* process loaded, and a process is busy with one append at a time.        *)
(***************************************************************************)
TurnInv(n) ==
  /\ InTurn(n) => /\ taken[n].user \in User /\ taken[n].process \in deployed
                  /\ Loaded(taken[n].process)
  /\ \A t \in Turns : Appending(n) /\ Appending(t) /\ taken[n].process = taken[t].process => n = t
  /\ taken[n].pc \in {"new", "asking"} => ~ InLog(Says("question", n))
  /\ taken[n].pc \in {"new", "asking", "awaiting", "replying"} => ~ InLog(Says("reply", n))
  /\ taken[n].pc = "new" \/ InTurn(n) => ~ InLog(Says("run", n))
  /\ taken[n].pc = "awaiting" => InLog(Says("question", n))
  /\ taken[n].pc = "replying" => UpTo(n, Says("question", n))
  /\ taken[n].pc = "recording" => Answered(n)

LostInv ==
  \A m \in lost : m.turn \in Turns /\ taken[m.turn].pc = "done" /\ ~ InLog(m)

(***************************************************************************)
(* What a process remembers was lost, is being appended or is in the log,  *)
(* and stands there in the order of memory; what a listing has read is in  *)
(* the log.  Of both, what is in the log is not behind the tip of an       *)
(* append of this process, and nothing is remembered after the message of  *)
(* that append.                                                            *)
(***************************************************************************)
Remembers(p) ==
  /\ \A m : Has(memory[p].messages, m) => m \in lost \/ PendsAt(p, m) \/ InLog(m)
  /\ \A m, o : Precedes(memory[p].messages, m, o) /\ InLog(m) /\ InLog(o) => InOrder(m, o)
  /\ \A m : Has(listing[p].messages, m) => InLog(m)
  /\ \A m, o : Precedes(listing[p].messages, m, o) => InOrder(m, o)
  /\ \A n \in Turns : \A m :
       /\ taken[n].process = p /\ taken[n].pc \in {"asking", "replying"} /\ InLog(m)
       /\ Has(memory[p].messages, m) \/ Has(listing[p].messages, m)
       => UpTo(n, m)
  /\ \A n \in Turns : \A m, o : taken[n].process = p /\ Pends(n, m) => ~ Precedes(memory[p].messages, m, o)

\* The only process has what is in the log, or a listing of it has.
Covers(s) == \A m : InLog(m) /\ m.kind # "run" => Has(s, m)

LiveInv(p) ==
  deployed = {p} =>
    /\ Loaded(p) /\ p \notin clobbered =>
         Covers(memory[p].messages) /\ \A n \in Turns : \A m : Pends(n, m) => Has(memory[p].messages, m)
    /\ ~ Loaded(p) /\ listing[p] # NotLoaded => Covers(listing[p].messages)

HistoryInv ==
  /\ log \in Seq(EventOf(User))
  /\ \A p \in Process : memory[p].messages \in Seq(Message) /\ listing[p].messages \in Seq(Message)
  /\ LoggedOnce /\ RunsAreComplete
  /\ \A n \in Turns : TurnInv(n)
  /\ LostInv
  /\ \A p \in deployed : Remembers(p)
  /\ \A p \in Process : LiveInv(p)

-----------------------------------------------------------------------------
\* An empty sequence has nothing; what precedes or is preceded is had.
LEMMA NothingSaid == \A m, o : ~ Has(<< >>, m) /\ ~ Precedes(<< >>, m, o)
BY DEF Has, Precedes

LEMMA BeforeIsHad == \A s, m, o : Precedes(s, m, o) => Has(s, m) /\ Has(s, o)
BY DEF Has, Precedes

\* A message tells its turn and its kind.
LEMMA SaysApart ==
  /\ \A k, n : Says(k, n).turn = n /\ Says(k, n).kind = k
  /\ \A k, l, n, t : Says(k, n) = Says(l, t) => k = l /\ n = t
  /\ \A k, n, u, p : AsMessage(Event(k, n, u, p)) = Says(k, n)
BY DEF Says, AsMessage, Event

\* Nothing is remembered and nothing logged at first.
LEMMA HistoryInitInv == ConversationInit => HistoryInv
<1> SUFFICES ASSUME ConversationInit PROVE HistoryInv
  OBVIOUS
<1>1. /\ log = << >> /\ lost = {} /\ clobbered = {} /\ deployed \in SUBSET Process
      /\ \A p \in Process : memory[p] = NotLoaded /\ listing[p] = NotLoaded
      /\ \A n \in Turns : taken[n] = Idle
  BY DEF ConversationInit
<1>2. \A m : ~ InLog(m)
  BY <1>1 DEF InLog
<1>3. \A n \in Turns : taken[n].pc = "new"
  BY <1>1 DEF Idle
<1>4. \A n \in Turns : TurnInv(n)
  BY <1>2, <1>3 DEF TurnInv, InTurn, Appending
<1>5. \A p \in Process : memory[p].messages = << >> /\ listing[p].messages = << >> /\ ~ Loaded(p)
  BY <1>1 DEF NotLoaded, Loaded
<1>6. \A p \in Process : Remembers(p) /\ LiveInv(p)
  BY <1>1, <1>3, <1>5, NothingSaid DEF Remembers, LiveInv, Pends
<1>7. log \in Seq(EventOf(User)) /\ << >> \in Seq(Message)
  BY <1>1
<1>8. LoggedOnce /\ RunsAreComplete /\ LostInv
  BY <1>1 DEF LoggedOnce, RunsAreComplete, LostInv
<1> QED BY <1>1, <1>4, <1>5, <1>6, <1>7, <1>8 DEF HistoryInv

\* The invariant is the property, and more.
LEMMA HistoryMeets == OwnerInv /\ HistoryInv => MemoryMeetsLog
<1> SUFFICES ASSUME OwnerInv, HistoryInv PROVE MemoryMeetsLog
  OBVIOUS
<1>1. LoggedOnce /\ RunsAreComplete
  BY DEF HistoryInv
<1>2. \A p, m : m \in Pending(p) <=> PendsAt(p, m)
  BY DEF Pending, Here, PendsAt, Pends
<1>3. ASSUME NEW p \in deployed, NEW i \in Kept(p) PROVE InLog(memory[p].messages[i])
  <2>1. PICK m : m = memory[p].messages[i]
    OBVIOUS
  <2>2. Has(memory[p].messages, m) /\ m \notin lost /\ ~ PendsAt(p, m)
    BY <1>2, <2>1 DEF Kept, Has
  <2> QED BY <2>1, <2>2 DEF HistoryInv, Remembers
<1>4. MemoryFollowsLog
  <2> SUFFICES ASSUME NEW p \in deployed, NEW i \in Kept(p), NEW j \in Kept(p), i < j
               PROVE  InOrder(memory[p].messages[i], memory[p].messages[j])
    BY <1>3 DEF MemoryFollowsLog
  <2>1. PICK m, o : m = memory[p].messages[i] /\ o = memory[p].messages[j]
    OBVIOUS
  <2>2. Precedes(memory[p].messages, m, o)
    BY <2>1 DEF Kept, Precedes
  <2>3. InLog(m) /\ InLog(o)
    BY <1>3, <2>1
  <2> QED BY <2>1, <2>2, <2>3 DEF HistoryInv, Remembers
<1>5. ReplayIsLive
  <2> SUFFICES ASSUME NEW p \in deployed, deployed = {p}, Loaded(p), p \notin clobbered,
                      NEW i \in DOMAIN log, IsSaid(log[i])
               PROVE  \E j \in Kept(p) : memory[p].messages[j] = AsMessage(log[i])
    BY DEF ReplayIsLive
  <2>1. PICK m : m = AsMessage(log[i])
    OBVIOUS
  <2>2. InLog(m) /\ m.kind # "run"
    BY <2>1 DEF InLog, IsSaid, AsMessage, Says
  <2>3. PICK j \in DOMAIN memory[p].messages : memory[p].messages[j] = m
    BY <2>2 DEF HistoryInv, LiveInv, Covers, OwnerInv, Has
  <2>4. m \notin lost
    BY <2>2 DEF HistoryInv, LostInv
  <2>5. ~ PendsAt(p, m)
    BY <2>2 DEF PendsAt, Pends, HistoryInv, TurnInv
  <2> QED BY <1>2, <2>1, <2>3, <2>4, <2>5 DEF Kept
<1> QED BY <1>1, <1>4, <1>5 DEF MemoryMeetsLog

\* The log and the tips that stay.
LEMMA LogStays ==
  ASSUME UNCHANGED log
  PROVE  /\ \A m : InLog(m)' <=> InLog(m)
         /\ \A m, o : InOrder(m, o)' <=> InOrder(m, o)
         /\ LoggedOnce => LoggedOnce'
         /\ RunsAreComplete => RunsAreComplete'
         /\ \A t : taken'[t].tip = taken[t].tip =>
              (\A m : UpTo(t, m) => UpTo(t, m)') /\ (Answered(t) => Answered(t)')
<1>1. (\A m : InLog(m)' <=> InLog(m)) /\ (\A m, o : InOrder(m, o)' <=> InOrder(m, o))
  BY DEF InLog, InOrder
<1>2. (LoggedOnce => LoggedOnce') /\ (RunsAreComplete => RunsAreComplete')
  BY DEF LoggedOnce, RunsAreComplete
<1>3. ASSUME NEW t, taken'[t].tip = taken[t].tip
      PROVE  (\A m : UpTo(t, m) => UpTo(t, m)') /\ (Answered(t) => Answered(t)')
  BY <1>3 DEF UpTo, Answered
<1> QED BY <1>1, <1>2, <1>3

\* An append that begins has all of the log at its tip or before.
LEMMA TipIsLast ==
  ASSUME NEW S, log' \in Seq(S), NEW n, taken'[n].tip = Tip(log)'
  PROVE  /\ \A m : InLog(m)' => UpTo(n, m)'
         /\ InOrder(Says("question", n), Says("reply", n))' => Answered(n)'
<1> DEFINE b == Len(log')
<1>1. /\ DOMAIN log' = 1 .. b /\ b \in Nat
      /\ b # 0 => b \in DOMAIN log' /\ log'[b] = taken'[n].tip
  BY DEF Tip, Last
<1> HIDE DEF b
<1>2. ASSUME NEW m, InLog(m)' PROVE UpTo(n, m)'
  <2>1. PICK a \in DOMAIN log' : AsMessage(log'[a]) = m
    BY <1>2 DEF InLog
  <2>2. a <= b /\ b \in DOMAIN log' /\ log'[b] = taken'[n].tip
    BY <1>1, <2>1
  <2> QED BY <2>1, <2>2 DEF UpTo
<1>3. ASSUME InOrder(Says("question", n), Says("reply", n))' PROVE Answered(n)'
  <2>1. PICK q, r \in DOMAIN log' : /\ q < r /\ AsMessage(log'[q]) = Says("question", n)
                                    /\ AsMessage(log'[r]) = Says("reply", n)
    BY <1>3 DEF InOrder
  <2>2. r <= b /\ b \in DOMAIN log' /\ log'[b] = taken'[n].tip
    BY <1>1, <2>1
  <2> QED BY <2>1, <2>2 DEF Answered
<1> QED BY <1>2, <1>3

\* A run comes behind its messages, and the runs that are there stay behind theirs.
LEMMA RunsStay ==
  ASSUME NEW n, NEW e, NEW i, Inserts(n, e, i), RunsAreComplete,
         e.kind = "run" => e.turn = n /\ Answered(n)
  PROVE  RunsAreComplete'
<1> DEFINE at(a) == Now(i, a)
<1>1. /\ \A a \in DOMAIN log : at(a) \in DOMAIN log' /\ log'[at(a)] = log[a] /\ at(a) # i + 1
      /\ \A a, b \in DOMAIN log : a < b => at(a) < at(b)
      /\ \A a, b \in DOMAIN log : a <= b => at(a) <= at(b)
      /\ \A c \in DOMAIN log' : c = i + 1 \/ \E a \in DOMAIN log : at(a) = c
      /\ i + 1 \in DOMAIN log' /\ log'[i + 1] = e
      /\ \A b \in DOMAIN log : log[b] = taken[n].tip => \A a \in DOMAIN log : a <= b => at(a) < i + 1
  BY RowsMove
<1>2. /\ DOMAIN log = 1 .. Len(log) /\ DOMAIN log' = 1 .. Len(log) + 1 /\ Len(log) \in Nat
  BY DEF Inserts
<1> HIDE DEF at
<1>3. ASSUME NEW c \in DOMAIN log', log'[c].kind = "run"
      PROVE  \E q, r \in DOMAIN log' : /\ q < r /\ r < c
                                       /\ AsMessage(log'[q]) = Says("question", log'[c].turn)
                                       /\ AsMessage(log'[r]) = Says("reply", log'[c].turn)
  <2>1. CASE c = i + 1
    <3>1. e.turn = n /\ Answered(n)
      BY <1>1, <1>3, <2>1
    <3>2. PICK q, r, b \in DOMAIN log :
            /\ q < r /\ r <= b /\ log[b] = taken[n].tip
            /\ AsMessage(log[q]) = Says("question", n) /\ AsMessage(log[r]) = Says("reply", n)
      BY <3>1 DEF Answered
    <3>3. /\ at(q) \in DOMAIN log' /\ at(r) \in DOMAIN log' /\ at(q) < at(r) /\ at(r) < c
          /\ AsMessage(log'[at(q)]) = Says("question", n) /\ AsMessage(log'[at(r)]) = Says("reply", n)
      BY <1>1, <2>1, <3>2
    <3>4. log'[c].turn = n
      BY <1>1, <2>1, <3>1
    <3> QED BY <3>3, <3>4
  <2>2. CASE c # i + 1
    <3>1. PICK a \in DOMAIN log : at(a) = c
      BY <1>1, <2>2
    <3>2. log[a] = log'[c] /\ log[a].kind = "run"
      BY <1>1, <1>3, <3>1
    <3>3. PICK q, r \in 1 .. a - 1 :
            /\ q < r /\ AsMessage(log[q]) = Says("question", log[a].turn)
            /\ AsMessage(log[r]) = Says("reply", log[a].turn)
      BY <3>2 DEF RunsAreComplete
    <3>4. q \in DOMAIN log /\ r \in DOMAIN log /\ r < a
      BY <1>2, <3>3
    <3>5. /\ at(q) \in DOMAIN log' /\ at(r) \in DOMAIN log' /\ at(q) < at(r) /\ at(r) < c
          /\ AsMessage(log'[at(q)]) = Says("question", log'[c].turn)
          /\ AsMessage(log'[at(r)]) = Says("reply", log'[c].turn)
      BY <1>1, <3>1, <3>2, <3>3, <3>4
    <3> QED BY <3>5
  <2> QED BY <2>1, <2>2
<1>4. ASSUME NEW c \in DOMAIN log', log'[c].kind = "run"
      PROVE  \E q, r \in 1 .. c - 1 : /\ q < r
                                      /\ AsMessage(log'[q]) = Says("question", log'[c].turn)
                                      /\ AsMessage(log'[r]) = Says("reply", log'[c].turn)
  <2>1. PICK q, r \in DOMAIN log' : /\ q < r /\ r < c
                                    /\ AsMessage(log'[q]) = Says("question", log'[c].turn)
                                    /\ AsMessage(log'[r]) = Says("reply", log'[c].turn)
    BY <1>3, <1>4
  <2>2. q \in 1 .. c - 1 /\ r \in 1 .. c - 1
    BY <1>2, <2>1
  <2> QED BY <2>1, <2>2
<1> QED BY <1>4 DEF RunsAreComplete

-----------------------------------------------------------------------------
(* A turn appends a row. *)

\* What a turn appends, and how far it is then.
Appends(n, k) ==
  \/ k = "question" /\ taken[n].pc = "asking" /\ taken'[n].pc = "awaiting"
  \/ k = "reply" /\ taken[n].pc = "replying" /\ taken'[n].pc = "recording" /\ taken'[n].tip = Tip(log)'
  \/ k = "run" /\ taken[n].pc = "recording" /\ taken'[n].pc = "done"

\* The pending message comes into the log, behind what its turn found there.
LEMMA HistoryOfRow ==
  ASSUME OwnerInv, HistoryInv, NEW n \in Turns, NEW k \in {"question", "reply", "run"},
         Place(k, n), Continues(n), Appends(n, k),
         UNCHANGED <<deployed, memory, listing, lost, clobbered>>
  PROVE  HistoryInv'
<1> DEFINE e == Event(k, n, taken[n].user, taken[n].process)
           x == Says(k, n)
           q == taken[n].process
<1>1. /\ InTurn(n) /\ Appending(n) /\ TurnInv(n) /\ taken[n].user \in User
      /\ q \in deployed /\ q \in Process /\ Loaded(q)
  BY DEF Appends, InTurn, Appending, HistoryInv, TurnInv, OwnerInv
<1>2. log' \in Seq(EventOf(User)) /\ \E i \in 0 .. Len(log) : Inserts(n, e, i)
  BY <1>1, PlaceInserts DEF HistoryInv
<1>3. PICK i \in 0 .. Len(log) : Inserts(n, e, i)
  BY <1>2
<1>4. AsMessage(e) = x /\ e.kind = k /\ e.turn = n
  BY SaysApart DEF Event
<1> HIDE DEF e, x, q
<1>5. ~ InLog(x)
  BY <1>1 DEF Appends, TurnInv, InTurn, x
<1>6. /\ \A m : InLog(m)' <=> InLog(m) \/ m = x
      /\ \A m, o : InOrder(m, o) => InOrder(m, o)'
      /\ \A m : UpTo(n, m) => InOrder(m, x)'
      /\ LoggedOnce'
  BY <1>3, <1>4, <1>5, LogGrows DEF HistoryInv
<1>7. \A t \in Turns \ {n} : /\ taken'[t] = taken[t] /\ (\A m : UpTo(t, m) => UpTo(t, m)')
                             /\ (Answered(t) => Answered(t)')
  BY <1>3, TipsStay DEF Continues
<1>8. RunsAreComplete'
  BY <1>1, <1>3, <1>4, RunsStay DEF HistoryInv, Appends, TurnInv
<1>9. /\ \A t \in Turns : taken'[t].process = taken[t].process /\ taken'[t].user = taken[t].user
      /\ \A t \in Turns : (InTurn(t)' => InTurn(t)) /\ (Appending(t)' => Appending(t))
      /\ \A t \in Turns : \A m : (Pends(t, m)' => Pends(t, m)) /\ (Pends(t, m) => t = n \/ Pends(t, m)')
      /\ \A m : Pends(n, m) => m = x
      /\ k # "run" => Pends(n, x)
      /\ \A p : Loaded(p)' <=> Loaded(p)
  BY <1>1, <1>7 DEF Continues, Appends, InTurn, Appending, Pends, x, Loaded
<1>10. ASSUME NEW t \in Turns PROVE TurnInv(t)'
  <2>1. TurnInv(t)
    BY DEF HistoryInv
  <2>2. CASE t # n
    <3>1. \A l : Says(l, t) # x
      BY <2>2, SaysApart DEF x
    <3>2. taken'[t] = taken[t]
      BY <1>7, <2>2
    <3> QED BY <1>6, <1>7, <1>9, <2>1, <2>2, <3>1, <3>2 DEF TurnInv, InTurn
  <2>3. CASE t = n
    <3>1. CASE k = "question"
      <4>1. taken'[n].pc = "awaiting" /\ taken[n].pc = "asking"
        BY <3>1 DEF Appends
      <4>2. Says("reply", n) # x /\ Says("run", n) # x /\ Says("question", n) = x
        BY <3>1, SaysApart DEF x
      <4> QED BY <1>6, <1>9, <2>1, <2>3, <4>1, <4>2 DEF TurnInv, InTurn, Appending
    <3>2. CASE k = "reply"
      <4>1. taken'[n].pc = "recording" /\ taken[n].pc = "replying" /\ taken'[n].tip = Tip(log)'
        BY <3>2 DEF Appends
      <4>2. Says("run", n) # x /\ Says("reply", n) = x
        BY <3>2, SaysApart DEF x
      <4>3. InOrder(Says("question", n), Says("reply", n))'
        BY <1>6, <2>1, <2>3, <4>1, <4>2 DEF TurnInv
      <4>4. Answered(n)'
        BY <1>2, <4>1, <4>3, TipIsLast
      <4> QED BY <1>6, <1>9, <2>1, <2>3, <4>1, <4>2, <4>4 DEF TurnInv, InTurn, Appending
    <3>3. CASE k = "run"
      <4>1. taken'[n].pc = "done"
        BY <3>3 DEF Appends
      <4> QED BY <2>3, <4>1 DEF TurnInv, InTurn, Appending
    <3> QED BY <3>1, <3>2, <3>3
  <2> QED BY <2>2, <2>3
<1>11. LostInv'
  <2> SUFFICES ASSUME NEW m \in lost
               PROVE  m.turn \in Turns /\ taken'[m.turn].pc = "done" /\ ~ InLog(m)'
    BY DEF LostInv
  <2>1. m.turn \in Turns /\ taken[m.turn].pc = "done" /\ ~ InLog(m)
    BY DEF HistoryInv, LostInv
  <2>2. m.turn # n
    BY <1>1, <2>1 DEF InTurn
  <2>3. m # x
    BY <2>2, SaysApart DEF x
  <2> QED BY <1>6, <1>7, <2>1, <2>2, <2>3
<1>12. ASSUME NEW p \in deployed PROVE Remembers(p)'
  <2>1. Remembers(p) /\ memory'[p] = memory[p] /\ listing'[p] = listing[p] /\ lost' = lost
    BY DEF HistoryInv
  <2>2. ASSUME Has(memory[p].messages, x) PROVE p = q /\ Pends(n, x)
    <3>1. x \notin lost
      BY <1>1, SaysApart DEF HistoryInv, LostInv, InTurn, x
    <3>2. PICK t \in Turns : taken[t].process = p /\ Pends(t, x)
      BY <1>5, <2>1, <2>2, <3>1 DEF Remembers, PendsAt
    <3>3. t = n
      BY <3>2, SaysApart DEF Pends, x
    <3> QED BY <3>2, <3>3 DEF q
  <2>3. ~ Has(listing[p].messages, x)
    BY <1>5, <2>1 DEF Remembers
  <2>4. ASSUME NEW m, Has(memory[p].messages, m) PROVE m \in lost \/ PendsAt(p, m)' \/ InLog(m)'
    <3>1. CASE PendsAt(p, m)
      <4>1. PICK t \in Turns : taken[t].process = p /\ Pends(t, m)
        BY <3>1 DEF PendsAt
      <4> QED BY <1>6, <1>9, <4>1 DEF PendsAt
    <3> QED BY <1>6, <2>1, <2>4, <3>1 DEF Remembers
  <2>5. ASSUME NEW m, NEW o, Precedes(memory[p].messages, m, o), InLog(m)', InLog(o)' PROVE InOrder(m, o)'
    <3>1. Has(memory[p].messages, m) /\ Has(memory[p].messages, o)
      BY <2>5, BeforeIsHad
    <3>2. CASE m # x /\ o # x
      BY <1>6, <2>1, <2>5, <3>2 DEF Remembers
    <3>3. m # x
      <4> SUFFICES ASSUME m = x PROVE FALSE
        OBVIOUS
      <4>1. taken[n].process = p /\ Pends(n, m)
        BY <2>2, <3>1 DEF q
      <4> QED BY <2>1, <2>5, <4>1 DEF Remembers
    <3>4. CASE o = x
      <4>1. taken[n].process = p /\ Pends(n, x)
        BY <2>2, <3>1, <3>4 DEF q
      <4>2. taken[n].pc \in {"asking", "replying"} /\ InLog(m)
        BY <1>6, <2>5, <3>3, <4>1 DEF Pends
      <4>3. UpTo(n, m)
        BY <2>1, <3>1, <4>1, <4>2 DEF Remembers
      <4> QED BY <1>6, <3>4, <4>3
    <3> QED BY <3>2, <3>3, <3>4
  <2>6. ASSUME NEW t \in Turns, NEW m,
               taken'[t].process = p, taken'[t].pc \in {"asking", "replying"}, InLog(m)',
               Has(memory[p].messages, m) \/ Has(listing[p].messages, m)
        PROVE  UpTo(t, m)'
    <3>1. t # n
      BY <2>6 DEF Appends
    <3>2. taken[t].process = p /\ taken[t].pc \in {"asking", "replying"} /\ Appending(t)
      BY <1>7, <2>6, <3>1 DEF Appending
    <3>3. m # x
      <4> SUFFICES ASSUME m = x PROVE FALSE
        OBVIOUS
      <4>1. taken[n].process = p
        BY <2>2, <2>3, <2>6 DEF q
      <4> QED BY <1>1, <3>1, <3>2, <4>1 DEF TurnInv
    <3>4. UpTo(t, m)
      BY <1>6, <2>1, <2>6, <3>2, <3>3 DEF Remembers
    <3> QED BY <1>7, <3>1, <3>4
  <2>7. ASSUME NEW t \in Turns, NEW m, NEW o, taken'[t].process = p, Pends(t, m)'
        PROVE  ~ Precedes(memory[p].messages, m, o)
    BY <1>9, <2>1, <2>7 DEF Remembers
  <2>8. /\ \A m : Has(listing[p].messages, m) => InLog(m)'
        /\ \A m, o : Precedes(listing[p].messages, m, o) => InOrder(m, o)'
    BY <1>6, <2>1 DEF Remembers
  <2> QED BY <2>1, <2>4, <2>5, <2>6, <2>7, <2>8 DEF Remembers
<1>13. ASSUME NEW p \in Process, deployed = {p} PROVE LiveInv(p)'
  <2>1. p = q /\ Loaded(p) /\ LiveInv(p)
    BY <1>1, <1>13 DEF HistoryInv
  <2>2. ASSUME p \notin clobbered PROVE Covers(memory[p].messages)'
    <3> SUFFICES ASSUME NEW m, InLog(m)', m.kind # "run" PROVE Has(memory[p].messages, m)
      BY DEF Covers
    <3>1. CASE InLog(m)
      BY <1>13, <2>1, <2>2, <3>1 DEF LiveInv, Covers
    <3>2. CASE m = x
      <4>1. Pends(n, x)
        BY <1>9, <3>2, SaysApart DEF x
      <4> QED BY <1>13, <2>1, <2>2, <3>2, <4>1 DEF LiveInv
    <3> QED BY <1>6, <3>1, <3>2
  <2>3. ASSUME p \notin clobbered, NEW t \in Turns, NEW m, Pends(t, m)' PROVE Has(memory[p].messages, m)
    BY <1>9, <1>13, <2>1, <2>3 DEF LiveInv
  <2> QED BY <1>9, <2>1, <2>2, <2>3 DEF LiveInv
<1> QED BY <1>2, <1>6, <1>8, <1>10, <1>11, <1>12, <1>13 DEF HistoryInv, LiveInv

\* A turn ends and appends nothing more; what it was appending is lost.
LEMMA HistoryOfEnd ==
  ASSUME OwnerInv, HistoryInv, NEW n \in Turns, InTurn(n), Continues(n), taken'[n].pc = "done",
         lost \subseteq lost', \A m : Pends(n, m) => m \in lost', \A m \in lost' \ lost : Pends(n, m),
         UNCHANGED <<deployed, log, memory, listing, clobbered>>
  PROVE  HistoryInv'
<1>1. /\ \A m : InLog(m)' <=> InLog(m)
      /\ \A m, o : InOrder(m, o)' <=> InOrder(m, o)
      /\ LoggedOnce' /\ RunsAreComplete'
  BY LogStays DEF HistoryInv
<1>2. \A t \in Turns \ {n} : taken'[t] = taken[t]
  BY DEF Continues
<1>3. \A t \in Turns \ {n} : (\A m : UpTo(t, m) => UpTo(t, m)') /\ (Answered(t) => Answered(t)')
  BY <1>2, LogStays
<1>4. /\ \A t \in Turns : taken'[t].process = taken[t].process /\ taken'[t].user = taken[t].user
      /\ ~ InTurn(n)' /\ ~ Appending(n)' /\ \A m : ~ Pends(n, m)'
      /\ \A p : Loaded(p)' <=> Loaded(p)
  BY DEF Continues, InTurn, Appending, Pends, Loaded
<1>5. \A t \in Turns \ {n} : /\ (InTurn(t)' <=> InTurn(t)) /\ (Appending(t)' <=> Appending(t))
                             /\ \A m : Pends(t, m)' <=> Pends(t, m)
  BY <1>2 DEF InTurn, Appending, Pends
<1>6. ASSUME NEW t \in Turns PROVE TurnInv(t)'
  <2>1. CASE t = n
    BY <1>4, <2>1 DEF TurnInv, InTurn
  <2>2. CASE t # n
    <3>1. TurnInv(t) /\ taken'[t] = taken[t]
      BY <1>2, <2>2 DEF HistoryInv
    <3>2. \A u \in Turns : Appending(u)' => Appending(u) /\ taken'[u].process = taken[u].process
      BY <1>4, <1>5
    <3> QED BY <1>1, <1>3, <1>4, <1>5, <2>2, <3>1, <3>2 DEF TurnInv
  <2> QED BY <2>1, <2>2
<1>7. LostInv'
  <2> SUFFICES ASSUME NEW m \in lost'
               PROVE  m.turn \in Turns /\ taken'[m.turn].pc = "done" /\ ~ InLog(m)'
    BY DEF LostInv
  <2>1. CASE m \in lost
    BY <1>1, <1>2, <2>1 DEF HistoryInv, LostInv
  <2>2. CASE m \notin lost
    <3>1. Pends(n, m)
      BY <2>2
    <3>2. m.turn = n
      BY <3>1, SaysApart DEF Pends
    <3>3. ~ InLog(m)
      BY <3>1 DEF Pends, HistoryInv, TurnInv
    <3> QED BY <1>1, <3>2, <3>3
  <2> QED BY <2>1, <2>2
<1>8. ASSUME NEW p \in deployed PROVE Remembers(p)'
  <2>1. Remembers(p) /\ memory'[p] = memory[p] /\ listing'[p] = listing[p]
    BY DEF HistoryInv
  <2>2. ASSUME NEW m, Has(memory[p].messages, m) PROVE m \in lost' \/ PendsAt(p, m)' \/ InLog(m)'
    <3>1. CASE PendsAt(p, m)
      <4>1. PICK t \in Turns : taken[t].process = p /\ Pends(t, m)
        BY <3>1 DEF PendsAt
      <4>2. CASE t = n
        BY <4>1, <4>2
      <4>3. CASE t # n
        BY <1>4, <1>5, <4>1, <4>3 DEF PendsAt
      <4> QED BY <4>2, <4>3
    <3> QED BY <1>1, <2>1, <2>2, <3>1 DEF Remembers
  <2>3. ASSUME NEW t \in Turns, NEW m,
               taken'[t].process = p, taken'[t].pc \in {"asking", "replying"}, InLog(m)',
               Has(memory[p].messages, m) \/ Has(listing[p].messages, m)
        PROVE  UpTo(t, m)'
    <3>1. t # n
      BY <2>3
    <3> QED BY <1>1, <1>2, <1>3, <2>1, <2>3, <3>1 DEF Remembers
  <2>4. ASSUME NEW t \in Turns, NEW m, NEW o, taken'[t].process = p, Pends(t, m)'
        PROVE  ~ Precedes(memory[p].messages, m, o)
    BY <1>4, <1>5, <2>1, <2>4 DEF Remembers
  <2>5. /\ \A m, o : Precedes(memory[p].messages, m, o) /\ InLog(m)' /\ InLog(o)' => InOrder(m, o)'
        /\ \A m : Has(listing[p].messages, m) => InLog(m)'
        /\ \A m, o : Precedes(listing[p].messages, m, o) => InOrder(m, o)'
    BY <1>1, <2>1 DEF Remembers
  <2> QED BY <2>1, <2>2, <2>3, <2>4, <2>5 DEF Remembers
<1>9. ASSUME NEW p \in Process, deployed = {p} PROVE LiveInv(p)'
  <2>1. LiveInv(p)
    BY DEF HistoryInv
  <2>2. \A t \in Turns : \A m : Pends(t, m)' => Pends(t, m)
    BY <1>4, <1>5
  <2>3. \A s : Covers(s) => Covers(s)'
    BY <1>1 DEF Covers
  <2> QED BY <1>4, <1>9, <2>1, <2>2, <2>3 DEF LiveInv
<1>10. log' \in Seq(EventOf(User))
  BY DEF HistoryInv
<1> QED BY <1>1, <1>6, <1>7, <1>8, <1>9, <1>10 DEF HistoryInv, LiveInv

-----------------------------------------------------------------------------
(* A turn says something. *)

\* The message that a turn puts in memory.
Speaks(n, p, k, s) ==
  /\ \A t \in Turns : taken[t].process = p => ~ Appending(t)
  /\ \/ k = "question" /\ taken[n].pc = "new" /\ taken'[n].pc = "asking"
     \/ k = "reply" /\ taken[n].pc = "awaiting" /\ taken'[n].pc = "replying" /\ taken[n].process = p
  /\ taken'[n].process = p /\ taken'[n].user \in User /\ taken'[n].tip = Tip(log)
  /\ \A t \in Turns \ {n} : taken'[t] = taken[t]
  /\ memory'[p].messages = Append(s, Says(k, n)) /\ Loaded(p)'
  /\ \A o \in Process \ {p} : memory'[o] = memory[o]

\* What it puts it after: what the process remembers, or what the log says.
Follows(p, s) ==
  /\ s \in Seq(Message)
  /\ \A m : Has(s, m) => m \in lost \/ PendsAt(p, m) \/ InLog(m)
  /\ \A m, o : Precedes(s, m, o) /\ InLog(m) /\ InLog(o) => InOrder(m, o)
  /\ deployed = {p} /\ p \notin clobbered => Covers(s)

\* A message comes last in memory, and the tip of its append is all of the log.
LEMMA HistoryOfSpeech ==
  ASSUME OwnerInv, HistoryInv, NEW n \in Turns, NEW p \in deployed, NEW k \in {"question", "reply"}, NEW s,
         Speaks(n, p, k, s), Follows(p, s),
         UNCHANGED <<deployed, log, listing, lost, clobbered>>
  PROVE  HistoryInv'
<1> DEFINE x == Says(k, n)
           q == Append(s, x)
<1>0. /\ p \in Process /\ taken'[n].pc \in {"asking", "replying"} /\ taken[n].pc \in {"new", "awaiting"}
      /\ taken'[n].process = p /\ TurnInv(n)
      /\ \A t \in Turns \ {n} : taken'[t] = taken[t]
      /\ \A t \in Turns : taken[t].process = p => ~ Appending(t)
      /\ memory'[p].messages = q /\ Loaded(p)' /\ \A o \in Process \ {p} : memory'[o] = memory[o]
      /\ k = "question" => taken[n].pc = "new" /\ taken'[n].pc = "asking"
      /\ k = "reply" => taken[n].pc = "awaiting" /\ taken'[n].pc = "replying"
  BY DEF Speaks, OwnerInv, HistoryInv
<1>1. /\ \A m : InLog(m)' <=> InLog(m)
      /\ \A m, o : InOrder(m, o)' <=> InOrder(m, o)
      /\ LoggedOnce' /\ RunsAreComplete'
  BY LogStays DEF HistoryInv
<1>2. \A t \in Turns \ {n} : (\A m : UpTo(t, m) => UpTo(t, m)') /\ (Answered(t) => Answered(t)')
  BY <1>0, LogStays
<1>3. \A m : InLog(m)' => UpTo(n, m)'
  <2>1. log' \in Seq(EventOf(User)) /\ taken'[n].tip = Tip(log)'
    BY DEF HistoryInv, Speaks
  <2> QED BY <2>1, TipIsLast
<1>4. ~ InLog(x) /\ x \notin lost
  <2>1. ~ InLog(x)
    BY <1>0 DEF TurnInv
  <2>2. x.turn = n /\ taken[n].pc # "done"
    BY <1>0, SaysApart
  <2> HIDE DEF x
  <2> QED BY <2>1, <2>2 DEF HistoryInv, LostInv
<1>5. /\ \A t \in Turns : ~ (taken[t].process = p /\ \E m : Pends(t, m))
      /\ \A m : ~ Pends(n, m) /\ ~ PendsAt(p, m)
      /\ \A m : Pends(n, m)' <=> m = x
      /\ \A t \in Turns \ {n} : /\ (InTurn(t)' <=> InTurn(t)) /\ (Appending(t)' <=> Appending(t))
                                /\ \A m : Pends(t, m)' <=> Pends(t, m)
  BY <1>0 DEF Appending, Pends, PendsAt, InTurn
<1>6. x \in Message
  BY DEF Says, Message
<1> HIDE DEF x
<1>7. /\ q \in Seq(Message)
      /\ \A m : Has(q, m) <=> Has(s, m) \/ m = x
      /\ \A m, o : Precedes(q, m, o) <=> Precedes(s, m, o) \/ (Has(s, m) /\ o = x)
  BY <1>6, Appended DEF Follows
<1>8. ~ Has(s, x)
  BY <1>4, <1>5 DEF Follows
<1> HIDE DEF q
<1>9. ASSUME NEW t \in Turns PROVE TurnInv(t)'
  <2>0. \A o \in Process : Loaded(o) => Loaded(o)'
    BY <1>0 DEF Loaded
  <2>1. CASE t # n
    <3>1. TurnInv(t) /\ taken'[t] = taken[t]
      BY <1>0, <2>1 DEF HistoryInv
    <3>2. InTurn(t)' => taken'[t].user \in User /\ taken'[t].process \in deployed'
      BY <1>5, <2>1, <3>1 DEF TurnInv
    <3>3. InTurn(t)' => memory'[taken'[t].process] # NotLoaded
      BY <1>5, <2>0, <2>1, <3>1 DEF TurnInv, OwnerInv, Loaded
    <3>4. ASSUME NEW u \in Turns, Appending(t)', Appending(u)', taken'[t].process = taken'[u].process
          PROVE  t = u
      <4>1. Appending(t) /\ taken[t].process # p
        BY <1>0, <1>5, <2>1, <3>4
      <4>2. u # n
        BY <1>0, <3>1, <3>4, <4>1
      <4> QED BY <1>0, <1>5, <2>1, <3>1, <3>4, <4>1, <4>2 DEF TurnInv
    <3> QED BY <1>1, <1>2, <1>5, <2>1, <3>1, <3>2, <3>3, <3>4 DEF TurnInv, Loaded
  <2>2. CASE t = n
    <3>1. taken'[n].user \in User /\ taken'[n].process \in deployed' /\ memory'[taken'[n].process] # NotLoaded
      BY <1>0 DEF Speaks, Loaded
    <3>2. ASSUME NEW u \in Turns, Appending(u)', taken'[u].process = p PROVE u = n
      BY <1>0, <1>5, <3>2
    <3>3. ~ InLog(Says("reply", n)) /\ ~ InLog(Says("run", n))
      BY <1>0 DEF TurnInv, InTurn
    <3>4. CASE taken'[n].pc = "asking"
      <4>1. ~ InLog(Says("question", n))
        BY <1>0, <3>4 DEF TurnInv
      <4> QED BY <1>0, <1>1, <2>2, <3>1, <3>2, <3>3, <3>4, <4>1 DEF TurnInv, Loaded, InTurn, Appending
    <3>5. CASE taken'[n].pc = "replying"
      <4>1. InLog(Says("question", n))
        BY <1>0, <3>5 DEF TurnInv
      <4>2. UpTo(n, Says("question", n))'
        BY <1>1, <1>3, <4>1
      <4> QED BY <1>0, <1>1, <2>2, <3>1, <3>2, <3>3, <3>5, <4>2 DEF TurnInv, Loaded, InTurn, Appending
    <3> QED BY <1>0, <3>4, <3>5
  <2> QED BY <2>1, <2>2
<1>10. LostInv'
  <2> SUFFICES ASSUME NEW m \in lost
               PROVE  m.turn \in Turns /\ taken'[m.turn].pc = "done" /\ ~ InLog(m)'
    BY DEF LostInv
  <2>1. m.turn \in Turns /\ taken[m.turn].pc = "done" /\ ~ InLog(m)
    BY DEF HistoryInv, LostInv
  <2> QED BY <1>0, <1>1, <2>1
<1>11. Remembers(p)'
  <2>1. Remembers(p) /\ memory'[p].messages = q /\ listing'[p] = listing[p] /\ lost' = lost
    BY <1>0 DEF HistoryInv
  <2>2. ASSUME NEW m, Has(q, m) PROVE m \in lost \/ PendsAt(p, m)' \/ InLog(m)'
    <3>1. CASE Has(s, m)
      BY <1>1, <1>5, <3>1 DEF Follows
    <3>2. CASE m = x
      BY <1>0, <1>5, <3>2 DEF PendsAt
    <3> QED BY <1>7, <2>2, <3>1, <3>2
  <2>3. ASSUME NEW m, NEW o, Precedes(q, m, o), InLog(m)', InLog(o)' PROVE InOrder(m, o)'
    BY <1>1, <1>4, <1>7, <2>3 DEF Follows
  <2>4. ASSUME NEW t \in Turns, NEW m, taken'[t].process = p, taken'[t].pc \in {"asking", "replying"}, InLog(m)'
        PROVE  UpTo(t, m)'
    <3>1. t = n
      <4> SUFFICES ASSUME t # n PROVE FALSE
        OBVIOUS
      <4>1. taken[t].process = p /\ Appending(t)
        BY <1>0, <2>4 DEF Appending
      <4> QED BY <1>0, <4>1
    <3> QED BY <1>3, <2>4, <3>1
  <2>5. ASSUME NEW t \in Turns, NEW m, NEW o, taken'[t].process = p, Pends(t, m)' PROVE ~ Precedes(q, m, o)
    <3>1. t = n
      BY <1>0, <1>5, <2>5
    <3>2. m = x
      BY <1>5, <2>5, <3>1
    <3> QED BY <1>7, <1>8, <3>2, BeforeIsHad
  <2>6. /\ \A m : Has(listing[p].messages, m) => InLog(m)'
        /\ \A m, o : Precedes(listing[p].messages, m, o) => InOrder(m, o)'
    BY <1>1, <2>1 DEF Remembers
  <2> QED BY <2>1, <2>2, <2>3, <2>4, <2>5, <2>6 DEF Remembers
<1>12. ASSUME NEW o \in deployed, o # p PROVE Remembers(o)'
  <2>1. /\ Remembers(o) /\ memory'[o] = memory[o] /\ listing'[o] = listing[o] /\ lost' = lost
    BY <1>0, <1>12 DEF HistoryInv, OwnerInv
  <2>2. ASSUME NEW m, Has(memory[o].messages, m) PROVE m \in lost \/ PendsAt(o, m)' \/ InLog(m)'
    <3>1. CASE PendsAt(o, m)
      <4>1. PICK t \in Turns : taken[t].process = o /\ Pends(t, m)
        BY <3>1 DEF PendsAt
      <4>2. t # n
        BY <1>5, <4>1
      <4> QED BY <1>0, <1>5, <4>1, <4>2 DEF PendsAt
    <3> QED BY <1>1, <2>1, <2>2, <3>1 DEF Remembers
  <2>3. ASSUME NEW t \in Turns, taken'[t].process = o PROVE t # n /\ taken'[t] = taken[t]
    BY <1>0, <1>12, <2>3
  <2>4. ASSUME NEW t \in Turns, NEW m,
               taken'[t].process = o, taken'[t].pc \in {"asking", "replying"}, InLog(m)',
               Has(memory[o].messages, m) \/ Has(listing[o].messages, m)
        PROVE  UpTo(t, m)'
    BY <1>1, <1>2, <2>1, <2>3, <2>4 DEF Remembers
  <2>5. ASSUME NEW t \in Turns, NEW m, NEW l, taken'[t].process = o, Pends(t, m)'
        PROVE  ~ Precedes(memory[o].messages, m, l)
    BY <1>5, <2>1, <2>3, <2>5 DEF Remembers
  <2>6. /\ \A m, l : Precedes(memory[o].messages, m, l) /\ InLog(m)' /\ InLog(l)' => InOrder(m, l)'
        /\ \A m : Has(listing[o].messages, m) => InLog(m)'
        /\ \A m, l : Precedes(listing[o].messages, m, l) => InOrder(m, l)'
    BY <1>1, <2>1 DEF Remembers
  <2> QED BY <2>1, <2>2, <2>4, <2>5, <2>6 DEF Remembers
<1>13. ASSUME NEW o \in Process, deployed = {o} PROVE LiveInv(o)'
  <2>1. o = p
    BY <1>13
  <2>2. ASSUME p \notin clobbered PROVE Covers(q)'
    BY <1>1, <1>7, <1>13, <2>1, <2>2 DEF Follows, Covers
  <2>3. ASSUME NEW t \in Turns, NEW m, Pends(t, m)' PROVE Has(q, m)
    <3>1. CASE t = n
      BY <1>5, <1>7, <2>3, <3>1
    <3>2. CASE t # n
      <4>1. Pends(t, m) /\ InTurn(t) /\ Appending(t)
        BY <1>5, <2>3, <3>2 DEF Pends, InTurn, Appending
      <4>2. taken[t].process = p
        BY <1>13, <2>1, <4>1 DEF HistoryInv, TurnInv
      <4> QED BY <1>0, <4>1, <4>2
    <3> QED BY <3>1, <3>2
  <2> QED BY <1>0, <2>1, <2>2, <2>3 DEF LiveInv
<1>14. /\ log' \in Seq(EventOf(User))
       /\ \A o \in Process : memory'[o].messages \in Seq(Message) /\ listing'[o].messages \in Seq(Message)
  <2>1. ASSUME NEW o \in Process PROVE memory'[o].messages \in Seq(Message)
    BY <1>0, <1>7 DEF HistoryInv
  <2> QED BY <2>1 DEF HistoryInv
<1> QED BY <1>1, <1>9, <1>10, <1>11, <1>12, <1>13, <1>14 DEF HistoryInv, LiveInv

\* What the replay of the log says is in the log, in its order, and nothing of it is missing.
LEMMA SaidOfLog ==
  ASSUME log \in Seq(EventOf(User))
  PROVE  /\ Said(log) \in Seq(Message)
         /\ \A m : Has(Said(log), m) => InLog(m)
         /\ \A m, o : Precedes(Said(log), m, o) => InOrder(m, o)
         /\ Covers(Said(log))
<1>1. Lists(Said(log), log, Len(log)) /\ DOMAIN log = 1 .. Len(log)
  BY SaidLists
<1>2. ASSUME NEW m, InLog(m), m.kind # "run" PROVE Has(Said(log), m)
  <2>1. PICK i \in DOMAIN log : AsMessage(log[i]) = m
    BY <1>2 DEF InLog
  <2>2. log[i].kind # "run"
    BY <1>2, <2>1 DEF AsMessage, Says
  <2> QED BY <1>1, <2>1, <2>2 DEF Lists, IsSaid
<1> QED BY <1>1, <1>2 DEF Lists, InLog, InOrder, Covers

\* A question follows what is remembered, or what the log says.
LEMMA HistoryOfAsk ==
  ASSUME OwnerInv, HistoryInv, NEW n \in Turns, NEW p \in deployed, NEW u \in User, Ask(n, p, u)
  PROVE  HistoryInv'
<1> DEFINE h == Hydrated(p, u)
           s == h.messages
<1>1. /\ taken[n].pc = "new" /\ ~ Busy(p) /\ p \in Process /\ memory[p] \in [user : {memory[p].user}, messages : Seq(Message)]
      /\ memory' = [memory EXCEPT ![p] = Remember(h, "question", n)]
      /\ taken' = [taken EXCEPT ![n] = [pc |-> "asking", process |-> p, user |-> u, tip |-> Tip(log)]]
      /\ UNCHANGED <<deployed, log, listing, lost, clobbered>>
  BY DEF Ask, OwnerInv, HistoryInv
<1>2. Follows(p, s) /\ h = [user |-> h.user, messages |-> s]
  <2>1. CASE Loaded(p)
    <3>1. h = memory[p]
      BY <2>1 DEF Hydrated
    <3> QED BY <1>1, <2>1, <3>1 DEF Follows, HistoryInv, Remembers, LiveInv
  <2>2. CASE ~ Loaded(p) /\ log = << >>
    <3>1. s = << >> /\ h = [user |-> h.user, messages |-> s] /\ \A m : ~ InLog(m)
      BY <2>2 DEF Hydrated, NotLoaded, InLog
    <3>2. << >> \in Seq(Message)
      OBVIOUS
    <3> QED BY <3>1, <3>2, NothingSaid DEF Follows, Covers
  <2>3. CASE ~ Loaded(p) /\ log # << >>
    <3>1. h = Replay(log)
      BY <2>3 DEF Hydrated
    <3>2. s = Said(log) /\ h = [user |-> h.user, messages |-> s]
      BY <3>1 DEF Replay
    <3> QED BY <3>2, SaidOfLog DEF Follows, HistoryInv
  <2> QED BY <2>1, <2>2, <2>3
<1> HIDE DEF h
<1>4. memory'[p] = [user |-> h.user, messages |-> Append(s, Says("question", n))]
  BY <1>1, <1>2, StillTheirs DEF OwnerInv
<1>5. Append(s, Says("question", n)) # << >>
  BY <1>2 DEF Follows, Says, Message
<1>6. Loaded(p)'
  BY <1>4, <1>5 DEF Loaded, NotLoaded
<1>7. Speaks(n, p, "question", s)
  BY <1>1, <1>4, <1>6 DEF Speaks, Busy, Here, Appending, OwnerInv
<1> QED BY <1>1, <1>2, <1>7, HistoryOfSpeech

\* A reply follows what is remembered.
LEMMA HistoryOfReply ==
  ASSUME OwnerInv, HistoryInv, NEW n \in Turns, Reply(n)
  PROVE  HistoryInv'
<1>1. PICK p, s : p = taken[n].process /\ s = memory[p].messages
  OBVIOUS
<1>2. /\ taken[n].pc = "awaiting" /\ ~ Busy(p)
      /\ memory' = [memory EXCEPT ![p] = Remember(memory[p], "reply", n)]
      /\ Goto(n, "replying", log)
      /\ UNCHANGED <<deployed, log, listing, lost, clobbered>>
  BY <1>1 DEF Reply
<1>3. p \in deployed /\ p \in Process /\ taken[n].user \in User /\ Loaded(p)
  BY <1>1, <1>2 DEF HistoryInv, TurnInv, InTurn, OwnerInv
<1>4. Continues(n) /\ taken'[n].pc = "replying" /\ taken'[n].tip = Tip(log)
  BY <1>2, TurnsGoOn
<1>5. /\ taken'[n].process = p /\ taken'[n].user \in User
      /\ \A t \in Turns \ {n} : taken'[t] = taken[t]
  BY <1>1, <1>3, <1>4 DEF Continues
<1>6. \A t \in Turns : taken[t].process = p => ~ Appending(t)
  BY <1>2 DEF Busy, Here, Appending
<1>7. Follows(p, s)
  BY <1>1, <1>3 DEF Follows, HistoryInv, Remembers, LiveInv
<1>8. memory'[p] = [user |-> memory[p].user, messages |-> Append(s, Says("reply", n))]
  <2>1. memory'[p] = Remember(memory[p], "reply", n)
    BY <1>2, <1>3 DEF OwnerInv
  <2>2. memory[p] = [user |-> memory[p].user, messages |-> memory[p].messages]
    BY <1>3 DEF OwnerInv
  <2>3. Remember(memory[p], "reply", n)
          = [user |-> memory[p].user, messages |-> Append(memory[p].messages, Says("reply", n))]
    BY <2>2, StillTheirs
  <2> QED BY <1>1, <2>1, <2>3
<1>9. Append(s, Says("reply", n)) # << >>
  BY <1>7 DEF Follows, Says, Message
<1>10. Loaded(p)'
  BY <1>8, <1>9 DEF Loaded, NotLoaded
<1>11. \A o \in Process \ {p} : memory'[o] = memory[o]
  BY <1>2, <1>3 DEF OwnerInv
<1>12. Speaks(n, p, "reply", s)
  BY <1>1, <1>2, <1>4, <1>5, <1>6, <1>8, <1>10, <1>11 DEF Speaks
<1> QED BY <1>2, <1>3, <1>7, <1>12, HistoryOfSpeech

-----------------------------------------------------------------------------
(* Listings and crashes. *)

\* What a step that leaves log, turns and losses alone keeps.
LEMMA TurnsStay ==
  ASSUME HistoryInv, UNCHANGED <<deployed, log, taken, lost>>,
         \A o \in Process : Loaded(o) => Loaded(o)', OwnerInv
  PROVE  /\ \A m : InLog(m)' <=> InLog(m)
         /\ \A m, o : InOrder(m, o)' <=> InOrder(m, o)
         /\ \A s : Covers(s)' <=> Covers(s)
         /\ LoggedOnce' /\ RunsAreComplete' /\ LostInv' /\ log' \in Seq(EventOf(User))
         /\ \A t \in Turns : TurnInv(t)'
         /\ \A t \in Turns : (InTurn(t)' <=> InTurn(t)) /\ \A m : (Pends(t, m)' <=> Pends(t, m)) /\ (UpTo(t, m) => UpTo(t, m)')
         /\ \A p, m : PendsAt(p, m)' <=> PendsAt(p, m)
<1>1. /\ \A m : InLog(m)' <=> InLog(m)
      /\ \A m, o : InOrder(m, o)' <=> InOrder(m, o)
      /\ LoggedOnce' /\ RunsAreComplete'
      /\ \A t : (\A m : UpTo(t, m) => UpTo(t, m)') /\ (Answered(t) => Answered(t)')
  BY LogStays DEF HistoryInv
<1>2. \A t \in Turns : /\ (InTurn(t)' <=> InTurn(t)) /\ (Appending(t)' <=> Appending(t))
                       /\ \A m : Pends(t, m)' <=> Pends(t, m)
  BY DEF InTurn, Appending, Pends
<1>3. ASSUME NEW t \in Turns PROVE TurnInv(t)'
  <2>1. TurnInv(t)
    BY DEF HistoryInv
  <2>2. InTurn(t) => memory'[taken[t].process] # NotLoaded
    BY <2>1 DEF TurnInv, OwnerInv, Loaded
  <2> QED BY <1>1, <1>2, <2>1, <2>2 DEF TurnInv, Loaded
<1>4. LostInv'
  BY <1>1 DEF HistoryInv, LostInv
<1>5. \A s : Covers(s)' <=> Covers(s)
  BY <1>1 DEF Covers
<1>6. \A p, m : PendsAt(p, m)' <=> PendsAt(p, m)
  BY <1>2 DEF PendsAt
<1> QED BY <1>1, <1>2, <1>3, <1>4, <1>5, <1>6 DEF HistoryInv

\* Nor does it change what other processes remember.
LEMMA OthersRemember ==
  ASSUME OwnerInv, HistoryInv, UNCHANGED <<deployed, log, taken, lost>>,
         \A o \in Process : Loaded(o) => Loaded(o)',
         NEW p \in deployed, memory'[p] = memory[p], listing'[p] = listing[p]
  PROVE  Remembers(p)'
<1>1. /\ \A m : InLog(m)' <=> InLog(m)
      /\ \A m, o : InOrder(m, o)' <=> InOrder(m, o)
      /\ \A t \in Turns : \A m : (Pends(t, m)' <=> Pends(t, m)) /\ (UpTo(t, m) => UpTo(t, m)')
      /\ \A m : PendsAt(p, m)' <=> PendsAt(p, m)
  BY TurnsStay
<1>2. Remembers(p)
  BY DEF HistoryInv
<1> QED BY <1>1, <1>2 DEF Remembers

\* A listing reads what the log says while nothing is loaded.
LEMMA HistoryOfListing ==
  ASSUME OwnerInv, HistoryInv, NEW p \in deployed, NEW v \in User, StartListing(p, v)
  PROVE  HistoryInv'
<1> DEFINE s == Said(log)
<1>1. /\ listing' = [listing EXCEPT ![p] = Replay(log)] /\ ~ Loaded(p) /\ p \in Process
      /\ UNCHANGED <<deployed, log, memory, taken, lost, clobbered>>
  BY DEF StartListing, OwnerInv
<1>2. /\ listing'[p].messages = s
      /\ \A o \in Process \ {p} : listing'[o] = listing[o]
  <2>1. Replay(log).messages = s
    BY DEF Replay
  <2> HIDE DEF s
  <2> QED BY <1>1, <2>1 DEF OwnerInv
<1>3. /\ s \in Seq(Message) /\ (\A m : Has(s, m) => InLog(m))
      /\ (\A m, o : Precedes(s, m, o) => InOrder(m, o)) /\ Covers(s)
  BY SaidOfLog DEF HistoryInv
<1> HIDE DEF s
<1>4. \A o : Loaded(o)' <=> Loaded(o)
  BY <1>1 DEF Loaded
<1>5. /\ \A m : InLog(m)' <=> InLog(m)
      /\ \A m, o : InOrder(m, o)' <=> InOrder(m, o)
      /\ \A q : Covers(q)' <=> Covers(q)
      /\ LoggedOnce' /\ RunsAreComplete' /\ LostInv' /\ log' \in Seq(EventOf(User))
      /\ \A t \in Turns : TurnInv(t)'
      /\ \A t \in Turns : \A m : (Pends(t, m)' <=> Pends(t, m)) /\ (UpTo(t, m) => UpTo(t, m)')
      /\ \A q, m : PendsAt(q, m)' <=> PendsAt(q, m)
  BY <1>1, <1>4, TurnsStay
<1>6. Remembers(p)'
  <2>1. Remembers(p) /\ memory'[p] = memory[p] /\ lost' = lost /\ taken' = taken
    BY <1>1 DEF HistoryInv
  <2>2. \A n \in Turns : taken[n].process = p => ~ (taken[n].pc \in {"asking", "replying"})
    BY <1>1 DEF HistoryInv, TurnInv, InTurn
  <2> QED BY <1>2, <1>3, <1>5, <2>1, <2>2 DEF Remembers
<1>7. ASSUME NEW o \in deployed, o # p PROVE Remembers(o)'
  <2>1. listing'[o] = listing[o] /\ memory'[o] = memory[o]
    BY <1>1, <1>2, <1>7 DEF OwnerInv
  <2> QED BY <1>1, <1>4, <2>1, OthersRemember
<1>8. ASSUME NEW o \in Process, deployed = {o} PROVE LiveInv(o)'
  <2>1. o = p
    BY <1>8
  <2> QED BY <1>1, <1>2, <1>3, <1>4, <1>5, <2>1 DEF LiveInv
<1>9. \A o \in Process : memory'[o].messages \in Seq(Message) /\ listing'[o].messages \in Seq(Message)
  BY <1>1, <1>2, <1>3 DEF HistoryInv
<1> QED BY <1>1, <1>5, <1>6, <1>7, <1>8, <1>9 DEF HistoryInv, LiveInv

\* What a listing installs was the log when it read, or replaces a state in use.
LEMMA HistoryOfInstall ==
  ASSUME OwnerInv, HistoryInv, NEW p \in deployed, Install(p)
  PROVE  HistoryInv'
<1>1. /\ listing[p] # NotLoaded /\ p \in Process
      /\ memory' = [memory EXCEPT ![p] = listing[p]]
      /\ clobbered' = IF Loaded(p) THEN clobbered \cup {p} ELSE clobbered
      /\ listing' = [listing EXCEPT ![p] = NotLoaded]
      /\ UNCHANGED <<deployed, log, taken, lost>>
  BY DEF Install, OwnerInv
<1>2. /\ memory'[p] = listing[p] /\ listing'[p] = NotLoaded /\ listing'[p].messages = << >>
      /\ \A o \in Process \ {p} : memory'[o] = memory[o] /\ listing'[o] = listing[o]
  BY <1>1 DEF OwnerInv, NotLoaded
<1>3. Loaded(p)' /\ \A o \in Process : Loaded(o) => Loaded(o)'
  BY <1>1, <1>2 DEF Loaded
<1>4. /\ \A m : InLog(m)' <=> InLog(m)
      /\ \A m, o : InOrder(m, o)' <=> InOrder(m, o)
      /\ \A q : Covers(q)' <=> Covers(q)
      /\ LoggedOnce' /\ RunsAreComplete' /\ LostInv' /\ log' \in Seq(EventOf(User))
      /\ \A t \in Turns : TurnInv(t)'
      /\ \A t \in Turns : \A m : (Pends(t, m)' <=> Pends(t, m)) /\ (UpTo(t, m) => UpTo(t, m)')
      /\ \A q, m : PendsAt(q, m)' <=> PendsAt(q, m)
  BY <1>1, <1>3, TurnsStay
<1>5. Remembers(p)'
  <2>1. Remembers(p) /\ lost' = lost /\ taken' = taken
    BY <1>1 DEF HistoryInv
  <2>2. \A n \in Turns : \A m : Pends(n, m) => ~ InLog(m)
    BY DEF Pends, HistoryInv, TurnInv
  <2>3. \A n \in Turns : \A m, o : Pends(n, m) => ~ Precedes(listing[p].messages, m, o)
    BY <2>1, <2>2, BeforeIsHad DEF Remembers
  <2> QED BY <1>2, <1>4, <2>1, <2>3, NothingSaid DEF Remembers
<1>6. ASSUME NEW o \in deployed, o # p PROVE Remembers(o)'
  <2>1. listing'[o] = listing[o] /\ memory'[o] = memory[o]
    BY <1>2, <1>6 DEF OwnerInv
  <2> QED BY <1>1, <1>3, <2>1, OthersRemember
<1>7. ASSUME NEW o \in Process, deployed = {o} PROVE LiveInv(o)'
  <2>1. o = p
    BY <1>7
  <2>2. ASSUME p \notin clobbered'
        PROVE  Covers(listing[p].messages) /\ \A n \in Turns : \A m : ~ Pends(n, m)
    <3>1. ~ Loaded(p) /\ LiveInv(p)
      BY <1>1, <2>2 DEF HistoryInv
    <3>2. \A n \in Turns : ~ InTurn(n)
      BY <1>7, <2>1, <3>1 DEF HistoryInv, TurnInv
    <3>3. \A n \in Turns : \A m : ~ Pends(n, m)
      BY <3>2 DEF InTurn, Pends
    <3> QED BY <1>1, <1>7, <2>1, <3>1, <3>3 DEF LiveInv
  <2> QED BY <1>2, <1>3, <1>4, <2>1, <2>2 DEF LiveInv
<1>8. \A o \in Process : memory'[o].messages \in Seq(Message) /\ listing'[o].messages \in Seq(Message)
  <2>1. << >> \in Seq(Message)
    OBVIOUS
  <2> QED BY <1>2, <2>1 DEF HistoryInv
<1> QED BY <1>1, <1>4, <1>5, <1>6, <1>7, <1>8 DEF HistoryInv, LiveInv

\* A crash forgets; what was pending of the process is neither lost nor remembered.
LEMMA HistoryOfCrash ==
  ASSUME OwnerInv, HistoryInv, NEW p \in deployed, CrashProcess(p)
  PROVE  HistoryInv'
<1>1. /\ memory' = [memory EXCEPT ![p] = NotLoaded]
      /\ listing' = [listing EXCEPT ![p] = NotLoaded]
      /\ taken' = [n \in Turns |-> IF n \in Here(p) THEN [taken[n] EXCEPT !.pc = "done", !.tip = NoRow]
                                  ELSE taken[n]]
      /\ UNCHANGED <<deployed, log, lost>> /\ p \in Process
  BY DEF CrashProcess, OwnerInv
<1>2. /\ memory'[p] = NotLoaded /\ listing'[p] = NotLoaded /\ ~ Loaded(p)'
      /\ memory'[p].messages = << >> /\ listing'[p].messages = << >>
      /\ \A o \in Process \ {p} : memory'[o] = memory[o] /\ listing'[o] = listing[o]
  BY <1>1 DEF OwnerInv, NotLoaded, Loaded
<1>3. /\ \A t \in Turns : taken[t].process = p => taken'[t].pc = "done"
      /\ \A t \in Turns : taken[t].process # p => taken'[t] = taken[t]
      /\ \A t \in Turns : taken'[t].process = taken[t].process
  <2>1. \A t \in Turns : taken[t] = [pc |-> taken[t].pc, process |-> taken[t].process,
                                     user |-> taken[t].user, tip |-> taken[t].tip]
    BY DEF OwnerInv
  <2>2. ASSUME NEW t \in Turns
        PROVE  /\ taken[t].process = p => taken'[t].pc = "done"
               /\ taken[t].process # p => taken'[t] = taken[t]
               /\ taken'[t].process = taken[t].process
    <3>1. CASE taken[t].process = p
      <4>1. taken'[t] = [taken[t] EXCEPT !.pc = "done", !.tip = NoRow]
        BY <1>1, <3>1 DEF Here
      <4> QED BY <2>1, <3>1, <4>1
    <3>2. CASE taken[t].process # p
      <4>1. taken'[t] = taken[t]
        BY <1>1, <3>2 DEF Here
      <4> QED BY <3>2, <4>1
    <3> QED BY <3>1, <3>2
  <2> QED BY <2>2
<1>4. /\ \A m : InLog(m)' <=> InLog(m)
      /\ \A m, o : InOrder(m, o)' <=> InOrder(m, o)
      /\ LoggedOnce' /\ RunsAreComplete'
  BY <1>1, LogStays DEF HistoryInv
<1>5. \A t \in Turns : taken[t].process # p => (\A m : UpTo(t, m) => UpTo(t, m)') /\ (Answered(t) => Answered(t)')
  BY <1>1, <1>3, LogStays
<1>6. /\ \A t \in Turns : taken[t].process = p =>
           ~ InTurn(t)' /\ ~ Appending(t)' /\ \A m : ~ Pends(t, m)'
      /\ \A t \in Turns : taken[t].process # p =>
           /\ (InTurn(t)' <=> InTurn(t)) /\ (Appending(t)' <=> Appending(t))
           /\ \A m : Pends(t, m)' <=> Pends(t, m)
  <2>1. ASSUME NEW t \in Turns, taken[t].process = p
        PROVE  ~ InTurn(t)' /\ ~ Appending(t)' /\ \A m : ~ Pends(t, m)'
    BY <1>3, <2>1 DEF InTurn, Appending, Pends
  <2>2. ASSUME NEW t \in Turns, taken[t].process # p
        PROVE  /\ (InTurn(t)' <=> InTurn(t)) /\ (Appending(t)' <=> Appending(t))
               /\ \A m : Pends(t, m)' <=> Pends(t, m)
    BY <1>3, <2>2 DEF InTurn, Appending, Pends
  <2> QED BY <2>1, <2>2
<1>7. ASSUME NEW t \in Turns PROVE TurnInv(t)'
  <2>1. CASE taken[t].process = p
    BY <1>3, <1>6, <2>1 DEF TurnInv, InTurn
  <2>2. CASE taken[t].process # p
    <3>1. TurnInv(t) /\ taken'[t] = taken[t]
      BY <1>3, <2>2 DEF HistoryInv
    <3>2. InTurn(t)' => /\ taken'[t].user \in User /\ taken'[t].process \in deployed'
                        /\ memory'[taken'[t].process] # NotLoaded
      <4> SUFFICES ASSUME InTurn(t)'
                   PROVE  /\ taken'[t].user \in User /\ taken'[t].process \in deployed'
                          /\ memory'[taken'[t].process] # NotLoaded
        OBVIOUS
      <4>1. InTurn(t)
        BY <1>6, <2>2
      <4>2. PICK q : q = taken[t].process
        OBVIOUS
      <4>3. taken[t].user \in User /\ q \in deployed /\ memory[q] # NotLoaded /\ q # p /\ q \in Process
        BY <2>2, <3>1, <4>1, <4>2 DEF TurnInv, Loaded, OwnerInv
      <4>4. memory'[q] # NotLoaded
        BY <1>2, <4>3
      <4>5. taken'[t].process = q /\ taken'[t].user = taken[t].user
        BY <3>1, <4>2
      <4> QED BY <1>1, <4>3, <4>4, <4>5
    <3>3. ASSUME NEW u \in Turns, Appending(t)', Appending(u)', taken'[t].process = taken'[u].process
          PROVE  t = u
      <4>1. Appending(t) /\ Appending(u) /\ taken[t].process = taken[u].process
        BY <1>3, <1>6, <3>3
      <4> QED BY <3>1, <4>1 DEF TurnInv
    <3> QED BY <1>4, <1>5, <1>6, <2>2, <3>1, <3>2, <3>3 DEF TurnInv, Loaded
  <2> QED BY <2>1, <2>2
<1>8. LostInv'
  <2> SUFFICES ASSUME NEW m \in lost
               PROVE  m.turn \in Turns /\ taken'[m.turn].pc = "done" /\ ~ InLog(m)'
    BY <1>1 DEF LostInv
  <2>1. m.turn \in Turns /\ taken[m.turn].pc = "done" /\ ~ InLog(m)
    BY DEF HistoryInv, LostInv
  <2> QED BY <1>3, <1>4, <2>1
<1>9. Remembers(p)'
  BY <1>2, NothingSaid DEF Remembers
<1>10. ASSUME NEW o \in deployed, o # p PROVE Remembers(o)'
  <2>1. Remembers(o) /\ memory'[o] = memory[o] /\ listing'[o] = listing[o] /\ lost' = lost
    BY <1>1, <1>2, <1>10 DEF HistoryInv, OwnerInv
  <2>2. \A t \in Turns : taken'[t].process = o => taken[t].process = o /\ taken'[t] = taken[t] /\ taken[t].process # p
    BY <1>3, <1>10
  <2>3. \A m : PendsAt(o, m) => PendsAt(o, m)'
    BY <1>3, <1>6, <1>10 DEF PendsAt
  <2>4. ASSUME NEW t \in Turns, NEW m,
               taken'[t].process = o, taken'[t].pc \in {"asking", "replying"}, InLog(m)',
               Has(memory[o].messages, m) \/ Has(listing[o].messages, m)
        PROVE  UpTo(t, m)'
    BY <1>4, <1>5, <2>1, <2>2, <2>4 DEF Remembers
  <2>5. ASSUME NEW t \in Turns, NEW m, NEW l, taken'[t].process = o, Pends(t, m)'
        PROVE  ~ Precedes(memory[o].messages, m, l)
    BY <1>6, <2>1, <2>2, <2>5 DEF Remembers
  <2>6. /\ \A m : Has(memory[o].messages, m) => m \in lost \/ PendsAt(o, m)' \/ InLog(m)'
        /\ \A m, l : Precedes(memory[o].messages, m, l) /\ InLog(m)' /\ InLog(l)' => InOrder(m, l)'
        /\ \A m : Has(listing[o].messages, m) => InLog(m)'
        /\ \A m, l : Precedes(listing[o].messages, m, l) => InOrder(m, l)'
    BY <1>4, <2>1, <2>3 DEF Remembers
  <2> QED BY <2>1, <2>4, <2>5, <2>6 DEF Remembers
<1>11. ASSUME NEW o \in Process, deployed = {o} PROVE LiveInv(o)'
  <2>1. o = p
    BY <1>11
  <2> QED BY <1>2, <2>1 DEF LiveInv
<1>12. /\ log' \in Seq(EventOf(User))
       /\ \A o \in Process : memory'[o].messages \in Seq(Message) /\ listing'[o].messages \in Seq(Message)
  <2>1. << >> \in Seq(Message)
    OBVIOUS
  <2> QED BY <1>1, <1>2, <2>1 DEF HistoryInv
<1> QED BY <1>1, <1>4, <1>7, <1>8, <1>9, <1>10, <1>11, <1>12 DEF HistoryInv, LiveInv

-----------------------------------------------------------------------------
\* Every step keeps memory and log together.
LEMMA HistoryStepInv == OwnerInv /\ HistoryInv /\ [ConversationNext]_conversationVars => HistoryInv'
<1> SUFFICES ASSUME OwnerInv, HistoryInv, [ConversationNext]_conversationVars PROVE HistoryInv'
  OBVIOUS
<1>1. ASSUME NEW n \in Turns, NEW p \in deployed, NEW u \in User, Ask(n, p, u) PROVE HistoryInv'
  BY <1>1, HistoryOfAsk
<1>2. ASSUME NEW n \in Turns, LogQuestion(n) PROVE HistoryInv'
  <2>1. /\ Place("question", n) /\ Continues(n) /\ Appends(n, "question")
        /\ UNCHANGED <<deployed, memory, listing, lost, clobbered>>
    BY <1>2, TurnsGoOn DEF LogQuestion, Appends
  <2> QED BY <2>1, HistoryOfRow
<1>3. ASSUME NEW n \in Turns, Reply(n) PROVE HistoryInv'
  BY <1>3, HistoryOfReply
<1>4. ASSUME NEW n \in Turns, LogReply(n) PROVE HistoryInv'
  <2>1. Goto(n, "recording", log') /\ taken[n].pc = "replying" /\ Place("reply", n)
        /\ UNCHANGED <<deployed, memory, listing, lost, clobbered>>
    BY <1>4 DEF LogReply
  <2>2. Continues(n) /\ taken'[n].pc = "recording" /\ taken'[n].tip = Tip(log')
    BY <2>1, TurnsGoOn
  <2>3. Appends(n, "reply")
    BY <2>1, <2>2 DEF Appends, Tip
  <2> QED BY <2>1, <2>2, <2>3, HistoryOfRow
<1>5. ASSUME NEW n \in Turns, LogRun(n) PROVE HistoryInv'
  <2>1. /\ Place("run", n) /\ Continues(n) /\ Appends(n, "run")
        /\ UNCHANGED <<deployed, memory, listing, lost, clobbered>>
    BY <1>5, TurnsGoOn DEF LogRun, Appends
  <2> QED BY <2>1, HistoryOfRow
<1>6. ASSUME NEW n \in Turns, AppendFails(n) PROVE HistoryInv'
  <2>1. /\ Finish(n) /\ taken[n].pc \in {"asking", "replying", "recording"}
        /\ lost' = lost \cup {Says(k, n) : k \in {x \in {"question", "reply"} :
                          taken[n].pc = (IF x = "question" THEN "asking" ELSE "replying")}}
        /\ UNCHANGED <<deployed, log, memory, listing, clobbered>>
    BY <1>6 DEF AppendFails
  <2>2. Continues(n) /\ taken'[n].pc = "done" /\ InTurn(n)
    BY <2>1, TurnsGoOn DEF InTurn
  <2>3. lost \subseteq lost' /\ \A m : Pends(n, m) => m \in lost'
    BY <2>1 DEF Pends
  <2>4. \A m \in lost' \ lost : Pends(n, m)
    BY <2>1 DEF Pends
  <2> QED BY <2>1, <2>2, <2>3, <2>4, HistoryOfEnd
<1>7. ASSUME NEW n \in Turns, GiveUp(n) PROVE HistoryInv'
  <2>1. /\ Finish(n) /\ taken[n].pc = "awaiting"
        /\ UNCHANGED <<deployed, log, memory, listing, lost, clobbered>>
    BY <1>7 DEF GiveUp
  <2>2. Continues(n) /\ taken'[n].pc = "done" /\ InTurn(n) /\ \A m : ~ Pends(n, m)
    BY <2>1, TurnsGoOn DEF InTurn, Pends
  <2> QED BY <2>1, <2>2, HistoryOfEnd
<1>8. ASSUME NEW p \in deployed, NEW u \in User, StartListing(p, u) PROVE HistoryInv'
  BY <1>8, HistoryOfListing
<1>9. ASSUME NEW p \in deployed, Install(p) PROVE HistoryInv'
  BY <1>9, HistoryOfInstall
<1>10. ASSUME NEW p \in deployed, CrashProcess(p) PROVE HistoryInv'
  BY <1>10, HistoryOfCrash
<1>11. CASE UNCHANGED conversationVars
  <2>1. UNCHANGED <<deployed, log, memory, taken, listing, lost, clobbered>>
    BY <1>11 DEF conversationVars
  <2>2. \A o : Loaded(o)' <=> Loaded(o)
    BY <2>1 DEF Loaded
  <2>3. \A p \in deployed : Remembers(p)'
    BY <2>1, <2>2, OthersRemember
  <2>4. /\ LoggedOnce' /\ RunsAreComplete' /\ LostInv' /\ log' \in Seq(EventOf(User))
        /\ \A t \in Turns : TurnInv(t)'
        /\ \A s : Covers(s)' <=> Covers(s)
        /\ \A t \in Turns : \A m : Pends(t, m)' <=> Pends(t, m)
    BY <2>1, <2>2, TurnsStay
  <2>5. \A p \in Process : LiveInv(p)'
    BY <2>1, <2>2, <2>4 DEF HistoryInv, LiveInv
  <2> QED BY <2>1, <2>3, <2>4, <2>5 DEF HistoryInv
<1> QED BY <1>1, <1>2, <1>3, <1>4, <1>5, <1>6, <1>7, <1>8, <1>9, <1>10, <1>11 DEF ConversationNext

(***************************************************************************)
(* For any processes, users, turns, crashes and failed appends, memory and *)
(* log tell one conversation: nothing is logged twice, what a process      *)
(* remembers and did not fail to append stands in the log in that order, a *)
(* restart of the only process loses nothing of it, and no run is without  *)
(* its messages before it (agent/orchestrator.py:117-119, 354-357).        *)
(***************************************************************************)
THEOREM MemoryIsTheLog == ConversationSpec => []MemoryMeetsLog
<1>1. OwnerInv /\ HistoryInv /\ [ConversationNext]_conversationVars => (OwnerInv /\ HistoryInv)'
  BY OwnerStepInv, HistoryStepInv
<1>2. ConversationInit => OwnerInv /\ HistoryInv
  BY OwnerInitInv, HistoryInitInv
<1> QED BY <1>1, <1>2, HistoryMeets, PTL DEF ConversationSpec

-----------------------------------------------------------------------------
(* The knowledge index. *)

(***************************************************************************)
(* A document and its chunks are written and deleted together: they are    *)
(* never apart, whatever becomes of the full-text rows.  A search under    *)
(* way holds rows of the documents there were when it began, and those     *)
(* nobody wrote since are as they were.                                    *)
(***************************************************************************)
KnowledgeInv ==
  /\ chunks = documents /\ documents = [d \in Document |-> documents[d]]
  /\ search.pc = "reading" =>
       /\ \A d \in DOMAIN search.found : d \in Document /\ search.found[d] = search.began[d]
       /\ \A d \in steady : d \in Document /\ documents[d] = search.began[d]

\* Every step keeps it so.
LEMMA KnowledgeAlways == KnowledgeSpec => []KnowledgeInv
<1>1. KnowledgeInit => KnowledgeInv
  BY DEF KnowledgeInit, KnowledgeInv, NoSearch
<1>2. KnowledgeInv /\ [KnowledgeNext]_knowledgeVars => KnowledgeInv'
  <2> SUFFICES ASSUME KnowledgeInv, [KnowledgeNext]_knowledgeVars PROVE KnowledgeInv'
    OBVIOUS
  <2>1. ASSUME NEW i, NEW source, SelectSource(i, source) PROVE KnowledgeInv'
    BY <2>1 DEF SelectSource, KnowledgeInv
  <2>2. ASSUME NEW i, NEW fts, DeleteSource(i, fts) PROVE KnowledgeInv'
    BY <2>2 DEF DeleteSource, KnowledgeInv
  <2>3. ASSUME NEW batch, NEW fts, Ingest(batch, fts) PROVE KnowledgeInv'
    BY <2>3 DEF Ingest, KnowledgeInv
  <2>4. ASSUME NEW scopes, NEW fts, StartSearch(scopes, fts) PROVE KnowledgeInv'
    <3>1. PICK some \in Read(Found(fts)) :
            search' = [pc |-> "reading", scopes |-> scopes, found |-> [d \in some |-> chunks[d]],
                       began |-> documents]
      BY <2>4 DEF StartSearch
    <3>2. some \subseteq Document
      BY <3>1 DEF Read, Found, Chunks
    <3>3. steady' = Document /\ UNCHANGED <<documents, chunks>>
      BY <2>4 DEF StartSearch
    <3> QED BY <3>1, <3>2, <3>3 DEF KnowledgeInv
  <2>5. CASE FinishSearch
    BY <2>5 DEF FinishSearch, KnowledgeInv, NoSearch
  <2>6. CASE UNCHANGED knowledgeVars
    BY <2>6 DEF knowledgeVars, KnowledgeInv
  <2> QED BY <2>1, <2>2, <2>3, <2>4, <2>5, <2>6 DEF KnowledgeNext
<1> QED BY <1>1, <1>2, PTL DEF KnowledgeSpec

\* A scan of an index that is small enough reads all of it.
LEMMA SmallIsScanned ==
  ASSUME NEW scan \in Scans, Cardinality(Chunks) <= MaxScan
  PROVE  scan = Chunks
<1>1. IsFiniteSet(Chunks)
  BY KnowledgeAssumption, FS_Subset DEF Chunks
<1>2. Cardinality(Chunks) \in Nat /\ MaxScan \in Nat
  BY <1>1, FS_CardinalityType, KnowledgeAssumption
<1>3. scan \subseteq Chunks /\ Cardinality(scan) = Cardinality(Chunks)
  BY <1>2 DEF Scans, Read
<1> QED BY <1>1, <1>3, FS_Subset

\* For any documents, scopes, limits and order of writes, with and without
\* full-text rows and whatever is written between its two reads, a search
\* answers with what its actor may see and leaves none of it out that nobody
\* wrote and it could give (sqlite_knowledge.py).
THEOREM SearchesServeDocuments == KnowledgeSpec => SearchServesDocuments
<1>1. ASSUME KnowledgeInv, FinishSearch, NEW scan \in Scans
      PROVE  LET scored == Scored(scan) IN
             /\ \A h \in scored : Answers(h.row) /\ h.row \in {search.began[h.id], documents[h.id]}
             /\ Cardinality(Chunks) <= MaxScan /\ (\A h \in Visible(FoundRows) : Scores(h.row.text)) =>
                  \/ \A d \in steady : Answers(documents[d]) => \E h \in scored : h.id = d
                  \/ Cardinality(scored) >= MaxHits
  <2> DEFINE scored == Scored(scan)
             candidates == Candidates(scan)
  <2>1. /\ chunks = documents
        /\ \A d \in DOMAIN search.found : search.found[d] = search.began[d]
        /\ \A d \in steady : d \in Document /\ documents[d] = search.began[d]
    BY <1>1 DEF KnowledgeInv, FinishSearch
  <2>2. \A h \in FoundRows \cup Extra(scan) : h.row \in {search.began[h.id], documents[h.id]}
    BY <2>1 DEF FoundRows, Extra, Hit
  <2>3. candidates \subseteq FoundRows \cup Extra(scan)
    BY DEF Candidates
  <2>4. scored = {h \in candidates : h.row.required \subseteq search.scopes /\ Scores(h.row.text)}
    BY DEF Scored, Visible
  <2> HIDE DEF candidates
  <2>5. ASSUME NEW h \in scored PROVE Answers(h.row) /\ h.row \in {search.began[h.id], documents[h.id]}
    BY <2>2, <2>3, <2>4 DEF Answers
  <2>6. ASSUME Cardinality(Chunks) <= MaxScan, \A h \in Visible(FoundRows) : Scores(h.row.text)
        PROVE  \/ \A d \in steady : Answers(documents[d]) => \E h \in scored : h.id = d
               \/ Cardinality(scored) >= MaxHits
    <3>1. CASE Cardinality(Visible(FoundRows)) >= MaxHits
      <4>1. candidates = FoundRows
        BY <3>1 DEF candidates, Candidates
      <4>2. scored = Visible(FoundRows)
        BY <4>1, <2>4, <2>6 DEF Visible
      <4> QED BY <3>1, <4>2
    <3>2. CASE ~ (Cardinality(Visible(FoundRows)) >= MaxHits)
      <4>1. candidates = FoundRows \cup Extra(scan)
        BY <3>2 DEF candidates, Candidates
      <4>2. scan = Chunks
        BY <2>6, SmallIsScanned
      <4>3. ASSUME NEW d \in steady, Answers(documents[d]) PROVE \E h \in scored : h.id = d
        <5>1. d \in Chunks
          BY <2>1, <4>3 DEF Answers, Scores, Chunks, Absent
        <5> DEFINE h == Hit(d, documents[d])
        <5>2. h \in FoundRows \cup Extra(scan)
          BY <2>1, <4>2, <5>1 DEF FoundRows, Extra
        <5>3. h.id = d /\ h.row = documents[d]
          BY DEF Hit
        <5> HIDE DEF h
        <5>4. h \in scored
          BY <5>2, <5>3, <4>1, <4>3, <2>4 DEF Answers
        <5> QED BY <5>3, <5>4
      <4> QED BY <4>3
    <3> QED BY <3>1, <3>2
  <2> QED BY <2>5, <2>6
<1>2. KnowledgeInv /\ [KnowledgeNext]_knowledgeVars =>
        [FinishSearch => \A scan \in Scans :
           LET scored == Scored(scan) IN
           /\ \A h \in scored : Answers(h.row) /\ h.row \in {search.began[h.id], documents[h.id]}
           /\ Cardinality(Chunks) <= MaxScan /\ (\A h \in Visible(FoundRows) : Scores(h.row.text)) =>
                \/ \A d \in steady : Answers(documents[d]) => \E h \in scored : h.id = d
                \/ Cardinality(scored) >= MaxHits]_knowledgeVars
  BY <1>1
<1> QED BY <1>2, KnowledgeAlways, PTL DEF SearchServesDocuments, KnowledgeSpec

-----------------------------------------------------------------------------
(* Feedback reviews. *)

Verdicts == [status : Judgement, id : Nat]

(***************************************************************************)
(* Where a request stands: it began no later than now, and what its        *)
(* console showed counts every review there was when it began, once that   *)
(* has been compared.                                                      *)
(***************************************************************************)
RequestKnows(v) ==
  /\ reviewing[v].pc \in {"counting", "writing"} =>
       reviewing[v].status \in Judgement /\ reviewing[v].mark \in 0 .. Len(trail)
  /\ reviewing[v].pc = "writing" /\ reviewing[v].careful =>
       console[v].count \in Nat /\ console[v].count >= reviewing[v].mark

Reviewing == [pc : {"none", "counting", "writing"}, status : Judgement \cup {"none"}, careful : BOOLEAN,
              read : Seq(Verdicts), behind : Nat, mark : Nat]

FeedbackInv ==
  /\ trail \in Seq(Verdicts)
  /\ console = [v \in Reviewer |-> console[v]]
  /\ reviewing \in [Reviewer -> Reviewing]
  /\ \A v \in Reviewer : RequestKnows(v)

\* No request has begun at first.
LEMMA FeedbackInitInv == FeedbackInit => FeedbackInv
<1> SUFFICES ASSUME FeedbackInit PROVE FeedbackInv
  OBVIOUS
<1>1. trail \in Seq(Verdicts) /\ << >> \in Seq(Verdicts)
  BY DEF FeedbackInit
<1>2. NoReview \in Reviewing /\ NoReview.pc = "none"
  BY <1>1 DEF NoReview, Reviewing
<1> QED BY <1>1, <1>2 DEF FeedbackInit, FeedbackInv, RequestKnows

\* A queue item counts the reviews it was made from.
LEMMA ItemCounts == ASSUME NEW reviews, NEW n PROVE ItemOf(reviews, n).count = n
BY DEF ItemOf, Item

\* A request that has compared the count has it from a trail that only grows.
LEMMA FeedbackStepInv == FeedbackInv /\ [FeedbackNext]_feedbackVars => FeedbackInv'
<1> SUFFICES ASSUME FeedbackInv, [FeedbackNext]_feedbackVars PROVE FeedbackInv'
  OBVIOUS
<1>0. Len(trail) \in Nat /\ NoReview \in Reviewing /\ NoReview.pc = "none"
  BY DEF FeedbackInv, NoReview, Reviewing
<1>1. ASSUME NEW v \in Reviewer, ShowQueue(v) PROVE FeedbackInv'
  BY <1>1 DEF ShowQueue, FeedbackInv, RequestKnows
<1>2. ASSUME NEW v \in Reviewer, NEW s \in Judgement, NEW careful \in BOOLEAN, StartReview(v, s, careful)
      PROVE  FeedbackInv'
  <2> DEFINE r == [NoReview EXCEPT !.pc = "counting", !.status = s, !.careful = careful,
                                   !.read = trail, !.mark = Len(trail)]
  <2>1. r \in Reviewing /\ r.pc = "counting" /\ r.status = s /\ r.mark = Len(trail)
    BY <1>0 DEF FeedbackInv, NoReview, Reviewing
  <2>2. reviewing' = [reviewing EXCEPT ![v] = r] /\ UNCHANGED <<trail, console>>
    BY <1>2 DEF StartReview
  <2> HIDE DEF r
  <2> QED BY <2>1, <2>2, <1>0 DEF FeedbackInv, RequestKnows
<1>3. ASSUME NEW v \in Reviewer, CompareReview(v) PROVE FeedbackInv'
  <2>1. reviewing[v].pc = "counting" /\ trail' = trail /\ reviewing[v] \in Reviewing
    BY <1>3 DEF CompareReview, FeedbackInv
  <2>2. CASE reviewing[v].careful => Expects(console[v], ItemOf(reviewing[v].read, Len(trail)))
    <3> DEFINE r == [reviewing[v] EXCEPT !.pc = "writing", !.read = << >>, !.behind = Len(trail)]
    <3>1. reviewing' = [reviewing EXCEPT ![v] = r] /\ console' = console
      BY <1>3, <2>2 DEF CompareReview, FeedbackInv
    <3>2. << >> \in Seq(Verdicts)
      OBVIOUS
    <3>3. /\ r \in Reviewing /\ r.pc = "writing" /\ r.status = reviewing[v].status
          /\ r.mark = reviewing[v].mark /\ r.careful = reviewing[v].careful
      BY <1>0, <2>1, <3>2 DEF Reviewing
    <3>4. reviewing[v].careful => console[v].count = Len(trail)
      BY <2>2, ItemCounts DEF Expects
    <3> HIDE DEF r
    <3> QED BY <3>1, <3>3, <3>4, <2>1, <1>0 DEF FeedbackInv, RequestKnows
  <2>3. CASE ~ (reviewing[v].careful => Expects(console[v], ItemOf(reviewing[v].read, Len(trail))))
    <3>1. /\ reviewing' = [reviewing EXCEPT ![v] = NoReview]
          /\ console' = [console EXCEPT ![v] = NoItem]
      BY <1>3, <2>3 DEF CompareReview
    <3> QED BY <3>1, <2>1, <1>0 DEF FeedbackInv, RequestKnows
  <2> QED BY <2>2, <2>3
<1>4. ASSUME NEW v \in Reviewer, AppendReview(v) PROVE FeedbackInv'
  <2>1. /\ reviewing[v].pc = "writing"
        /\ reviewing' = [reviewing EXCEPT ![v] = NoReview]
        /\ console' = [console EXCEPT ![v] = NoItem]
    BY <1>4 DEF AppendReview
  <2>2. PICK i \in 0 .. Len(trail) :
          trail' = InsertAt(trail, i + 1, [status |-> reviewing[v].status, id |-> Len(trail) + 1])
    BY <1>4 DEF AppendReview
  <2>3. [status |-> reviewing[v].status, id |-> Len(trail) + 1] \in Verdicts
    BY <2>1, <1>0 DEF FeedbackInv, RequestKnows, Verdicts
  <2>4. trail' \in Seq(Verdicts) /\ Len(trail') = Len(trail) + 1
    BY <2>2, <2>3, Inserted DEF FeedbackInv
  <2> QED BY <2>1, <2>4, <1>0 DEF FeedbackInv, RequestKnows
<1>5. CASE UNCHANGED <<trail, console, reviewing>>
  BY <1>5 DEF FeedbackInv, RequestKnows
<1>6. \A actor, owner, source : GiveFeedback(actor, owner, source) => UNCHANGED <<trail, console, reviewing>>
  BY DEF GiveFeedback
<1>7. UNCHANGED feedbackVars => UNCHANGED <<trail, console, reviewing>>
  BY DEF feedbackVars
<1> QED BY <1>1, <1>2, <1>3, <1>4, <1>5, <1>6, <1>7 DEF FeedbackNext

\* Whatever the number of reviewers and the order in which their reviews are
\* committed, one that was compared with the console is made in the knowledge of
\* all that were there when its request began (main.py).
THEOREM ReviewsAreMadeKnowingly == FeedbackSpec => CommittedReviewsAreSeen
<1>1. FeedbackInv => \A v \in Reviewer :
        AppendReview(v) /\ reviewing[v].careful => console[v].count >= reviewing[v].mark
  BY DEF FeedbackInv, RequestKnows, AppendReview
<1>2. FeedbackInv =>
        [\A v \in Reviewer :
           AppendReview(v) /\ reviewing[v].careful => console[v].count >= reviewing[v].mark]_feedbackVars
  BY <1>1
<1> QED BY <1>2, FeedbackInitInv, FeedbackStepInv, PTL DEF FeedbackSpec, CommittedReviewsAreSeen

-----------------------------------------------------------------------------
(* Alerts and their triage: the alert that rows and events make. *)

Statuses == {"keep", "acknowledged", "investigating", "resolved", "silenced", "open"}
Alerts   == [status : Statuses, count : Nat, last : Nat, id : Nat, news : BOOLEAN]

Times == 0 .. MaxClock

\* There is a latest row.
LEMMA LatestIsThere ==
  ASSUME NEW rows \in Seq(Times), rows # << >>
  PROVE  Latest(rows) \in Times
<1> DEFINE S == {u \in Nat : \A i \in DOMAIN rows : rows[i] <= u}
<1>1. Range(rows) = {rows[i] : i \in DOMAIN rows}
  BY DEF Range
<1>2. MaxClock \in S
  BY TriageAssumption DEF Times
<1>3. PICK u \in S : \A y \in S : u <= y
  BY <1>2, LeastIsThere
<1>4. 1 \in DOMAIN rows /\ \A i \in DOMAIN rows : rows[i] \in Times /\ rows[i] \in Nat /\ rows[i] <= u
  BY TriageAssumption DEF Times
<1>5. u \in Range(rows)
  <2> SUFFICES ASSUME \A i \in DOMAIN rows : rows[i] # u PROVE FALSE
    BY <1>1
  <2>1. \A i \in DOMAIN rows : rows[i] <= u - 1
    BY <1>4
  <2>2. u - 1 \in Nat
    BY <1>4, <2>1
  <2>3. u - 1 \in S
    BY <2>1, <2>2
  <2> QED BY <1>3, <2>2, <2>3
<1>6. \A v \in Range(rows) : v <= u
  BY <1>1, <1>4
<1>7. Latest(rows) \in Range(rows)
  BY <1>5, <1>6, Zenon DEF Latest
<1> QED BY <1>1, <1>4, <1>7

\* A triage event makes an alert of an alert, and never resolves one that has a newer row.
LEMMA AppliedIsAlert ==
  ASSUME NEW a \in Alerts, NEW e \in Triage
  PROVE  /\ Applied(a, e) \in Alerts
         /\ Applied(a, e).last = a.last /\ Applied(a, e).count = a.count
         /\ Applied(a, e).news <=> a.last > e.at
         /\ Applied(a, e).status = "resolved" =>
              ~ (a.last > e.at) /\ (e.status = "resolved" \/ a.status = "resolved")
<1> DEFINE status == IF e.status = "keep" THEN a.status ELSE e.status
           final == IF a.last > e.at /\ status = "resolved" THEN "open" ELSE status
<1>1. status \in Statuses /\ final \in Statuses /\ e.id \in Nat /\ (a.last > e.at) \in BOOLEAN
  <2>1. e.status \in Statuses /\ a.status \in Statuses /\ "open" \in Statuses
    BY TriageAssumption DEF Alerts, Triage, Statuses
  <2>2. e.id \in Nat
    BY TriageAssumption DEF Triage
  <2>3. status \in Statuses
    BY <2>1
  <2>4. final \in Statuses
    BY <2>1, <2>3
  <2>5. (a.last > e.at) \in BOOLEAN
    OBVIOUS
  <2> QED BY <2>2, <2>3, <2>4, <2>5
<1>2. final = "resolved" => ~ (a.last > e.at) /\ (e.status = "resolved" \/ a.status = "resolved")
  OBVIOUS
<1>3. Applied(a, e) = [a EXCEPT !.id = e.id, !.news = a.last > e.at, !.status = final]
  BY DEF Applied
<1> HIDE DEF final, status
<1>4. /\ Applied(a, e) \in Alerts
      /\ Applied(a, e).last = a.last /\ Applied(a, e).count = a.count
      /\ Applied(a, e).status = final
  BY <1>1, <1>3 DEF Alerts
<1>5. Applied(a, e).news = (a.last > e.at)
  BY <1>1, <1>3 DEF Alerts
<1> QED BY <1>2, <1>4, <1>5

\* What the events up to one of them make of an alert.
Folds(f, rows, acts) ==
  f = [n \in 0 .. Len(acts) |-> IF n = 0 THEN OpenAlert(rows) ELSE Applied(f[n - 1], acts[n])]

\* An alert is folded from its events, one after the other.
LEMMA AlertIsFolded ==
  ASSUME NEW rows \in Seq(Times), rows # << >>, NEW acts \in Seq(Triage)
  PROVE  \E f \in [0 .. Len(acts) -> Alerts] :
           /\ f[0] = OpenAlert(rows)
           /\ \A n \in 1 .. Len(acts) : f[n] = Applied(f[n - 1], acts[n])
           /\ AlertOf(rows, acts) = f[Len(acts)]
<1> DEFINE N == Len(acts)
           step == [x \in Alerts \X (1 .. N) |-> Applied(x[1], acts[x[2]])]
           g == CHOOSE f : Folds(f, rows, acts)
<1>1. N \in Nat /\ \A n \in 1 .. N : acts[n] \in Triage
  OBVIOUS
<1>2. OpenAlert(rows) \in Alerts
  <2>1. Len(rows) \in Nat /\ Latest(rows) \in Nat
    BY LatestIsThere DEF Times
  <2> QED BY <2>1 DEF OpenAlert, Alerts, Statuses
<1>3. step \in [Alerts \X (1 .. N) -> Alerts]
  BY <1>1, AppliedIsAlert
<1>4. PICK f \in [0 .. N -> Alerts] : Recurs(f, OpenAlert(rows), step, N)
  <2> HIDE DEF step, N
  <2> QED BY <1>1, <1>2, <1>3, RecursionWorks, Zenon
<1>5. \A n \in 1 .. N : f[n] = Applied(f[n - 1], acts[n])
  <2> SUFFICES ASSUME NEW n \in 1 .. N PROVE f[n] = Applied(f[n - 1], acts[n])
    OBVIOUS
  <2>1. f[n - 1] \in Alerts
    BY <1>1
  <2> QED BY <2>1, <1>4 DEF Recurs
<1>6. Folds(f, rows, acts)
  BY <1>1, <1>4, <1>5 DEF Folds, Recurs
<1>7. Folds(g, rows, acts)
  BY <1>6, Zenon
<1>8. AlertOf(rows, acts) = g[N]
  BY DEF AlertOf, Folds
<1> HIDE DEF g
<1>9. /\ DOMAIN g = 0 .. N /\ g = [n \in 0 .. N |-> g[n]] /\ g[0] = OpenAlert(rows)
      /\ \A n \in 1 .. N : g[n] = Applied(g[n - 1], acts[n])
  BY <1>1, <1>7 DEF Folds
<1>10. 0 .. N \subseteq {n \in 0 .. N : g[n] \in Alerts}
  <2> DEFINE S == {n \in 0 .. N : g[n] \in Alerts}
  <2>1. 0 \in S
    BY <1>1, <1>2, <1>9
  <2>2. ASSUME NEW n \in 1 .. N, n - 1 \in S PROVE n \in S
    <3>1. g[n - 1] \in Alerts /\ acts[n] \in Triage /\ g[n] = Applied(g[n - 1], acts[n])
      BY <2>2, <1>1, <1>9
    <3>2. g[n] \in Alerts
      BY <3>1, AppliedIsAlert, Zenon
    <3> QED BY <3>2, <1>1
  <2> HIDE DEF S
  <2>3. 0 .. N \subseteq S
    BY <1>1, <2>1, <2>2, UpToBound
  <2> QED BY <2>3 DEF S
<1>11. g \in [0 .. N -> Alerts]
  BY <1>9, <1>10
<1> QED BY <1>8, <1>9, <1>11

\* What the folding keeps of the rows, and what it says of them after n events.
Judged(a, rows, acts, n) ==
  /\ a.last = Latest(rows) /\ a.count = Len(rows)
  /\ a.status = "resolved" => \E i \in 1 .. n : acts[i].status = "resolved" /\ acts[i].at >= a.last
  /\ (\A i \in 1 .. n : acts[i].at < a.last) => a.news \/ a.status = "open"

\* What the folded alert says of its rows and of the last event on it.
LEMMA AlertIsJudged ==
  ASSUME NEW rows \in Seq(Times), rows # << >>, NEW acts \in Seq(Triage)
  PROVE  AlertOf(rows, acts) \in Alerts /\ Judged(AlertOf(rows, acts), rows, acts, Len(acts))
<1>1. PICK f \in [0 .. Len(acts) -> Alerts] :
        /\ f[0] = OpenAlert(rows)
        /\ \A n \in 1 .. Len(acts) : f[n] = Applied(f[n - 1], acts[n])
        /\ AlertOf(rows, acts) = f[Len(acts)]
  BY AlertIsFolded
<1> DEFINE N == Len(acts)
           S == {n \in 0 .. N : Judged(f[n], rows, acts, n)}
<1>2. N \in Nat /\ \A n \in 1 .. N : acts[n] \in Triage /\ acts[n].at \in Nat
  <2>1. \A e \in Triage : e.at \in Nat
    BY TriageAssumption DEF Triage
  <2> QED BY <2>1
<1>3. 0 \in S
  BY <1>1, <1>2 DEF Judged, OpenAlert
<1>4. ASSUME NEW n \in 1 .. N, n - 1 \in S PROVE n \in S
  <2>1. /\ f[n - 1] \in Alerts /\ acts[n] \in Triage /\ f[n] = Applied(f[n - 1], acts[n])
        /\ acts[n].at \in Nat /\ n - 1 \in Nat
    BY <1>1, <1>2
  <2>2. Judged(f[n - 1], rows, acts, n - 1)
    BY <1>4
  <2>3. f[n - 1].last \in Nat
    BY <2>1 DEF Alerts
  <2> DEFINE a == f[n - 1]  e == acts[n]  b == f[n]
  <2>4. /\ b.last = a.last /\ b.count = a.count
        /\ b.news <=> a.last > e.at
        /\ b.status = "resolved" => ~ (a.last > e.at) /\ (e.status = "resolved" \/ a.status = "resolved")
    <3>1. a \in Alerts /\ e \in Triage /\ b = Applied(a, e)
      BY <2>1
    <3> HIDE DEF a, e, b
    <3> QED BY <3>1, AppliedIsAlert
  <2>5. b.last = Latest(rows) /\ b.count = Len(rows)
    BY <2>2, <2>4 DEF Judged
  <2>6. ASSUME b.status = "resolved"
        PROVE  \E i \in 1 .. n : acts[i].status = "resolved" /\ acts[i].at >= b.last
    <3>1. CASE e.status = "resolved"
      <4>1. acts[n].at >= b.last
        BY <2>1, <2>3, <2>4, <2>6
      <4> QED BY <3>1, <4>1
    <3>2. CASE a.status = "resolved"
      <4>1. PICK i \in 1 .. n - 1 : acts[i].status = "resolved" /\ acts[i].at >= a.last
        BY <3>2, <2>2 DEF Judged
      <4> QED BY <4>1, <2>4
    <3> QED BY <3>1, <3>2, <2>4, <2>6
  <2>7. ASSUME \A i \in 1 .. n : acts[i].at < b.last PROVE b.news
    <3>1. acts[n].at < b.last
      BY <2>7
    <3> QED BY <3>1, <2>1, <2>3, <2>4
  <2>8. Judged(f[n], rows, acts, n)
    BY <2>5, <2>6, <2>7 DEF Judged
  <2> QED BY <2>8
<1> HIDE DEF S
<1>5. N \in S
  <2> HIDE DEF N
  <2>1. 0 .. N \subseteq S
    BY <1>2, <1>3, <1>4, UpToBound
  <2> QED BY <2>1, <1>2
<1> QED BY <1>1, <1>2, <1>5 DEF S

\* A folded alert bears the id of the last event.
LEMMA AlertBearsId ==
  ASSUME NEW rows \in Seq(Times), rows # << >>, NEW acts \in Seq(Triage)
  PROVE  AlertOf(rows, acts).id = IF Len(acts) = 0 THEN 0 ELSE acts[Len(acts)].id
<1>1. PICK f \in [0 .. Len(acts) -> Alerts] :
        /\ f[0] = OpenAlert(rows)
        /\ \A n \in 1 .. Len(acts) : f[n] = Applied(f[n - 1], acts[n])
        /\ AlertOf(rows, acts) = f[Len(acts)]
  BY AlertIsFolded
<1>2. CASE Len(acts) = 0
  BY <1>1, <1>2 DEF OpenAlert
<1>3. CASE Len(acts) # 0
  <2>1. Len(acts) \in 1 .. Len(acts) /\ Len(acts) - 1 \in 0 .. Len(acts)
    BY <1>3
  <2> DEFINE a == f[Len(acts) - 1]  e == acts[Len(acts)]
  <2>2. a \in Alerts /\ AlertOf(rows, acts) = Applied(a, e)
    BY <2>1, <1>1
  <2> HIDE DEF a, e
  <2>3. Applied(a, e).id = e.id
    BY <2>2 DEF Applied, Alerts
  <2> QED BY <1>3, <2>2, <2>3 DEF e
<1> QED BY <1>2, <1>3

-----------------------------------------------------------------------------
(* Rows, events and requests. *)

TriageRequests == [pc : {"none", "reading", "writing"}, rows : Seq(Times), status : Asked \cup {"keep"},
             careful : BOOLEAN, at : Times, mark : Nat \X Nat]

Screens == [alert : Alerts \cup {NoAlert}, rows : Nat, events : Nat]

\* How many of n rows a read returns.
Within(n) == IF n < Window THEN n ELSE Window

\* A screen counts rows and shows an event that were there when it was read.
ScreenShows(o) ==
  LET s == screen[o] IN
  /\ s.rows <= Len(seen) /\ s.events <= Len(triage)
  /\ s.alert.count = Within(s.rows) /\ s.alert.id <= s.events
  /\ s = NoScreen \/ s.rows > 0

\* Of the first m events of q, the one called id is the last by its date.
LastIn(q, id, m) ==
  \A i \in DOMAIN q : q[i].id <= m /\ q[i].id # id =>
    \E k \in DOMAIN q : k > i /\ q[k].id = id

(***************************************************************************)
(* What a request that is under way goes by: it has read the rows there    *)
(* were, up to the window, and once it has compared what it read with the  *)
(* screen, both count as many, and the event the screen shows is the last  *)
(* of those there were; what is committed later does not come between.     *)
(***************************************************************************)
RequestGoesBy(o) ==
  LET r == request[o]  s == screen[o] IN
  r.pc # "none" =>
    /\ r.status \in Asked
    /\ s.rows <= r.mark[1] /\ r.mark[1] <= Len(seen) /\ r.mark[1] > 0
    /\ Len(r.rows) = Within(r.mark[1])
    /\ r.pc = "writing" /\ r.careful =>
         /\ r.mark[2] <= Len(triage) /\ s.alert.count = Len(r.rows)
         /\ LastIn(triage, s.alert.id, r.mark[2])

TriageInv ==
  /\ clock \in Times /\ seen \in Seq(Times) /\ triage \in Seq(Triage)
  /\ \A i \in DOMAIN triage : triage[i].id <= Len(triage)
  /\ screen \in [Operator -> Screens]
  /\ request \in [Operator -> TriageRequests]
  /\ \A o \in Operator : ScreenShows(o) /\ RequestGoesBy(o)

\* The rows a read returns.
LEMMA WindowType ==
  ASSUME NEW rows \in Seq(Times)
  PROVE  /\ Head500(rows) \in Seq(Times) /\ Tail500(rows) \in Seq(Times)
         /\ Len(Head500(rows)) = Within(Len(rows)) /\ Len(Tail500(rows)) = Within(Len(rows))
         /\ rows # << >> => Tail500(rows) # << >> /\ Len(Tail500(rows)) > 0
<1>1. Len(rows) \in Nat /\ Window \in Nat /\ Window > 0
  BY TriageAssumption
<1> DEFINE h == IF Len(rows) < Window THEN Len(rows) ELSE Window
           a == IF Len(rows) < Window THEN 1 ELSE Len(rows) - Window + 1
<1>2. h \in 0 .. Len(rows) /\ a \in 1 .. Len(rows) + 1 /\ (Len(rows) > 0 => a <= Len(rows))
  BY <1>1
<1> HIDE DEF h, a
<1>3. SubSeq(rows, 1, h) \in Seq(Times) /\ Len(SubSeq(rows, 1, h)) = h
  BY <1>1, <1>2
<1>4. /\ SubSeq(rows, a, Len(rows)) \in Seq(Times)
      /\ Len(SubSeq(rows, a, Len(rows))) = Len(rows) - a + 1
  BY <1>1, <1>2
<1>5. rows # << >> => Len(rows) > 0
  OBVIOUS
<1>6. Head500(rows) = SubSeq(rows, 1, h) /\ Tail500(rows) = SubSeq(rows, a, Len(rows))
  BY DEF Head500, Tail500, h, a
<1>7. rows # << >> => Len(SubSeq(rows, a, Len(rows))) > 0
  BY <1>1, <1>2, <1>4, <1>5
<1>8. Len(<< >>) = 0
  OBVIOUS
<1>9. h = Within(Len(rows)) /\ Len(rows) - a + 1 = Within(Len(rows))
  BY <1>1 DEF h, a, Within
<1> QED BY <1>3, <1>4, <1>6, <1>7, <1>8, <1>9

\* No request is under way, and nothing is there, at first.
LEMMA NoRequestType == TriageAssumption => NoRequest \in TriageRequests /\ NoRequest.pc = "none"
<1>1. << >> \in Seq(Times) /\ <<0, 0>> \in Nat \X Nat /\ 0 \in Times
  BY TriageAssumption DEF Times
<1> QED BY <1>1 DEF NoRequest, TriageRequests

\* A screen that shows nothing.
LEMMA NoScreenType ==
  NoScreen \in Screens /\ NoScreen.rows = 0 /\ NoScreen.events = 0
  /\ NoScreen.alert.count = 0 /\ NoScreen.alert.id = 0 /\ Within(0) = 0
BY TriageAssumption DEF NoScreen, Screens, NoAlert, Within

LEMMA TriageInitInv == TriageInit => TriageInv
<1> SUFFICES ASSUME TriageInit PROVE TriageInv
  OBVIOUS
<1>1. /\ clock \in Times /\ seen \in Seq(Times) /\ triage \in Seq(Triage)
      /\ Len(seen) = 0 /\ Len(triage) = 0 /\ DOMAIN triage = {}
  BY TriageAssumption DEF TriageInit, Times
<1>2. request = [o \in Operator |-> NoRequest] /\ screen = [o \in Operator |-> NoScreen]
  BY DEF TriageInit
<1>3. ASSUME NEW o \in Operator PROVE ScreenShows(o) /\ RequestGoesBy(o)
  BY <1>1, <1>2, NoScreenType, NoRequestType, TriageAssumption DEF ScreenShows, RequestGoesBy
<1> QED BY <1>1, <1>2, <1>3, NoRequestType, NoScreenType, TriageAssumption DEF TriageInv

\* An event is put behind those that are not dated later.
LEMMA PlacedAs ==
  ASSUME NEW e \in Triage, triage \in Seq(Triage)
  PROVE  \E i \in 0 .. Len(triage) : InsertedAs(Placed(e), Triage, triage, e, i)
<1> DEFINE S == {i \in DOMAIN triage : triage[i].at <= e.at}
<1>1. DOMAIN triage = 1 .. Len(triage) /\ Len(triage) \in Nat
  OBVIOUS
<1>2. IsFiniteSet(1 .. Len(triage)) /\ Cardinality(1 .. Len(triage)) = Len(triage)
  BY <1>1, FS_Interval
<1>3. IsFiniteSet(S) /\ Cardinality(S) <= Len(triage)
  BY <1>1, <1>2, FS_Subset
<1>4. Cardinality(S) \in 0 .. Len(triage)
  BY <1>1, <1>3, FS_CardinalityType
<1>5. Placed(e) = InsertAt(triage, Cardinality(S) + 1, e)
  BY Zenon DEF Placed, S
<1> HIDE DEF S
<1>6. InsertedAs(InsertAt(triage, Cardinality(S) + 1, e), Triage, triage, e, Cardinality(S))
  BY <1>4, InsertedPlaces, Zenon
<1> QED BY <1>4, <1>5, <1>6

\* What was last stays last of what was there, and ids count the events.
LEMMA LastStaysLast ==
  ASSUME NEW q \in Seq(Triage), NEW e \in Triage, e.id = Len(q) + 1,
         NEW n \in 0 .. Len(q), NEW t, InsertedAs(t, Triage, q, e, n),
         \A i \in DOMAIN q : q[i].id <= Len(q)
  PROVE  /\ t \in Seq(Triage) /\ Len(t) = Len(q) + 1
         /\ \A i \in DOMAIN t : t[i].id <= Len(t)
         /\ \A id \in Nat, m \in 0 .. Len(q) : LastIn(q, id, m) => LastIn(t, id, m)
<1>1. /\ t \in Seq(Triage) /\ Len(t) = Len(q) + 1 /\ t[n + 1] = e
      /\ \A a \in 1 .. n : t[a] = q[a]
      /\ \A a \in n + 1 .. Len(q) : t[a + 1] = q[a]
  BY DEF InsertedAs
<1>2. DOMAIN t = 1 .. Len(q) + 1 /\ DOMAIN q = 1 .. Len(q) /\ Len(q) \in Nat
  BY <1>1
<1>3. ASSUME NEW i \in DOMAIN t, i # n + 1
      PROVE  \E a \in DOMAIN q : t[i] = q[a] /\ (i <= n => a = i) /\ (i > n => a + 1 = i)
  <2>1. CASE i <= n
    BY <2>1, <1>1, <1>2
  <2>2. CASE i > n
    <3>1. i - 1 \in n + 1 .. Len(q) /\ (i - 1) + 1 = i
      BY <2>2, <1>2, <1>3
    <3>2. t[(i - 1) + 1] = q[i - 1]
      BY <3>1, <1>1
    <3> QED BY <3>1, <3>2, <2>2, <1>2
  <2> QED BY <2>1, <2>2, <1>2
<1>4. ASSUME NEW i \in DOMAIN t PROVE t[i].id <= Len(t)
  <2>1. CASE i = n + 1
    BY <2>1, <1>1, <1>2
  <2>2. CASE i # n + 1
    <3>1. PICK a \in DOMAIN q : t[i] = q[a]
      BY <2>2, <1>3
    <3>2. \A x \in Triage : x.id \in Nat
      BY TriageAssumption DEF Triage
    <3>3. q[a].id <= Len(q) /\ q[a].id \in Nat
      BY <3>2
    <3> QED BY <3>1, <3>3, <1>1, <1>2
  <2> QED BY <2>1, <2>2
<1>5. ASSUME NEW id \in Nat, NEW m \in 0 .. Len(q), LastIn(q, id, m),
             NEW i \in DOMAIN t, t[i].id <= m, t[i].id # id
      PROVE  \E k \in DOMAIN t : k > i /\ t[k].id = id
  <2>1. i # n + 1
    BY <1>1, <1>2, <1>5
  <2>2. PICK a \in DOMAIN q : t[i] = q[a] /\ (i <= n => a = i) /\ (i > n => a + 1 = i)
    BY <2>1, <1>3
  <2>3. PICK k \in DOMAIN q : k > a /\ q[k].id = id
    BY <2>2, <1>5 DEF LastIn
  <2>4. CASE k <= n
    BY <2>2, <2>3, <2>4, <1>1, <1>2
  <2>5. CASE k > n
    <3>1. t[k + 1] = q[k] /\ k + 1 \in DOMAIN t /\ k + 1 > i
      BY <2>2, <2>3, <2>5, <1>1, <1>2
    <3> QED BY <3>1, <2>3
  <2> QED BY <2>4, <2>5, <1>2
<1>6. \A id \in Nat, m \in 0 .. Len(q) : LastIn(q, id, m) => LastIn(t, id, m)
  BY <1>5 DEF LastIn
<1> QED BY <1>1, <1>4, <1>6

\* Rows, events and the steps of a request keep what it goes by.
LEMMA TriageStepInv == TriageInv /\ [TriageNext]_triageVars => TriageInv'
<1> SUFFICES ASSUME TriageInv, [TriageNext]_triageVars PROVE TriageInv'
  OBVIOUS
<1>0. /\ Len(seen) \in Nat /\ Len(triage) \in Nat /\ Window \in Nat \ {0}
      /\ \A o \in Operator : ScreenShows(o) /\ RequestGoesBy(o)
      /\ \A o \in Operator : request[o] \in TriageRequests /\ screen[o] \in Screens
      /\ \A o \in Operator : request[o].mark[1] \in Nat /\ request[o].mark[2] \in Nat
      /\ \A o \in Operator : screen[o].rows \in Nat /\ screen[o].events \in Nat
      /\ \A o \in Operator : screen[o].alert.id \in Nat /\ screen[o].alert.count \in Nat
  <2>1. \A a \in Alerts \cup {NoAlert} : a.id \in Nat /\ a.count \in Nat
    BY DEF Alerts, NoAlert
  <2> QED BY <2>1, TriageAssumption DEF TriageInv, TriageRequests, Screens
<1>1. ASSUME Pass PROVE TriageInv'
  <2>1. clock' \in Times /\ UNCHANGED <<seen, triage, screen, request>>
    BY <1>1, TriageAssumption DEF Pass, TriageInv, Times
  <2> QED BY <2>1 DEF TriageInv, ScreenShows, RequestGoesBy
<1>2. ASSUME NEW t \in 0 .. MaxClock, Observe(t) PROVE TriageInv'
  <2>1. seen' \in Seq(Times) /\ Len(seen') = Len(seen) + 1
    BY <1>2 DEF Observe, TriageInv, Times
  <2>2. UNCHANGED <<clock, triage, screen, request>>
    BY <1>2 DEF Observe
  <2>3. ASSUME NEW o \in Operator PROVE ScreenShows(o)' /\ RequestGoesBy(o)'
    <3>1. ScreenShows(o) /\ RequestGoesBy(o)
      BY <1>0
    <3>2. ScreenShows(o)'
      BY <3>1, <2>1, <2>2, <1>0 DEF ScreenShows
    <3>3. ASSUME request[o].pc # "none" PROVE request[o].mark[1] <= Len(seen')
      BY <3>1, <3>3, <2>1, <1>0 DEF RequestGoesBy
    <3>4. RequestGoesBy(o)'
      BY <3>1, <3>3, <2>2 DEF RequestGoesBy
    <3> QED BY <3>2, <3>4
  <2> QED BY <2>1, <2>2, <2>3 DEF TriageInv
<1>3. ASSUME NEW o \in Operator, Look(o) PROVE TriageInv'
  <2> DEFINE a == AlertOf(Tail500(seen), triage)
             s == [alert |-> a, rows |-> Len(seen), events |-> Len(triage)]
  <2>1. /\ request[o].pc = "none" /\ seen # << >> /\ UNCHANGED <<clock, seen, triage, request>>
        /\ screen' = [screen EXCEPT ![o] = s]
    BY <1>3 DEF Look
  <2>2. /\ Tail500(seen) \in Seq(Times) /\ Tail500(seen) # << >>
        /\ Len(Tail500(seen)) = Within(Len(seen)) /\ triage \in Seq(Triage)
    BY <2>1, WindowType DEF TriageInv
  <2>3. a \in Alerts /\ a.count = Within(Len(seen))
    BY <2>2, AlertIsJudged DEF Judged
  <2>4. a.id <= Len(triage)
    <3>1. a.id = IF Len(triage) = 0 THEN 0 ELSE triage[Len(triage)].id
      BY <2>2, AlertBearsId
    <3>2. Len(triage) # 0 => Len(triage) \in DOMAIN triage
      BY <1>0
    <3> QED BY <3>1, <3>2, <1>0 DEF TriageInv
  <2>5. Len(seen) > 0
    BY <2>1, <2>2 DEF TriageInv
  <2> HIDE DEF a
  <2>6. s \in Screens /\ s.rows = Len(seen) /\ s.events = Len(triage) /\ s.alert = a
    BY <2>3, <1>0 DEF Screens
  <2> HIDE DEF s
  <2>7. screen' \in [Operator -> Screens] /\ screen'[o] = s /\ \A p \in Operator \ {o} : screen'[p] = screen[p]
    BY <2>1, <2>6 DEF TriageInv
  <2>8. ScreenShows(o)' /\ RequestGoesBy(o)'
    BY <2>1, <2>3, <2>4, <2>5, <2>6, <2>7, <1>0 DEF ScreenShows, RequestGoesBy
  <2>9. ASSUME NEW p \in Operator \ {o} PROVE ScreenShows(p)' /\ RequestGoesBy(p)'
    BY <2>1, <2>7, <1>0 DEF ScreenShows, RequestGoesBy
  <2> QED BY <2>1, <2>7, <2>8, <2>9 DEF TriageInv
<1>4. ASSUME NEW o \in Operator, NEW s \in Asked, NEW careful \in BOOLEAN, SubmitTriage(o, s, careful)
      PROVE  TriageInv'
  <2> DEFINE r == [pc |-> "reading", rows |-> Head500(seen), status |-> s, careful |-> careful,
                   at |-> 0, mark |-> <<Len(seen), 0>>]
  <2>1. /\ UNCHANGED <<clock, seen, triage, screen>> /\ request' = [request EXCEPT ![o] = r]
        /\ screen[o] # NoScreen
    BY <1>4 DEF SubmitTriage
  <2>2. Head500(seen) \in Seq(Times) /\ Len(Head500(seen)) = Within(Len(seen))
    BY WindowType DEF TriageInv
  <2>3. 0 \in Times /\ <<Len(seen), 0>> \in Nat \X Nat
    BY <1>0, TriageAssumption DEF Times
  <2>4. r \in TriageRequests /\ r.pc = "reading" /\ r.status \in Asked
        /\ Len(r.rows) = Within(Len(seen)) /\ r.mark[1] = Len(seen)
    BY <2>2, <2>3 DEF TriageRequests
  <2> HIDE DEF r
  <2>5. request' \in [Operator -> TriageRequests] /\ request'[o] = r
        /\ \A p \in Operator \ {o} : request'[p] = request[p]
    BY <2>1, <2>4 DEF TriageInv
  <2>6. RequestGoesBy(o)'
    <3>1. screen[o].rows > 0 /\ screen[o].rows <= Len(seen)
      BY <2>1, <1>0 DEF ScreenShows
    <3> QED BY <3>1, <2>1, <2>4, <2>5, <1>0 DEF RequestGoesBy
  <2>7. ASSUME NEW p \in Operator \ {o} PROVE RequestGoesBy(p)'
    BY <2>1, <2>5, <1>0 DEF RequestGoesBy
  <2>8. ASSUME NEW p \in Operator PROVE ScreenShows(p)'
    BY <2>1, <1>0 DEF ScreenShows
  <2> QED BY <2>1, <2>5, <2>6, <2>7, <2>8 DEF TriageInv
<1>5. ASSUME NEW o \in Operator, Decide(o) PROVE TriageInv'
  <2>1. request[o].pc = "reading" /\ UNCHANGED <<clock, seen, triage>>
    BY <1>5 DEF Decide
  <2> DEFINE now == AlertOf(request[o].rows, triage)
  <2>2. CASE request[o].careful => Matches(screen[o].alert, now)
    <3> DEFINE r == [request[o] EXCEPT !.pc = "writing", !.at = clock,
                                       !.mark = <<request[o].mark[1], Len(triage)>>]
    <3>1. request' = [request EXCEPT ![o] = r] /\ screen' = screen
      BY <1>5, <2>2, <1>0 DEF Decide, TriageInv
    <3>2. /\ r \in TriageRequests /\ r.pc = "writing" /\ r.status = request[o].status
          /\ r.rows = request[o].rows /\ r.careful = request[o].careful
          /\ r.mark[1] = request[o].mark[1] /\ r.mark[2] = Len(triage)
      BY <1>0 DEF TriageRequests, TriageInv
    <3> HIDE DEF r
    <3>3. request' \in [Operator -> TriageRequests] /\ request'[o] = r
          /\ \A p \in Operator \ {o} : request'[p] = request[p]
      BY <3>1, <3>2 DEF TriageInv
    <3>4. ASSUME request[o].careful
          PROVE  screen[o].alert.count = Len(request[o].rows) /\ LastIn(triage, screen[o].alert.id, Len(triage))
      <4>1. /\ request[o].rows \in Seq(Times) /\ triage \in Seq(Triage)
            /\ Len(request[o].rows) = Within(request[o].mark[1]) /\ request[o].mark[1] > 0
        BY <2>1, <1>0 DEF RequestGoesBy, TriageInv, TriageRequests
      <4>2. Len(request[o].rows) > 0 /\ request[o].rows # << >>
        <5>1. Len(request[o].rows) > 0
          BY <4>1, <1>0 DEF Within
        <5> QED BY <5>1
      <4>3. screen[o].alert = now
        BY <2>2, <3>4 DEF Matches
      <4>4. now.count = Len(request[o].rows)
        BY <4>1, <4>2, AlertIsJudged DEF Judged
      <4>5. now.id = IF Len(triage) = 0 THEN 0 ELSE triage[Len(triage)].id
        BY <4>1, <4>2, AlertBearsId
      <4> HIDE DEF now
      <4>6. DOMAIN triage = 1 .. Len(triage)
        BY <4>1
      <4>7. LastIn(triage, now.id, Len(triage))
        BY <4>5, <4>6, <1>0 DEF LastIn
      <4> QED BY <4>3, <4>4, <4>7
    <3>5. RequestGoesBy(o)'
      BY <3>1, <3>2, <3>3, <3>4, <2>1, <1>0 DEF RequestGoesBy
    <3>6. ASSUME NEW p \in Operator \ {o} PROVE RequestGoesBy(p)'
      BY <3>1, <3>3, <2>1, <1>0 DEF RequestGoesBy
    <3>7. ASSUME NEW p \in Operator PROVE ScreenShows(p)'
      BY <3>1, <2>1, <1>0 DEF ScreenShows
    <3> QED BY <3>1, <3>3, <3>5, <3>6, <3>7, <2>1 DEF TriageInv
  <2>3. CASE ~ (request[o].careful => Matches(screen[o].alert, now))
    <3>1. request' = [request EXCEPT ![o] = NoRequest] /\ screen' = [screen EXCEPT ![o] = NoScreen]
      BY <1>5, <2>3 DEF Decide
    <3>2. /\ request' \in [Operator -> TriageRequests] /\ request'[o].pc = "none"
          /\ screen' \in [Operator -> Screens] /\ screen'[o] = NoScreen
          /\ \A p \in Operator \ {o} : request'[p] = request[p] /\ screen'[p] = screen[p]
      BY <3>1, NoRequestType, NoScreenType, TriageAssumption DEF TriageInv
    <3>3. ScreenShows(o)' /\ RequestGoesBy(o)'
      BY <3>2, <2>1, <1>0, NoScreenType DEF ScreenShows, RequestGoesBy
    <3>4. ASSUME NEW p \in Operator \ {o} PROVE ScreenShows(p)' /\ RequestGoesBy(p)'
      BY <3>2, <2>1, <1>0 DEF ScreenShows, RequestGoesBy
    <3> QED BY <3>2, <3>3, <3>4, <2>1 DEF TriageInv
  <2> QED BY <2>2, <2>3
<1>6. ASSUME NEW o \in Operator, WriteTriage(o) PROVE TriageInv'
  <2> DEFINE e == [status |-> request[o].status, at |-> request[o].at, id |-> Len(triage) + 1]
  <2>1. /\ request[o].pc = "writing" /\ Len(triage) < MaxTriage /\ triage' = Placed(e)
        /\ request' = [request EXCEPT ![o] = NoRequest] /\ screen' = [screen EXCEPT ![o] = NoScreen]
        /\ UNCHANGED <<clock, seen>>
    BY <1>6 DEF WriteTriage
  <2>2. e \in Triage /\ e.id = Len(triage) + 1
    <3>1. request[o].status \in Asked
      BY <2>1, <1>0 DEF RequestGoesBy
    <3>2. request[o].at \in 0 .. MaxClock
      BY <1>0 DEF TriageRequests, Times
    <3>3. Len(triage) + 1 \in 1 .. MaxTriage
      BY <2>1, <1>0, TriageAssumption
    <3> QED BY <3>1, <3>2, <3>3 DEF Triage
  <2> HIDE DEF e
  <2>3. triage \in Seq(Triage) /\ \A i \in DOMAIN triage : triage[i].id <= Len(triage)
    BY DEF TriageInv
  <2>4. PICK n \in 0 .. Len(triage) : InsertedAs(triage', Triage, triage, e, n)
    BY <2>1, <2>2, <2>3, PlacedAs
  <2>5. /\ triage' \in Seq(Triage) /\ Len(triage') = Len(triage) + 1
        /\ \A i \in DOMAIN triage' : triage'[i].id <= Len(triage')
        /\ \A id \in Nat, m \in 0 .. Len(triage) : LastIn(triage, id, m) => LastIn(triage', id, m)
    BY <2>2, <2>3, <2>4, LastStaysLast
  <2>6. /\ request' \in [Operator -> TriageRequests] /\ request'[o].pc = "none"
        /\ screen' \in [Operator -> Screens] /\ screen'[o] = NoScreen
        /\ \A p \in Operator \ {o} : request'[p] = request[p] /\ screen'[p] = screen[p]
    BY <2>1, NoRequestType, NoScreenType, TriageAssumption DEF TriageInv
  <2>7. ScreenShows(o)' /\ RequestGoesBy(o)'
    BY <2>5, <2>6, <2>1, <1>0, NoScreenType DEF ScreenShows, RequestGoesBy
  <2>8. ASSUME NEW p \in Operator \ {o} PROVE ScreenShows(p)' /\ RequestGoesBy(p)'
    <3>1. ScreenShows(p) /\ RequestGoesBy(p)
      BY <1>0
    <3>2. ScreenShows(p)'
      BY <3>1, <2>1, <2>5, <2>6, <1>0 DEF ScreenShows
    <3>3. RequestGoesBy(p)'
      BY <3>1, <2>1, <2>5, <2>6, <1>0 DEF RequestGoesBy
    <3> QED BY <3>2, <3>3
  <2> QED BY <2>1, <2>5, <2>6, <2>7, <2>8 DEF TriageInv
<1>7. CASE UNCHANGED triageVars
  BY <1>7 DEF triageVars, TriageInv, ScreenShows, RequestGoesBy
<1> QED BY <1>1, <1>2, <1>3, <1>4, <1>5, <1>6, <1>7 DEF TriageNext

\* It holds in every state.
LEMMA TriageAlways == TriageSpec => []TriageInv
<1> QED BY TriageInitInv, TriageStepInv, PTL DEF TriageSpec

\* For any window, any times and any order in which rows and events come, an
\* alert is shown as resolved only on an event later than its rows, and one with
\* later rows asks for attention (monitor.py, triage.py).
THEOREM NewRowsAreNotHidden == TriageSpec => []NothingNewIsHidden
<1>1. TriageInv => NothingNewIsHidden
  <2> SUFFICES ASSUME TriageInv, seen # << >>
               PROVE  /\ Shown.status = "resolved" =>
                           \E i \in DOMAIN triage : triage[i].status = "resolved" /\ triage[i].at >= Shown.last
                      /\ (\A i \in DOMAIN triage : triage[i].at < Shown.last) =>
                           Attention(Shown) /\ Health(Shown, TRUE) = "critical"
    BY DEF NothingNewIsHidden
  <2>1. /\ triage \in Seq(Triage) /\ DOMAIN triage = 1 .. Len(triage)
        /\ Tail500(seen) \in Seq(Times) /\ Tail500(seen) # << >> /\ Len(Tail500(seen)) > 0
    BY WindowType DEF TriageInv
  <2>2. Judged(Shown, Tail500(seen), triage, Len(triage)) /\ Shown \in Alerts
    BY <2>1, AlertIsJudged DEF Shown
  <2>3. Shown.count = Len(Tail500(seen)) /\ NoAlert.count = 0
    BY <2>2 DEF Judged, NoAlert
  <2>4. Shown # NoAlert
    BY <2>1, <2>3
  <2>5. (\A i \in DOMAIN triage : triage[i].at < Shown.last) => Attention(Shown)
    BY <2>1, <2>2 DEF Judged, Attention, Active
  <2> QED BY <2>1, <2>2, <2>4, <2>5 DEF Judged, Health
<1> QED BY <1>1, TriageAlways, PTL

\* For any window, any number of operators and any order of rows and events, an
\* operator who sends what the console showed has seen every row there was when
\* the request read them, and the last of the events (main.py).
THEOREM TriageIsNotBlind == TriageSpec => NoBlindTriage
<1>1. ASSUME TriageInv, NEW o \in Operator, WriteTriage(o), request[o].careful,
             request[o].mark[1] <= Window
      PROVE  /\ request[o].mark[1] = screen[o].rows
             /\ \A i \in DOMAIN triage :
                  triage[i].id \in screen[o].events + 1 .. request[o].mark[2] =>
                    \E k \in DOMAIN triage : k > i /\ triage[k].id <= screen[o].events
  <2> DEFINE r == request[o]  s == screen[o]
  <2>1. /\ s.rows <= r.mark[1] /\ Len(r.rows) = Within(r.mark[1]) /\ s.alert.count = Len(r.rows)
        /\ LastIn(triage, s.alert.id, r.mark[2])
    BY <1>1 DEF TriageInv, RequestGoesBy, WriteTriage
  <2>2. s.alert.count = Within(s.rows) /\ s.alert.id <= s.events
    BY <1>1 DEF TriageInv, ScreenShows
  <2>3. r \in TriageRequests /\ s \in Screens
    BY <1>1 DEF TriageInv
  <2>4. /\ Window \in Nat /\ r.mark[1] \in Nat /\ r.mark[2] \in Nat /\ s.rows \in Nat
        /\ s.events \in Nat /\ s.alert.id \in Nat
    <3>1. \A a \in Alerts \cup {NoAlert} : a.id \in Nat
      BY DEF Alerts, NoAlert
    <3> QED BY <3>1, <2>3, TriageAssumption DEF TriageRequests, Screens
  <2>5. r.mark[1] = s.rows
    BY <2>1, <2>2, <2>4, <1>1 DEF Within
  <2>6. ASSUME NEW i \in DOMAIN triage, triage[i].id \in s.events + 1 .. r.mark[2]
        PROVE  \E k \in DOMAIN triage : k > i /\ triage[k].id <= s.events
    <3>1. triage[i].id <= r.mark[2] /\ triage[i].id # s.alert.id
      BY <2>2, <2>4, <2>6
    <3>2. PICK k \in DOMAIN triage : k > i /\ triage[k].id = s.alert.id
      BY <3>1, <2>1 DEF LastIn
    <3> QED BY <3>2, <2>2
  <2> QED BY <2>5, <2>6
<1>2. TriageInv /\ [TriageNext]_triageVars =>
        [\A o \in Operator :
           WriteTriage(o) /\ request[o].careful /\ request[o].mark[1] <= Window =>
             /\ request[o].mark[1] = screen[o].rows
             /\ \A i \in DOMAIN triage :
                  triage[i].id \in screen[o].events + 1 .. request[o].mark[2] =>
                    \E k \in DOMAIN triage : k > i /\ triage[k].id <= screen[o].events]_triageVars
  BY <1>1
<1> QED BY <1>2, TriageAlways, PTL DEF NoBlindTriage, TriageSpec
=============================================================================
