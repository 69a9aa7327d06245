-------------------------- MODULE ReleaseGate_proofs --------------------------
(***************************************************************************)
(* Proofs about a release: the staging eval gate (EvalGate), for any runs  *)
(* of any length that overlap; the promotion gate (PromotionGate), for any *)
(* actors, preflights, requests and evidence; the plan and the report an   *)
(* operator reads beside it (OperationsPlan), for any sayings of the       *)
(* sources. EvalInv says that an aggregate is final: the records it was    *)
(* computed from are all there and no further one is added. PromotionInv   *)
(* says what a decision request may rely on while it reads: a source it has *)
(* read already and that has been blocked throughout was blocked in its     *)
(* reading.                                                                *)
(* OperationsInv says that a reading is what its source said at some       *)
(* moment of the request, and that the answer follows the rules from the   *)
(* readings.                                                               *)
(***************************************************************************)
EXTENDS EvalGate, PromotionGate, OperationsPlan, FiniteSetTheorems, TLAPS

USE EvalAssumption

-----------------------------------------------------------------------------
(* The eval gate. *)

EvalInv ==
  /\ EvalTypeOK
  /\ \A i \in DOMAIN aggregates :
       /\ Len(suites[aggregates[i].run]) = Suites
       /\ aggregates[i].status = AggregateOf(suites[aggregates[i].run])

\* No run has records or an aggregate at first.
LEMMA EvalInitInv == EvalInit => EvalInv
BY DEF EvalInit, EvalInv, EvalTypeOK

\* A suite is only added to a run that lacks suites, and such a run has no
\* aggregate; an aggregate is computed from a run that lacks none.
LEMMA EvalStepInv == EvalInv /\ [EvalNext]_evalVars => EvalInv'
<1> SUFFICES ASSUME EvalInv, [EvalNext]_evalVars PROVE EvalInv'
  OBVIOUS
<1> USE DEF EvalInv, EvalTypeOK
<1>1. ASSUME NEW g \in GateRun, NEW status \in Outcome, RunSuite(g, status) PROVE EvalInv'
  <2>1. EvalTypeOK'
    BY <1>1 DEF RunSuite
  <2>2. ASSUME NEW i \in DOMAIN aggregates PROVE aggregates[i].run # g
    BY <1>1 DEF RunSuite
  <2> QED BY <1>1, <2>1, <2>2 DEF RunSuite
<1>2. ASSUME NEW g \in GateRun, Aggregate(g) PROVE EvalInv'
  <2>1. AggregateOf(suites[g]) \in Outcome
    BY DEF AggregateOf, Outcome
  <2>2. EvalTypeOK'
    BY <1>2, <2>1 DEF Aggregate
  <2> QED BY <1>2, <2>2 DEF Aggregate
<1>3. ASSUME NEW g \in GateRun, Drop(g) PROVE EvalInv'
  BY <1>3 DEF Drop
<1>4. CASE UNCHANGED evalVars
  BY <1>4 DEF evalVars
<1> QED BY <1>1, <1>2, <1>3, <1>4 DEF EvalNext

\* Every element of a sequence is of the set it is a sequence of.
LEMMA Elements ==
  ASSUME NEW S, NEW q \in Seq(S)
  PROVE  DOMAIN q = 1 .. Len(q) /\ Len(q) \in Nat /\ \A k \in DOMAIN q : q[k] \in S
OBVIOUS

\* A sequence that grows by an element of the set is one of that set.
LEMMA Grown ==
  ASSUME NEW S, NEW q \in Seq(S), NEW e \in S
  PROVE  /\ Append(q, e) \in Seq(S) /\ Len(Append(q, e)) = Len(q) + 1
         /\ Append(q, e)[Len(q) + 1] = e
         /\ \A i \in 1 .. Len(q) : Append(q, e)[i] = q[i]
OBVIOUS

\* The records of a run with a passed aggregate have no other status left.
LEMMA AllPassed == EvalInv => PassedMeansAllPassed
<1> SUFFICES ASSUME EvalInv, NEW i \in DOMAIN aggregates, aggregates[i].status = "passed"
             PROVE  suites[aggregates[i].run] = [j \in 1 .. Suites |-> "passed"]
  BY DEF PassedMeansAllPassed
<1> DEFINE s == suites[aggregates[i].run]
<1>1. s \in Seq(Outcome) /\ Len(s) = Suites
  <2>1. aggregates \in Seq([run : GateRun, status : Outcome])
    BY DEF EvalInv, EvalTypeOK
  <2>2. aggregates[i] \in [run : GateRun, status : Outcome]
    BY <2>1, Elements
  <2> QED BY <2>2 DEF EvalInv, EvalTypeOK
<1>2. AggregateOf(s) = "passed"
  BY DEF EvalInv
<1>3. \A j \in 1 .. Suites : s[j] = "passed"
  BY <1>1, <1>2 DEF AggregateOf, Outcome
<1> QED BY <1>1, <1>3

\* The gate that promotions rely on is passed only by a run all of whose
\* suites ran and passed (main.py:4356).
THEOREM OnlyCompleteRunsPass == EvalSpec => []PassedMeansAllPassed
<1>1. EvalSpec => []EvalInv
  BY EvalInitInv, EvalStepInv, PTL DEF EvalSpec
<1> QED BY <1>1, AllPassed, PTL

-----------------------------------------------------------------------------
(* The promotion gate. *)

\* What a request r may rely on, when the sources b are blocked.
Relies(r, b) ==
  /\ r.preflight \in Preflight /\ r.decision \in Decisions
  /\ r.blocked \subseteq b
  /\ \A i \in 1 .. Len(r.read) :
       GateChecks[i] \in r.blocked => CheckOf(GateChecks[i], r.read[i]) = "blocked"

Sound(r, b) ==
  /\ Len(r.read) <= 5
  /\ r.pc = "preflight" => r.preflight \in Preflight /\ r.actor \in Actor
  /\ r.pc = "decision" => Relies(r, b)

PromotionInv ==
  /\ PromotionTypeOK
  /\ \A q \in GateRequest : Sound(gateRequests[q], BlockedNow)

\* The gate has five checks, one for each source.
LEMMA FiveChecks ==
  /\ DOMAIN GateChecks = 1 .. 5 /\ Len(GateChecks) = 5
  /\ \A i \in 1 .. 5 : GateChecks[i] \in EvidenceSource
BY DEF GateChecks, EvidenceSource

\* A request that has not begun has read nothing.
LEMMA NoneRequested == NoGateRequest \in Requested /\ NoGateRequest.read = << >>
BY DEF NoGateRequest, Requested

\* Nothing is requested or recorded at first.
LEMMA PromotionInitInv == PromotionInit => PromotionInv
<1> SUFFICES ASSUME PromotionInit PROVE PromotionInv
  OBVIOUS
<1>1. evidence \in [EvidenceSource -> AnyReading]
  BY DEF PromotionInit, AnyReading
<1> QED BY <1>1, NoneRequested, PromotionAssumption
        DEF PromotionInit, PromotionInv, PromotionTypeOK, NoGateRequest, Sound

\* When one request moves, the others rely on what they relied on.
LEMMA OneMoves ==
  ASSUME PromotionInv, PromotionTypeOK', BlockedNow' = BlockedNow,
         NEW q \in GateRequest, Sound(gateRequests'[q], BlockedNow),
         \A p \in GateRequest \ {q} : gateRequests'[p] = gateRequests[p]
  PROVE  PromotionInv'
<1> SUFFICES ASSUME NEW p \in GateRequest, p # q PROVE Sound(gateRequests[p], BlockedNow)
  BY DEF PromotionInv
<1>1. Sound(gateRequests[p], BlockedNow) /\ gateRequests[p] \in Requested
  BY DEF PromotionInv, PromotionTypeOK
<1> QED BY <1>1

\* A request that has not begun becomes r.
LEMMA BeginInv ==
  ASSUME PromotionInv, NEW q \in GateRequest, NEW r \in Requested, BeginRequest(q, r),
         Sound(r, BlockedNow)
  PROVE  PromotionInv'
<1>1. PromotionTypeOK'
  BY DEF PromotionInv, PromotionTypeOK, BeginRequest
<1>2. gateRequests'[q] = r /\ \A p \in GateRequest \ {q} : gateRequests'[p] = gateRequests[p]
  BY DEF BeginRequest, PromotionInv, PromotionTypeOK
<1>3. BlockedNow' = BlockedNow /\ decisions' = decisions
  BY DEF BeginRequest, BlockedNow
<1> QED BY <1>1, <1>2, <1>3, OneMoves

\* A request that ends relies on nothing.
LEMMA EndInv ==
  ASSUME PromotionInv, NEW q \in GateRequest, EndRequest(q), UNCHANGED <<evidence, changes, expired>>,
         preflights' \in [Preflight -> {NoPreflight} \cup [actor : Actor, gate : [EvidenceSource -> AnyReading]]],
         decisions' \in Seq(Recorded)
  PROVE  PromotionInv'
<1> DEFINE r == [NoGateRequest EXCEPT !.pc = "done"]
<1>1. r \in Requested /\ Sound(r, BlockedNow)
  <2>1. r \in Requested /\ r.pc = "done" /\ r.read = << >>
    BY NoneRequested DEF Requested
  <2> QED BY <2>1 DEF Sound
<1>2. gateRequests' = [gateRequests EXCEPT ![q] = r]
  BY DEF EndRequest
<1> HIDE DEF r
<1>3. gateRequests'[q] = r /\ \A p \in GateRequest \ {q} : gateRequests'[p] = gateRequests[p]
  BY <1>2 DEF PromotionInv, PromotionTypeOK
<1>4. PromotionTypeOK'
  BY <1>1, <1>2 DEF PromotionInv, PromotionTypeOK
<1>5. BlockedNow' = BlockedNow
  BY DEF BlockedNow
<1> QED BY <1>1, <1>3, <1>4, <1>5, OneMoves

\* Evidence changes: the requests keep the sources still blocked.
LEMMA ChangeInv ==
  ASSUME PromotionInv, NEW s \in EvidenceSource, NEW reading \in Readings[s], ChangeEvidence(s, reading)
  PROVE  PromotionInv'
<1> USE DEF PromotionInv, PromotionTypeOK
<1>1. ASSUME NEW q \in GateRequest
      PROVE  /\ gateRequests'[q] = [gateRequests[q] EXCEPT !.blocked = @ \cap BlockedNow']
             /\ gateRequests'[q] \in Requested
             /\ Sound(gateRequests'[q], BlockedNow')
  <2>1. gateRequests'[q] = [gateRequests[q] EXCEPT !.blocked = @ \cap BlockedNow']
    BY DEF ChangeEvidence, StillBlocked
  <2>2. gateRequests[q] \in Requested /\ Sound(gateRequests[q], BlockedNow)
    OBVIOUS
  <2>3. gateRequests'[q] \in Requested
    BY <2>1, <2>2 DEF Requested
  <2>4. Sound(gateRequests'[q], BlockedNow')
    BY <2>1, <2>2 DEF Sound, Relies, Requested
  <2> QED BY <2>1, <2>3, <2>4
<1>2. gateRequests' \in [GateRequest -> Requested]
  BY <1>1 DEF ChangeEvidence, StillBlocked
<1>3. reading \in AnyReading
  BY DEF AnyReading
<1>4. PromotionTypeOK'
  BY <1>2, <1>3, PromotionAssumption DEF ChangeEvidence
<1> QED BY <1>1, <1>4 DEF ChangeEvidence

\* The check that was read is the one the sources still blocked would give.
LEMMA ReadInv ==
  ASSUME PromotionInv, NEW q \in GateRequest, ReadSource(q)
  PROVE  PromotionInv'
<1> DEFINE r == gateRequests[q]  v == evidence[AtSource(q)]
           n == [r EXCEPT !.read = Append(@, v)]
<1>1. r \in Requested /\ Sound(r, BlockedNow) /\ r.pc \in {"preflight", "decision"}
  BY DEF PromotionInv, PromotionTypeOK, ReadSource
<1>2. r.read \in Seq(AnyReading)
  BY <1>1 DEF Requested
<1>len. Len(r.read) \in 0 .. 4 /\ Len(r.read) + 1 \in 1 .. 5
  <2>1. Len(r.read) < 5
    BY FiveChecks DEF ReadSource
  <2>2. Len(r.read) \in Nat
    BY <1>2, Elements
  <2> DEFINE k == Len(r.read)
  <2> HIDE DEF k
  <2>3. k < 5 /\ k \in Nat
    BY <2>1, <2>2 DEF k
  <2>4. k \in 0 .. 4 /\ k + 1 \in 1 .. 5
    BY <2>3
  <2> QED BY <2>4 DEF k
<1>3. AtSource(q) = GateChecks[Len(r.read) + 1] /\ AtSource(q) \in EvidenceSource /\ v \in AnyReading
  <2>1. AtSource(q) = GateChecks[Len(r.read) + 1]
    BY DEF AtSource
  <2>2. AtSource(q) \in EvidenceSource
    BY <1>len, <2>1, FiveChecks
  <2> QED BY <2>1, <2>2 DEF PromotionInv, PromotionTypeOK
<1>4. /\ Append(r.read, v) \in Seq(AnyReading) /\ Len(Append(r.read, v)) = Len(r.read) + 1
      /\ Append(r.read, v)[Len(r.read) + 1] = v
      /\ \A i \in 1 .. Len(r.read) : Append(r.read, v)[i] = r.read[i]
  BY <1>2, <1>3, Grown
<1>5. gateRequests' = [gateRequests EXCEPT ![q] = n]
  BY DEF ReadSource
<1>6. n \in Requested /\ n.read = Append(r.read, v) /\ n.pc = r.pc /\ n.preflight = r.preflight
      /\ n.decision = r.decision /\ n.blocked = r.blocked /\ n.actor = r.actor
  BY <1>1, <1>4 DEF Requested
<1>7. ASSUME r.pc = "decision" PROVE Relies(n, BlockedNow)
  <2>1. Relies(r, BlockedNow)
    BY <1>1, <1>7 DEF Sound
  <2>2. ASSUME NEW i \in 1 .. Len(n.read), GateChecks[i] \in n.blocked
        PROVE  CheckOf(GateChecks[i], n.read[i]) = "blocked"
    <3>1. CASE i \in 1 .. Len(r.read)
      BY <3>1, <2>1, <2>2, <1>4, <1>6 DEF Relies
    <3>2. CASE i = Len(r.read) + 1
      BY <3>2, <2>1, <2>2, <1>3, <1>4, <1>6 DEF Relies, BlockedNow
    <3> QED BY <3>1, <3>2, <1>len, <1>4, <1>6
  <2> QED BY <2>1, <2>2, <1>6 DEF Relies
<1>8. Sound(n, BlockedNow)
  <2>1. Len(n.read) <= 5
    <3> HIDE DEF n, r
    <3> QED BY <1>len, <1>4, <1>6
  <2> QED BY <1>1, <1>6, <1>7, <2>1 DEF Sound
<1> HIDE DEF n
<1>9. /\ gateRequests'[q] = n /\ \A p \in GateRequest \ {q} : gateRequests'[p] = gateRequests[p]
      /\ PromotionTypeOK'
  BY <1>5, <1>6 DEF PromotionInv, PromotionTypeOK, ReadSource
<1>10. BlockedNow' = BlockedNow /\ decisions' = decisions
  BY DEF ReadSource, BlockedNow
<1> QED BY <1>8, <1>9, <1>10, OneMoves

\* A request that has read all its sources has a gate of them.
LEMMA GateRead ==
  ASSUME PromotionInv, NEW q \in GateRequest, AllRead(q)
  PROVE  /\ GateOf(q) \in [EvidenceSource -> AnyReading]
         /\ \A s \in EvidenceSource : \E i \in 1 .. 5 : GateChecks[i] = s /\ GateOf(q)[s] = gateRequests[q].read[i]
<1>1. gateRequests[q].read \in Seq(AnyReading) /\ Len(gateRequests[q].read) = 5
  BY FiveChecks DEF PromotionInv, PromotionTypeOK, Requested, AllRead
<1>2. \A i \in 1 .. 5 : gateRequests[q].read[i] \in AnyReading
  BY <1>1, Elements
<1>3. ASSUME NEW s \in EvidenceSource
      PROVE  LET i == CHOOSE i \in DOMAIN GateChecks : GateChecks[i] = s
             IN  i \in 1 .. 5 /\ GateChecks[i] = s
  BY FiveChecks DEF EvidenceSource
<1> QED BY <1>2, <1>3 DEF GateOf

\* Every step of the gate keeps the invariant.
LEMMA PromotionStepInv == PromotionInv /\ [PromotionNext]_promotionVars => PromotionInv'
<1> SUFFICES ASSUME PromotionInv, [PromotionNext]_promotionVars PROVE PromotionInv'
  OBVIOUS
<1>1. ASSUME NEW s \in EvidenceSource, NEW reading \in Readings[s], ChangeEvidence(s, reading)
      PROVE  PromotionInv'
  BY <1>1, ChangeInv
<1>2. ASSUME NEW p \in Preflight, ExpirePreflight(p) PROVE PromotionInv'
  BY <1>2 DEF ExpirePreflight, PromotionInv, PromotionTypeOK, BlockedNow
<1>3. ASSUME NEW q \in GateRequest, NEW a \in Actor, NEW p \in Preflight, StartPreflight(q, a, p)
      PROVE  PromotionInv'
  <2> DEFINE r == [NoGateRequest EXCEPT !.pc = "preflight", !.actor = a, !.preflight = p]
  <2>1. r \in Requested /\ Sound(r, BlockedNow)
    <3>1. r \in Requested /\ r.pc = "preflight" /\ r.read = << >> /\ r.actor = a /\ r.preflight = p
      BY NoneRequested DEF Requested
    <3> QED BY <3>1 DEF Sound
  <2>2. BeginRequest(q, r)
    BY <1>3 DEF StartPreflight
  <2> QED BY <2>1, <2>2, BeginInv
<1>4. ASSUME NEW q \in GateRequest, NEW a \in Actor, NEW p \in Preflight,
             NEW d \in Decisions, NEW override \in BOOLEAN, StartDecision(q, a, p, d, override)
      PROVE  PromotionInv'
  <2> DEFINE r == [NoGateRequest EXCEPT !.pc = "decision", !.actor = a, !.preflight = p, !.decision = d,
                                        !.override = override, !.blocked = BlockedNow]
  <2>1. BlockedNow \subseteq EvidenceSource
    BY DEF BlockedNow
  <2>2. /\ r.pc = "decision" /\ r.read = << >> /\ r.preflight = p /\ r.decision = d
        /\ r.blocked = BlockedNow
    BY NoneRequested DEF Requested
  <2>3. r \in Requested
    BY <2>1, NoneRequested DEF Requested
  <2>5. BeginRequest(q, r)
    BY <1>4 DEF StartDecision
  <2> HIDE DEF r
  <2>6. Sound(r, BlockedNow)
    <3>1. Relies(r, BlockedNow)
      BY <2>1, <2>2 DEF Relies
    <3> QED BY <2>2, <3>1 DEF Sound
  <2> QED BY <2>3, <2>5, <2>6, BeginInv
<1>5. ASSUME NEW q \in GateRequest, ReadSource(q) PROVE PromotionInv'
  BY <1>5, ReadInv
<1>6. ASSUME NEW q \in GateRequest, RecordPreflight(q) PROVE PromotionInv'
  <2>1. gateRequests[q].preflight \in Preflight /\ gateRequests[q].actor \in Actor
    BY <1>6 DEF RecordPreflight, PromotionInv, Sound
  <2>2. GateOf(q) \in [EvidenceSource -> AnyReading]
    BY <1>6, GateRead DEF RecordPreflight
  <2>3. preflights' \in [Preflight -> {NoPreflight} \cup [actor : Actor, gate : [EvidenceSource -> AnyReading]]]
    BY <1>6, <2>1, <2>2 DEF RecordPreflight, PromotionInv, PromotionTypeOK
  <2> QED BY <1>6, <2>3, EndInv DEF RecordPreflight, PromotionInv, PromotionTypeOK
<1>7. ASSUME NEW q \in GateRequest, RecordDecision(q) PROVE PromotionInv'
  <2> DEFINE e == [preflight |-> gateRequests[q].preflight, decision |-> gateRequests[q].decision,
                   override |-> gateRequests[q].override]
  <2>1. e \in Recorded
    BY <1>7 DEF RecordDecision, PromotionInv, PromotionTypeOK, Sound, Relies, Requested, Recorded
  <2>2. decisions' = decisions \/ decisions' = Append(decisions, e)
    BY <1>7 DEF RecordDecision
  <2> HIDE DEF e
  <2>3. decisions' \in Seq(Recorded)
    <3>1. decisions \in Seq(Recorded)
      BY DEF PromotionInv, PromotionTypeOK
    <3> QED BY <2>1, <2>2, <3>1, Grown
  <2> QED BY <1>7, <2>2, <2>3, EndInv DEF RecordDecision, PromotionInv, PromotionTypeOK
<1>8. ASSUME NEW q \in GateRequest, FailGateRequest(q) PROVE PromotionInv'
  BY <1>8, EndInv DEF FailGateRequest, PromotionInv, PromotionTypeOK
<1>9. CASE UNCHANGED promotionVars
  BY <1>9 DEF promotionVars, PromotionInv, PromotionTypeOK, BlockedNow
<1> QED
  BY <1>1, <1>2, <1>3, <1>4, <1>5, <1>6, <1>7, <1>8, <1>9 DEF PromotionNext, Decisions

\* A decision is only added by the request that ends with it.
LEMMA WhoDecides ==
  ASSUME PromotionInv, [PromotionNext]_promotionVars, NEW q \in GateRequest, decisions' # decisions,
         gateRequests[q].pc = "decision", gateRequests'[q].pc = "done"
  PROVE  RecordDecision(q) /\ StillAgrees(q)
<1>1. PICK p \in GateRequest : RecordDecision(p)
  BY DEF PromotionNext, promotionVars, ChangeEvidence, ExpirePreflight, StartPreflight, StartDecision,
         BeginRequest, ReadSource, RecordPreflight, FailGateRequest
<1>2. p = q
  BY <1>1 DEF RecordDecision, EndRequest, PromotionInv, PromotionTypeOK
<1> QED BY <1>1, <1>2 DEF RecordDecision

\* A gate that still agrees with its preflight and is approved without an
\* override is not blocked, so that no source it read was.
LEMMA NotBlockedStep ==
  PromotionInv /\ [PromotionNext]_promotionVars =>
    \A q \in GateRequest :
      /\ decisions' # decisions /\ gateRequests[q].pc = "decision" /\ gateRequests'[q].pc = "done"
      /\ gateRequests[q].decision = "approved" /\ ~ gateRequests[q].override
      => gateRequests[q].blocked = {}
<1> SUFFICES ASSUME PromotionInv, [PromotionNext]_promotionVars, NEW q \in GateRequest, decisions' # decisions,
                    gateRequests[q].pc = "decision", gateRequests'[q].pc = "done",
                    gateRequests[q].decision = "approved", ~ gateRequests[q].override,
                    NEW s \in gateRequests[q].blocked
             PROVE  FALSE
  OBVIOUS
<1>1. AllRead(q) /\ StillAgrees(q)
  BY WhoDecides DEF RecordDecision
<1>2. Relies(gateRequests[q], BlockedNow) /\ s \in EvidenceSource
  BY DEF PromotionInv, Sound, Relies, BlockedNow
<1>3. PICK i \in 1 .. 5 : GateChecks[i] = s /\ GateOf(q)[s] = gateRequests[q].read[i]
  BY <1>1, <1>2, GateRead
<1>4. i \in 1 .. Len(gateRequests[q].read)
  BY <1>1, FiveChecks DEF AllRead
<1>5. CheckOf(s, GateOf(q)[s]) = "blocked"
  BY <1>2, <1>3, <1>4 DEF Relies
<1>6. StatusOf(GateOf(q)) = "blocked"
  BY <1>2, <1>5 DEF StatusOf
<1> QED BY <1>1, <1>6 DEF StillAgrees

\* The gate's records keep their types.
THEOREM PromotionTypeCorrect == PromotionSpec => []PromotionTypeOK
<1>1. PromotionInv => PromotionTypeOK
  BY DEF PromotionInv
<1> QED BY <1>1, PromotionInitInv, PromotionStepInv, PTL DEF PromotionSpec

\* Nothing is approved without an override while a source is blocked
\* throughout (main.py:5800), whatever the sources say and when they change.
THEOREM ApprovalsAreNotBlocked == PromotionSpec => NoApprovalWhileBlocked
<1>1. PromotionSpec => []PromotionInv
  BY PromotionInitInv, PromotionStepInv, PTL DEF PromotionSpec
<1> QED BY <1>1, NotBlockedStep, PTL DEF PromotionSpec, NoApprovalWhileBlocked

-----------------------------------------------------------------------------
(* The operations plan and the report. *)

Executed == [{"completed", "failed", "rejected"} -> Nat]
Anything == (UNION {Saying[s] : s \in OpsSource}) \cup Executed

ReportShape ==
  report = [pc |-> report.pc, kind |-> report.kind, read |-> report.read,
            seen |-> report.seen, plan |-> report.plan, status |-> report.status]

(***************************************************************************)
(* What a request has read is what its sources said at some moment since   *)
(* it began, each in its place, and what they say now is known.            *)
(***************************************************************************)
ReadWasSaid ==
  /\ report.kind \in {"plan", "slo"}
  /\ report.kind = "slo" => report.plan = {}
  /\ report.seen = [s \in OpsSource |-> report.seen[s]]
  /\ \A s \in OpsSource : report.seen[s] \subseteq Saying[s]
  /\ report.read \in Seq(Anything) /\ Len(report.read) <= Len(RouteOf(report.kind))
  /\ \A i \in 1 .. Len(report.read) :
       RouteOf(report.kind)[i] \in OpsSource => report.read[i] \in report.seen[RouteOf(report.kind)[i]]

AnswerIsOfReadings ==
  /\ Len(report.read) = Len(RouteOf(report.kind))
  /\ report.kind = "plan" => report.plan = PlanFor(report.read)
  /\ report.kind = "slo"  => report.status = ReportStatus(Objectives(report.read))

OperationsInv ==
  /\ signals = [s \in OpsSource |-> signals[s]]
  /\ \A s \in OpsSource : signals[s] \in Saying[s]
  /\ ledger \in Executed
  /\ ReportShape /\ report.pc \in {"idle", "reading", "answered"}
  /\ report.pc # "idle" => ReadWasSaid
  /\ report.pc = "reading" => \A s \in OpsSource : signals[s] \in report.seen[s]
  /\ report.pc = "answered" => AnswerIsOfReadings

-----------------------------------------------------------------------------
\* The checks of the gate and the sources the two requests read, in their order.
LEMMA Sources ==
  /\ GateChecks = <<"readiness", "monitor_alerts", "tool_audit", "feedback", "staging_eval_gate">>
  /\ DOMAIN GateChecks = 1 .. 5
  /\ OpsSource = {"readiness", "monitor_alerts", "tool_audit", "feedback", "staging_eval_gate",
                  "outbox", "workers"}
  /\ "ledger" \notin OpsSource
<1>1. DOMAIN GateChecks = 1 .. 5
  BY DEF GateChecks
<1>2. \A x \in EvidenceSource : x \in {"readiness", "monitor_alerts", "tool_audit", "feedback", "staging_eval_gate"}
  BY <1>1 DEF EvidenceSource, GateChecks
<1>3. /\ GateChecks[1] \in EvidenceSource /\ GateChecks[2] \in EvidenceSource /\ GateChecks[3] \in EvidenceSource
      /\ GateChecks[4] \in EvidenceSource /\ GateChecks[5] \in EvidenceSource
  BY <1>1 DEF EvidenceSource
<1>4. EvidenceSource = {"readiness", "monitor_alerts", "tool_audit", "feedback", "staging_eval_gate"}
  BY <1>2, <1>3 DEF GateChecks
<1> QED BY <1>1, <1>4 DEF OpsSource, GateChecks

\* The places of the two routes.
LEMMA Routes ==
  /\ Len(PlanRoute) = 8 /\ Len(ReportRoute) = 9
  /\ \A i \in 1 .. 5 : PlanRoute[i] = GateChecks[i] /\ ReportRoute[i] = GateChecks[i]
  /\ PlanRoute[6] = "monitor_alerts" /\ PlanRoute[7] = "outbox" /\ PlanRoute[8] = "outbox"
  /\ ReportRoute[6] = "outbox" /\ ReportRoute[7] = "workers" /\ ReportRoute[8] = "ledger"
  /\ ReportRoute[9] = "outbox"
BY DEF PlanRoute, ReportRoute, GateChecks

\* A route reads sources and the ledger.
LEMMA RoutesType ==
  ASSUME NEW kind \in {"plan", "slo"}, NEW i \in 1 .. Len(RouteOf(kind))
  PROVE  RouteOf(kind)[i] \in OpsSource \cup {"ledger"}
<1>1. CASE kind = "plan"
  <2>1. i \in 1 .. 8 /\ RouteOf(kind) = PlanRoute
    BY <1>1, Routes DEF RouteOf
  <2>2. i \in 1 .. 5 \/ i = 6 \/ i = 7 \/ i = 8
    BY <2>1
  <2> QED BY <2>1, <2>2, Routes, Sources
<1>2. CASE kind = "slo"
  <2>1. i \in 1 .. 9 /\ RouteOf(kind) = ReportRoute
    BY <1>2, Routes DEF RouteOf
  <2>2. i \in 1 .. 5 \/ i = 6 \/ i = 7 \/ i = 8 \/ i = 9
    BY <2>1
  <2> QED BY <2>1, <2>2, Routes, Sources
<1> QED BY <1>1, <1>2

\* A request that has not begun has read nothing.
LEMMA OperationsInitInv == OperationsInit => OperationsInv
<1> SUFFICES ASSUME OperationsInit PROVE OperationsInv
  OBVIOUS
<1>1. PICK troubles \in SUBSET OpsSource :
        \E said \in [troubles -> UNION {Saying[s] : s \in troubles}] :
          /\ \A s \in troubles : said[s] \in Saying[s]
          /\ signals = [s \in OpsSource |-> IF s \in troubles THEN said[s] ELSE Calm[s]]
  BY DEF OperationsInit
<1>2. \A s \in OpsSource : signals[s] \in Saying[s]
  BY <1>1, OperationsAssumption
<1>3. signals = [s \in OpsSource |-> signals[s]]
  BY <1>1
<1>4. ledger \in Executed
  BY DEF OperationsInit, Executed
<1>5. ReportShape /\ report.pc = "idle"
  BY DEF OperationsInit, IdleReport, ReportShape
<1> QED BY <1>2, <1>3, <1>4, <1>5 DEF OperationsInv

\* A reading is what its source says then; an answer is made from all of them.
LEMMA OperationsStepInv == OperationsInv /\ [OperationsNext]_operationsVars => OperationsInv'
<1> SUFFICES ASSUME OperationsInv, [OperationsNext]_operationsVars PROVE OperationsInv'
  OBVIOUS
<1>0. ReportShape
  BY DEF OperationsInv
<1>1. ASSUME NEW s \in OpsSource, NEW reading \in Saying[s], Shift(s, reading) PROVE OperationsInv'
  <2> DEFINE seen == [report.seen EXCEPT ![s] = @ \cup {reading}]
  <2>1. /\ report.pc = "reading" /\ ReadWasSaid /\ ledger' = ledger
        /\ signals' = [signals EXCEPT ![s] = reading]
        /\ report' = [report EXCEPT !.seen = seen]
    BY <1>1 DEF Shift, OperationsInv
  <2>2. /\ seen = [x \in OpsSource |-> seen[x]]
        /\ seen[s] = report.seen[s] \cup {reading}
        /\ \A x \in OpsSource \ {s} : seen[x] = report.seen[x]
    BY <2>1 DEF ReadWasSaid
  <2> HIDE DEF seen
  <2>3. /\ ReportShape' /\ report'.pc = "reading" /\ report'.seen = seen
        /\ report'.kind = report.kind /\ report'.read = report.read /\ report'.plan = report.plan
    BY <2>1, <1>0 DEF ReportShape
  <2>4. /\ signals' = [x \in OpsSource |-> signals'[x]]
        /\ signals'[s] = reading /\ \A x \in OpsSource \ {s} : signals'[x] = signals[x]
    BY <2>1 DEF OperationsInv
  <2>5. ReadWasSaid'
    BY <2>1, <2>2, <2>3 DEF ReadWasSaid
  <2>6. \A x \in OpsSource : signals'[x] \in Saying[x] /\ signals'[x] \in seen[x]
    BY <2>1, <2>2, <2>4 DEF OperationsInv
  <2> QED BY <2>1, <2>3, <2>4, <2>5, <2>6 DEF OperationsInv
<1>2. ASSUME NEW kind \in {"plan", "slo"}, BeginReport(kind) PROVE OperationsInv'
  <2>1. /\ report' = [IdleReport EXCEPT !.pc = "reading", !.kind = kind,
                                        !.seen = [s \in OpsSource |-> {signals[s]}]]
        /\ UNCHANGED <<signals, shifts, ledger>>
    BY <1>2 DEF BeginReport
  <2>2. /\ ReportShape' /\ report'.pc = "reading" /\ report'.kind = kind /\ report'.read = << >> /\ report'.plan = {}
        /\ report'.seen = [s \in OpsSource |-> {signals[s]}]
    BY <2>1 DEF IdleReport, ReportShape
  <2>3. << >> \in Seq(Anything) /\ Len(<< >>) = 0 /\ Len(RouteOf(kind)) \in Nat
    BY Routes DEF RouteOf
  <2>4. ReadWasSaid'
    BY <2>2, <2>3 DEF ReadWasSaid, OperationsInv
  <2> QED BY <2>1, <2>2, <2>4 DEF OperationsInv
<1>3. ASSUME ReadNext PROVE OperationsInv'
  <2> DEFINE route == RouteOf(report.kind)
             s == route[Len(report.read) + 1]
             r == IF s = "ledger" THEN ledger ELSE signals[s]
  <2>1. /\ report.pc = "reading" /\ Len(report.read) < Len(route)
        /\ report' = [report EXCEPT !.read = Append(report.read, r)]
        /\ UNCHANGED <<signals, shifts, ledger>> /\ ReadWasSaid
    BY <1>3 DEF ReadNext, OperationsInv
  <2>2. Len(report.read) \in Nat /\ report.read \in Seq(Anything) /\ Len(route) \in Nat
    BY <2>1, Routes DEF ReadWasSaid, RouteOf
  <2>3. s \in OpsSource \cup {"ledger"}
    BY <2>1, <2>2, RoutesType DEF ReadWasSaid
  <2>4. r \in Anything /\ (s \in OpsSource => r \in report.seen[s])
    BY <2>1, <2>3, Sources DEF OperationsInv, Anything
  <2> HIDE DEF r
  <2>5. /\ Append(report.read, r) \in Seq(Anything) /\ Len(Append(report.read, r)) = Len(report.read) + 1
        /\ Append(report.read, r)[Len(report.read) + 1] = r
        /\ \A i \in 1 .. Len(report.read) : Append(report.read, r)[i] = report.read[i]
    BY <2>2, <2>4
  <2>6. /\ ReportShape' /\ report'.pc = "reading" /\ report'.kind = report.kind
        /\ report'.read = Append(report.read, r) /\ report'.seen = report.seen /\ report'.plan = report.plan
    BY <2>1, <1>0 DEF ReportShape
  <2>7. Len(report'.read) <= Len(RouteOf(report'.kind))
    BY <2>1, <2>2, <2>5, <2>6
  <2>8. ASSUME NEW i \in 1 .. Len(report'.read), route[i] \in OpsSource
        PROVE  report'.read[i] \in report'.seen[route[i]]
    <3>1. CASE i = Len(report.read) + 1
      BY <3>1, <2>4, <2>5, <2>6, <2>8
    <3>2. CASE i \in 1 .. Len(report.read)
      BY <3>2, <2>1, <2>5, <2>6, <2>8 DEF ReadWasSaid
    <3> QED BY <3>1, <3>2, <2>2, <2>5, <2>6
  <2>9. ReadWasSaid'
    BY <2>1, <2>5, <2>6, <2>7, <2>8 DEF ReadWasSaid
  <2> QED BY <2>1, <2>6, <2>9 DEF OperationsInv
<1>4. ASSUME AnswerPlan PROVE OperationsInv'
  <2>1. /\ report.pc = "reading" /\ report.kind = "plan" /\ ReadWasSaid
        /\ Len(report.read) = Len(RouteOf(report.kind))
        /\ report' = [report EXCEPT !.pc = "answered", !.plan = PlanFor(report.read)]
        /\ UNCHANGED <<signals, shifts, ledger>>
    BY <1>4 DEF AnswerPlan, AllReported, OperationsInv
  <2>2. /\ ReportShape' /\ report'.pc = "answered" /\ report'.kind = report.kind
        /\ report'.read = report.read /\ report'.seen = report.seen
        /\ report'.plan = PlanFor(report.read)
    BY <2>1, <1>0 DEF ReportShape
  <2> QED BY <2>1, <2>2 DEF OperationsInv, ReadWasSaid, AnswerIsOfReadings
<1>5. ASSUME AnswerReport PROVE OperationsInv'
  <2>1. /\ report.pc = "reading" /\ report.kind = "slo" /\ ReadWasSaid
        /\ Len(report.read) = Len(RouteOf(report.kind))
        /\ report' = [report EXCEPT !.pc = "answered", !.status = ReportStatus(Objectives(report.read))]
        /\ UNCHANGED <<signals, shifts, ledger>>
    BY <1>5 DEF AnswerReport, AllReported, OperationsInv
  <2>2. /\ ReportShape' /\ report'.pc = "answered" /\ report'.kind = report.kind
        /\ report'.read = report.read /\ report'.seen = report.seen
        /\ report'.status = ReportStatus(Objectives(report.read)) /\ report'.plan = report.plan
    BY <2>1, <1>0 DEF ReportShape
  <2> QED BY <2>1, <2>2 DEF OperationsInv, ReadWasSaid, AnswerIsOfReadings
<1>6. ASSUME NEW status \in {"completed", "failed", "rejected"}, RecordExecution(status) PROVE OperationsInv'
  <2>1. ledger' \in Executed /\ UNCHANGED <<signals, report>>
    BY <1>6 DEF RecordExecution, OperationsInv, Executed
  <2> QED BY <2>1 DEF OperationsInv, ReportShape, ReadWasSaid, AnswerIsOfReadings
<1>7. CASE UNCHANGED operationsVars
  BY <1>7 DEF operationsVars, OperationsInv, ReportShape, ReadWasSaid, AnswerIsOfReadings
<1> QED BY <1>1, <1>2, <1>3, <1>4, <1>5, <1>6, <1>7 DEF OperationsNext

\* It holds in every state.
LEMMA OperationsAlways == OperationsSpec => []OperationsInv
<1> QED BY OperationsInitInv, OperationsStepInv, PTL DEF OperationsSpec

-----------------------------------------------------------------------------
(* What an answer was made from. *)

\* Every reading is one that its source gave, and of the type of that source.
LEMMA WereSaid ==
  ASSUME OperationsInv, report.pc = "answered", NEW i \in 1 .. Len(RouteOf(report.kind)),
         RouteOf(report.kind)[i] \in OpsSource
  PROVE  /\ report.read[i] \in report.seen[RouteOf(report.kind)[i]]
         /\ report.read[i] \in AnySaying[RouteOf(report.kind)[i]]
BY OperationsAssumption DEF OperationsInv, AnswerIsOfReadings, ReadWasSaid

\* The gate finds in the readings what its sources said.
LEMMA GateReadings ==
  ASSUME OperationsInv, report.pc = "answered"
  PROVE  /\ report.read[2] \in report.seen["monitor_alerts"] /\ report.read[2] \in AnySaying["monitor_alerts"]
         /\ report.read[3] \in report.seen["tool_audit"] /\ report.read[3] \in AnySaying["tool_audit"]
         /\ report.read[4] \in report.seen["feedback"] /\ report.read[4] \in AnySaying["feedback"]
         /\ report.read[5] \in report.seen["staging_eval_gate"] /\ report.read[5] \in AnySaying["staging_eval_gate"]
<1>1. report.kind \in {"plan", "slo"}
  BY DEF OperationsInv, ReadWasSaid
<1>2. \A i \in 1 .. 5 : i \in 1 .. Len(RouteOf(report.kind)) /\ RouteOf(report.kind)[i] = GateChecks[i]
  <2>1. RouteOf(report.kind) = PlanRoute \/ RouteOf(report.kind) = ReportRoute
    BY <1>1 DEF RouteOf
  <2>2. \A i \in 1 .. 5 : i \in 1 .. 8 /\ i \in 1 .. 9
    OBVIOUS
  <2>3. CASE RouteOf(report.kind) = PlanRoute
    BY <2>2, <2>3, Routes
  <2>4. CASE RouteOf(report.kind) = ReportRoute
    BY <2>2, <2>4, Routes
  <2> QED BY <2>1, <2>3, <2>4
<1>3. \A i \in 1 .. 5 : /\ report.read[i] \in report.seen[GateChecks[i]]
                        /\ report.read[i] \in AnySaying[GateChecks[i]]
  <2> SUFFICES ASSUME NEW i \in 1 .. 5
               PROVE /\ report.read[i] \in report.seen[GateChecks[i]]
                     /\ report.read[i] \in AnySaying[GateChecks[i]]
    OBVIOUS
  <2>1. GateChecks[i] \in OpsSource
    BY Sources DEF OpsSource, EvidenceSource
  <2> QED BY <1>2, <2>1, WereSaid
<1> QED BY <1>3, Sources

\* Places are finitely many, and counted as many as there are.
LEMMA Counts ==
  ASSUME NEW m \in AnySaying["monitor_alerts"], NEW P \in SUBSET DOMAIN m.alerts
  PROVE  IsFiniteSet(P) /\ Cardinality(P) \in Nat /\ (Cardinality(P) > 0 <=> P # {})
<1>1. m.alerts \in Seq(AlertRow)
  BY DEF AnySaying
<1>2. Len(m.alerts) \in Nat /\ DOMAIN m.alerts = 1 .. Len(m.alerts)
  BY <1>1
<1>3. IsFiniteSet(P) /\ Cardinality(P) \in Nat
  <2>1. IsFiniteSet(1 .. Len(m.alerts))
    <3>1. 1 \in Int /\ Len(m.alerts) \in Int
      BY <1>2
    <3> QED BY <3>1, FS_Interval, Zenon
  <2>2. IsFiniteSet(P)
    BY <1>2, <2>1, FS_Subset, Zenon
  <2> QED BY <2>2, FS_CardinalityType, Zenon
<1>4. Cardinality(P) = 0 <=> P = {}
  BY <1>3, FS_EmptySet
<1> QED BY <1>3, <1>4

\* The alerts are counted, and a P0 or P1 that is counted is there.
LEMMA CountsOfAlerts ==
  ASSUME NEW m \in AnySaying["monitor_alerts"]
  PROVE  /\ ActiveP0P1(m) \in Nat /\ ActiveAlerts(m) \in Nat
         /\ ActiveP0P1(m) > 0 => PressingP0P1(m) # {}
<1> DEFINE P == {i \in DOMAIN m.alerts : m.alerts[i].active /\ IsP0P1(m.alerts[i])}
           A == {i \in DOMAIN m.alerts : m.alerts[i].active}
<1>1. ActiveP0P1(m) = Cardinality(P) /\ ActiveAlerts(m) = Cardinality(A)
  BY DEF ActiveP0P1, ActiveAlerts, CountOf, Places
<1>2. Cardinality(P) \in Nat /\ (Cardinality(P) > 0 <=> P # {}) /\ Cardinality(A) \in Nat
  BY Counts
<1>3. P \subseteq PressingP0P1(m)
  BY DEF PressingP0P1, Pressing, Places, NeedsAttention
<1> HIDE DEF P, A
<1> QED BY <1>1, <1>2, <1>3

-----------------------------------------------------------------------------
(* The report and the gate. *)

\* The first place of a check in the route of the report is its place in the gate.
LEMMA FirstRead ==
  ASSUME NEW read, NEW i \in 1 .. 5
  PROVE  At(ReportRoute, read, GateChecks[i]) = read[i]
<1> DEFINE First(j) == ReportRoute[j] = GateChecks[i] /\ \A k \in 1 .. j - 1 : ReportRoute[k] # GateChecks[i]
<1>1. DOMAIN ReportRoute = 1 .. 9
  BY DEF ReportRoute, GateChecks
<1>2. \A j, k \in 1 .. 5 : GateChecks[j] = GateChecks[k] => j = k
  BY DEF GateChecks
<1>3. First(i)
  <2>1. \A k \in 1 .. i - 1 : k \in 1 .. 5 /\ k # i
    OBVIOUS
  <2> QED BY <1>2, <2>1, Routes
<1>4. \A j \in 1 .. 9 : First(j) => j = i
  <2> SUFFICES ASSUME NEW j \in 1 .. 9, First(j), j # i PROVE FALSE
    OBVIOUS
  <2>1. ~ (i \in 1 .. j - 1)
    BY Routes
  <2>2. j \in 1 .. 5 /\ j < i
    BY <2>1
  <2> QED BY <1>2, <2>2, Routes
<1>5. At(ReportRoute, read, GateChecks[i]) = read[CHOOSE j \in 1 .. 9 : First(j)]
  BY <1>1 DEF At
<1> HIDE DEF First
<1>6. (CHOOSE j \in 1 .. 9 : First(j)) = i
  BY <1>3, <1>4
<1> QED BY <1>5, <1>6

\* The objectives of a report.
LEMMA FourObjectives ==
  ASSUME NEW read
  PROVE  LET o == Objectives(read) IN
    /\ o["active_p0p1_alerts"] = MaximumCount(ActiveP0P1(read[2]), MaxP0P1)
    /\ o["tool_failure_rate"] = MaximumRate(read[3].rate, MaxFailureRate, read[3].calls, MinToolCalls)
    /\ o["feedback_negative_rate"] = MaximumRate(read[4].rate, MaxNegativeRate, read[4].count, MinFeedback)
    /\ o["staging_eval_gate"] = FreshEval(read[5])
    /\ {"active_p0p1_alerts", "tool_failure_rate", "feedback_negative_rate", "staging_eval_gate"} \subseteq DOMAIN o
<1>1. /\ At(ReportRoute, read, "monitor_alerts") = read[2] /\ At(ReportRoute, read, "tool_audit") = read[3]
      /\ At(ReportRoute, read, "feedback") = read[4] /\ At(ReportRoute, read, "staging_eval_gate") = read[5]
  BY FirstRead, Sources
<1> QED BY <1>1 DEF Objectives

\* An objective is breached where its check blocks.
LEMMA BreachedIfBlocked ==
  ASSUME NEW read,
         read[2] \in AnySaying["monitor_alerts"], read[3] \in AnySaying["tool_audit"],
         read[4] \in AnySaying["feedback"], read[5] \in AnySaying["staging_eval_gate"],
         NEW i \in 2 .. 5
  PROVE  LET blocks == GateStatus(GateChecks[i], read[i]) = "blocked"
             said   == Objectives(read)[ObjectiveOf[i]]
         IN /\ ObjectiveOf[i] \in DOMAIN Objectives(read)
            /\ said = "breached" <=> blocks /\ ~ (i = 5 /\ read[5].status = "none")
            /\ blocks /\ i = 5 /\ read[5].status = "none" => said = "no_data"
<1> DEFINE o == Objectives(read)
<1>0. /\ o["active_p0p1_alerts"] = MaximumCount(ActiveP0P1(read[2]), MaxP0P1)
      /\ o["tool_failure_rate"] = MaximumRate(read[3].rate, MaxFailureRate, read[3].calls, MinToolCalls)
      /\ o["feedback_negative_rate"] = MaximumRate(read[4].rate, MaxNegativeRate, read[4].count, MinFeedback)
      /\ o["staging_eval_gate"] = FreshEval(read[5])
      /\ "active_p0p1_alerts" \in DOMAIN o /\ "tool_failure_rate" \in DOMAIN o
      /\ "feedback_negative_rate" \in DOMAIN o /\ "staging_eval_gate" \in DOMAIN o
  BY FourObjectives
<1> HIDE DEF o
<1>00. /\ ObjectiveOf[2] = "active_p0p1_alerts" /\ ObjectiveOf[3] = "tool_failure_rate"
       /\ ObjectiveOf[4] = "feedback_negative_rate" /\ ObjectiveOf[5] = "staging_eval_gate"
  BY DEF ObjectiveOf
<1>1. CASE i = 2
  <2>1. PICK n \in Nat : n = ActiveP0P1(read[2])
    BY CountsOfAlerts
  <2>2. GateStatus(GateChecks[2], read[2]) = "blocked" <=> n > 0
    BY <2>1, Sources DEF GateStatus, CheckOf, AlertCheck, AlertCounts, MaxP0P1
  <2>3. o["active_p0p1_alerts"] = "breached" <=> n > 0
    BY <1>0, <2>1 DEF MaximumCount, Budget, MaxP0P1
  <2> QED BY <1>0, <1>00, <1>1, <2>2, <2>3 DEF o
<1>2. CASE i = 3
  <2>1. PICK n \in Nat, r \in Nat : read[3].calls = n /\ read[3].rate = r
    BY DEF AnySaying
  <2>2. GateStatus(GateChecks[3], read[3]) = "blocked" <=> n >= 1 /\ r > 5
    BY <2>1, Sources DEF GateStatus, CheckOf, ToolCheck, MinToolCalls, MaxFailureRate
  <2>3. o["tool_failure_rate"] = "breached" <=> n >= 1 /\ r > 5
    BY <1>0, <2>1 DEF MaximumRate, Budget, MinToolCalls, MaxFailureRate
  <2> QED BY <1>0, <1>00, <1>2, <2>2, <2>3 DEF o
<1>3. CASE i = 4
  <2>1. PICK n \in Nat, r \in Nat : read[4].count = n /\ read[4].rate = r
    BY DEF AnySaying
  <2>2. GateStatus(GateChecks[4], read[4]) = "blocked" <=> n >= 5 /\ r > 40
    BY <2>1, Sources DEF GateStatus, CheckOf, FeedbackCheck, MinFeedback, MaxNegativeRate
  <2>3. o["feedback_negative_rate"] = "breached" <=> n >= 5 /\ r > 40
    BY <1>0, <2>1 DEF MaximumRate, Budget, MinFeedback, MaxNegativeRate
  <2> QED BY <1>0, <1>00, <1>3, <2>2, <2>3 DEF o
<1>4. CASE i = 5
  <2>1. GateStatus(GateChecks[5], read[5]) = "blocked" <=> read[5].status # "passed"
    BY Sources DEF GateStatus, CheckOf, EvalCheck
  <2>2. /\ o["staging_eval_gate"] = "breached" <=> read[5].status \notin {"none", "passed"}
        /\ read[5].status = "none" => o["staging_eval_gate"] = "no_data"
    <3>1. PICK status \in {"none", "passed", "failed", "error"}, old \in BOOLEAN : read[5].status = status /\ (read[5].old <=> old)
      BY DEF AnySaying
    <3>2. o["staging_eval_gate"] = IF status = "none" THEN "no_data" ELSE IF status # "passed" THEN "breached"
                                   ELSE IF old THEN "at_risk" ELSE "met"
      <4>1. CASE status = "none"
        BY <1>0, <3>1, <4>1 DEF FreshEval
      <4>2. CASE status # "none" /\ status # "passed"
        BY <1>0, <3>1, <4>2 DEF FreshEval
      <4>3. CASE status = "passed"
        BY <1>0, <3>1, <4>3 DEF FreshEval
      <4> QED BY <4>1, <4>2, <4>3
    <3> QED BY <3>1, <3>2
  <2> QED BY <1>0, <1>00, <1>4, <2>1, <2>2 DEF o
<1> QED BY <1>1, <1>2, <1>3, <1>4

\* A report with an objective that is breached or has no data is not healthy.
LEMMA NotHealthy ==
  ASSUME NEW objectives, NEW o \in DOMAIN objectives, objectives[o] \in {"breached", "no_data"}
  PROVE  ReportStatus(objectives) # "healthy"
<1> DEFINE said == {objectives[x] : x \in DOMAIN objectives}
<1>1. "breached" \in said \/ "no_data" \in said
  OBVIOUS
<1>2. ReportStatus(objectives) =
        IF said = {"no_data"} THEN "unknown"
        ELSE IF "breached" \in said THEN "breached"
        ELSE IF said \cap {"at_risk", "no_data"} # {} THEN "watch" ELSE "healthy"
  BY DEF ReportStatus
<1> HIDE DEF said
<1> QED BY <1>1, <1>2

\* An answer that was made from its readings agrees with the gate on them.
LEMMA AgreementHolds == OperationsInv => ReportAgreesWithGate
<1> SUFFICES ASSUME OperationsInv, report.pc = "answered", report.kind = "slo"
             PROVE  ReportAgreesWithGate
  BY DEF ReportAgreesWithGate
<1> DEFINE read      == report.read
           Blocks(i) == GateStatus(GateChecks[i], read[i]) = "blocked"
           Said(i)   == Objectives(read)[ObjectiveOf[i]]
           neverRan  == read[5].status = "none"
<1>1. \A i \in 2 .. 5 :
        /\ ObjectiveOf[i] \in DOMAIN Objectives(read)
        /\ Said(i) = "breached" <=> Blocks(i) /\ ~ (i = 5 /\ neverRan)
        /\ Blocks(i) /\ i = 5 /\ neverRan => Said(i) = "no_data"
  BY GateReadings, BreachedIfBlocked
<1>2. ASSUME NEW i \in 2 .. 5, Blocks(i) PROVE report.status # "healthy"
  <2>1. report.status = ReportStatus(Objectives(read))
    BY DEF OperationsInv, AnswerIsOfReadings
  <2>2. Said(i) \in {"breached", "no_data"} /\ ObjectiveOf[i] \in DOMAIN Objectives(read)
    <3> HIDE DEF Said, Blocks, neverRan, read
    <3> QED BY <1>1, <1>2
  <2> QED BY <2>1, <2>2, NotHealthy
<1>3. /\ \A i \in 2 .. 4 : Said(i) = "breached" <=> Blocks(i)
      /\ Said(5) = "breached" <=> Blocks(5) /\ ~ neverRan
  <2> HIDE DEF Said, Blocks, neverRan, read
  <2> QED BY <1>1
<1> QED BY <1>2, <1>3 DEF ReportAgreesWithGate

(***************************************************************************)
(* The report and the gate agree whatever their sources say, for alerts,   *)
(* calls and votes of any number: the budgets of main.py:1124 breach where *)
(* the comparisons of the gate block.                                      *)
(***************************************************************************)
THEOREM ReportsAgree == OperationsSpec => []ReportAgreesWithGate
<1> QED BY OperationsAlways, AgreementHolds, PTL

-----------------------------------------------------------------------------
(* The plan. *)

\* The action proposed for the first of some alerts, if there are any.
LEMMA Proposed ==
  ASSUME NEW m, NEW places, NEW kind, NEW safe
  PROVE  /\ places = {} => ForFirst(m, places, kind, safe) = {}
         /\ places # {} => ForFirst(m, places, kind, safe) # {}
         /\ \A act \in ForFirst(m, places, kind, safe) : act.kind = kind
<1>1. CASE places = {}
  BY <1>1 DEF ForFirst, Actions
<1>2. CASE places # {}
  <2>1. ForFirst(m, places, kind, safe) = {Act(kind, m.alerts[FirstPlace(places)].severity, safe)}
    BY <1>2 DEF ForFirst, Actions
  <2>2. Act(kind, m.alerts[FirstPlace(places)].severity, safe).kind = kind
    BY DEF Act
  <2> QED BY <1>2, <2>1, <2>2
<1> QED BY <1>1, <1>2

\* Everything that is proposed.
ActsOf(read) ==
  LET gate == GateStatusOf(read) IN
  Notify(read[6], read[7]) \cup Triages(read[6]) \cup Deliveries(read[7], read[8]) \cup Incident(read[6])
  \cup Promotion(gate, read[6]) \cup StagingEval(read[5], gate) \cup Quality(read[3], read[4], read[6])

\* The plan is the acts of its areas, or that no action is required.
LEMMA PlanOfActs ==
  ASSUME NEW read
  PROVE  /\ ActsOf(read) \subseteq PlanFor(read)
         /\ \A act \in PlanFor(read) : act \in ActsOf(read) \/ act.kind = "no_action_required"
         /\ NoActionRequired \in PlanFor(read) /\ NoActionRequired \notin ActsOf(read) => ActsOf(read) = {}
<1>1. PlanFor(read) = IF ActsOf(read) = {} THEN {NoActionRequired} ELSE ActsOf(read)
  BY DEF PlanFor, ActsOf
<1>2. NoActionRequired.kind = "no_action_required"
  BY DEF NoActionRequired, Act
<1> QED BY <1>1, <1>2

\* The kinds of the actions of each part of the plan.
LEMMA KindsOfActs ==
  ASSUME NEW read
  PROVE  /\ \A act \in Notify(read[6], read[7]) : act.kind \in {"dispatch_alert_deliveries", "configure_alert_webhook"}
         /\ \A act \in Triages(read[6]) :
              act.kind \in {"assign_triage_owner", "retriage_recurring_alert", "investigate_stale_alert"}
         /\ \A act \in Deliveries(read[7], read[8]) :
              act.kind \in {"requeue_dead_delivery", "inspect_missing_alert_receipts"}
         /\ \A act \in Incident(read[6]) : act.kind \in {"generate_incident_brief", "create_regression_draft"}
         /\ \A status : \A act \in Promotion(status, read[6]) :
              act.kind \in {"block_promotion", "review_promotion_gate"}
         /\ \A status : \A act \in StagingEval(read[5], status) : act.kind = "run_staging_eval"
         /\ \A act \in Quality(read[3], read[4], read[6]) :
              act.kind \in {"inspect_tool_audit", "review_feedback", "run_retrieval_diagnostics"}
<1>2. \A act \in Notify(read[6], read[7]) : act.kind \in {"dispatch_alert_deliveries", "configure_alert_webhook"}
  BY DEF Notify, ForFirst, Actions, Act
<1>3. \A act \in Triages(read[6]) :
        act.kind \in {"assign_triage_owner", "retriage_recurring_alert", "investigate_stale_alert"}
  BY Proposed DEF Triages
<1>4. \A act \in Deliveries(read[7], read[8]) :
        act.kind \in {"requeue_dead_delivery", "inspect_missing_alert_receipts"}
  BY DEF Deliveries, Actions, Act
<1>5. \A act \in Incident(read[6]) : act.kind \in {"generate_incident_brief", "create_regression_draft"}
  BY DEF Incident, ForFirst, Actions, Act
<1>6. ASSUME NEW status, NEW act \in Promotion(status, read[6])
      PROVE  act.kind \in {"block_promotion", "review_promotion_gate"}
  BY DEF Promotion, Actions, Act
<1>7. ASSUME NEW status, NEW act \in StagingEval(read[5], status) PROVE act.kind = "run_staging_eval"
  BY DEF StagingEval, Actions, Act
<1>8. \A act \in Quality(read[3], read[4], read[6]) :
        act.kind \in {"inspect_tool_audit", "review_feedback", "run_retrieval_diagnostics"}
  BY DEF Quality, Actions, Act
<1> QED BY <1>2, <1>3, <1>4, <1>5, <1>6, <1>7, <1>8

\* The promotion is blocked by a plan whose gate is blocked, and by no other.
LEMMA OnlyBlockedBlocks ==
  /\ \A m : \E act \in Promotion("blocked", m) : act.kind = "block_promotion"
  /\ \A status, m : \A act \in Promotion(status, m) : act.kind = "block_promotion" => status = "blocked"
<1>1. ASSUME NEW m PROVE \E act \in Promotion("blocked", m) : act.kind = "block_promotion"
  <2>1. PICK priority : priority = IF PressingP0P1(m) # {} THEN "P0" ELSE "P1"
    OBVIOUS
  <2>2. Act("block_promotion", priority, TRUE) \in Promotion("blocked", m)
    BY <2>1 DEF Promotion, Actions
  <2>3. Act("block_promotion", priority, TRUE).kind = "block_promotion"
    BY DEF Act
  <2> QED BY <2>2, <2>3
<1>2. ASSUME NEW status, NEW m, NEW act \in Promotion(status, m), act.kind = "block_promotion"
      PROVE  status = "blocked"
  BY <1>2 DEF Promotion, Actions, Act
<1> QED BY <1>1, <1>2

\* What the gate says of its checks.
LEMMA GateSays ==
  ASSUME NEW read
  PROVE  /\ GateStatusOf(read) = "blocked" <=> \E i \in 1 .. 5 : GateStatus(GateChecks[i], read[i]) = "blocked"
         /\ GateStatusOf(read) \notin {"blocked", "warn"} =>
              \A i \in 1 .. 5 : GateStatus(GateChecks[i], read[i]) \notin {"blocked", "warn"}
BY Sources DEF GateStatusOf, GateOfRead

\* The readings of a plan after those of the gate.
LEMMA PlanReadings ==
  ASSUME OperationsInv, report.pc = "answered", report.kind = "plan"
  PROVE  /\ report.read[6] \in report.seen["monitor_alerts"] /\ report.read[6] \in AnySaying["monitor_alerts"]
         /\ report.read[7] \in report.seen["outbox"] /\ report.read[7] \in AnySaying["outbox"]
         /\ report.read[8] \in report.seen["outbox"] /\ report.read[8] \in AnySaying["outbox"]
         /\ report.plan = PlanFor(report.read)
<1>1. RouteOf(report.kind) = PlanRoute
  BY DEF RouteOf
<1>2. 6 \in 1 .. Len(PlanRoute) /\ 7 \in 1 .. Len(PlanRoute) /\ 8 \in 1 .. Len(PlanRoute)
  BY Routes
<1>3. PlanRoute[6] \in OpsSource /\ PlanRoute[7] \in OpsSource /\ PlanRoute[8] \in OpsSource
  BY Routes, Sources
<1>4. \A i \in {6, 7, 8} : report.read[i] \in report.seen[PlanRoute[i]] /\ report.read[i] \in AnySaying[PlanRoute[i]]
  BY <1>1, <1>2, <1>3, WereSaid
<1>5. report.plan = PlanFor(report.read)
  BY DEF OperationsInv, AnswerIsOfReadings
<1> QED BY <1>4, <1>5, Routes

\* A plan that was made from its readings addresses what blocks in them.
LEMMA AddressedHolds == OperationsInv => BlockedGateIsAddressed
<1> SUFFICES ASSUME OperationsInv, report.pc = "answered", report.kind = "plan"
             PROVE  BlockedGateIsAddressed
  BY DEF BlockedGateIsAddressed
<1> DEFINE read      == report.read
           Blocks(i) == GateStatus(GateChecks[i], read[i]) = "blocked"
<1>1. /\ read[2] \in AnySaying["monitor_alerts"] /\ read[3] \in AnySaying["tool_audit"]
      /\ read[4] \in AnySaying["feedback"] /\ read[5] \in AnySaying["staging_eval_gate"]
  BY GateReadings
<1>2. /\ read[6] \in report.seen["monitor_alerts"] /\ read[6] \in AnySaying["monitor_alerts"]
      /\ report.plan = PlanFor(read)
  BY PlanReadings
<1>3. ASSUME NEW act \in ActsOf(read) PROVE act.kind \in Kinds
  BY <1>2, <1>3, PlanOfActs DEF Kinds
<1>4. ASSUME \A m \in report.seen["monitor_alerts"] : ActiveP0P1(m) > 0
      PROVE  Kinds \cap {"dispatch_alert_deliveries", "configure_alert_webhook"} # {}
  <2>1. PressingP0P1(read[6]) # {}
    BY <1>2, <1>4, CountsOfAlerts
  <2>2. \/ Notify(read[6], read[7]) = ForFirst(read[6], PressingP0P1(read[6]), "dispatch_alert_deliveries", TRUE)
        \/ Notify(read[6], read[7]) = ForFirst(read[6], PressingP0P1(read[6]), "configure_alert_webhook", FALSE)
    BY <2>1 DEF Notify
  <2>3. PICK act \in Notify(read[6], read[7]) :
          act.kind \in {"dispatch_alert_deliveries", "configure_alert_webhook"}
    <3>1. Notify(read[6], read[7]) # {}
      BY <2>1, <2>2 DEF ForFirst, Actions
    <3>2. \A act \in Notify(read[6], read[7]) :
            act.kind \in {"dispatch_alert_deliveries", "configure_alert_webhook"}
      BY KindsOfActs
    <3> QED BY <3>1, <3>2
  <2>4. act \in ActsOf(read)
    BY DEF ActsOf
  <2> QED BY <1>3, <2>3, <2>4
<1>5. ASSUME Blocks(3) PROVE "inspect_tool_audit" \in Kinds
  <2>1. PICK n \in Nat, r \in Nat : read[3].calls = n /\ read[3].rate = r
    BY <1>1 DEF AnySaying
  <2>2. n >= MinToolCalls /\ r > MaxFailureRate
    BY <1>5, <2>1, Sources DEF GateStatus, CheckOf, ToolCheck, MinToolCalls, MaxFailureRate
  <2>3. Act("inspect_tool_audit", "P1", TRUE) \in Quality(read[3], read[4], read[6])
    BY <2>1, <2>2 DEF Quality, Actions
  <2>4. Act("inspect_tool_audit", "P1", TRUE).kind = "inspect_tool_audit"
    BY DEF Act
  <2>5. Act("inspect_tool_audit", "P1", TRUE) \in ActsOf(read)
    BY <2>3 DEF ActsOf
  <2> QED BY <1>3, <2>4, <2>5
<1>6. ASSUME Blocks(4) PROVE "review_feedback" \in Kinds
  <2>1. PICK n \in Nat, r \in Nat : read[4].count = n /\ read[4].rate = r
    BY <1>1 DEF AnySaying
  <2>2. n >= MinFeedback /\ r > MaxNegativeRate
    BY <1>6, <2>1, Sources DEF GateStatus, CheckOf, FeedbackCheck, MinFeedback, MaxNegativeRate
  <2>3. Act("review_feedback", "P2", TRUE) \in Quality(read[3], read[4], read[6])
    <3>1. read[4].count >= MinFeedback /\ read[4].rate > MaxNegativeRate
      BY <2>1, <2>2
    <3> QED BY <3>1 DEF Quality, Actions
  <2>4. Act("review_feedback", "P2", TRUE).kind = "review_feedback"
    BY DEF Act
  <2>5. Act("review_feedback", "P2", TRUE) \in ActsOf(read)
    BY <2>3 DEF ActsOf
  <2> QED BY <1>3, <2>4, <2>5
<1>7. ASSUME Blocks(5) PROVE "run_staging_eval" \in Kinds
  <2>1. read[5].status # "passed"
    BY <1>7, Sources DEF GateStatus, CheckOf, EvalCheck
  <2>2. PICK act : act \in StagingEval(read[5], GateStatusOf(read))
    <3>1. StagingEval(read[5], GateStatusOf(read)) =
            {Act("run_staging_eval", IF GateStatusOf(read) = "blocked" THEN "P1" ELSE "P2", FALSE)}
      BY <2>1 DEF StagingEval, Actions
    <3> QED BY <3>1
  <2>3. act.kind = "run_staging_eval"
    <3>1. \A status : \A a \in StagingEval(read[5], status) : a.kind = "run_staging_eval"
      BY KindsOfActs
    <3> QED BY <2>2, <3>1
  <2>4. act \in ActsOf(read)
    BY <2>2 DEF ActsOf
  <2> QED BY <1>3, <2>3, <2>4
<1>8. (\E i \in 1 .. 5 : Blocks(i)) => "block_promotion" \in Kinds
  <2> SUFFICES ASSUME NEW i \in 1 .. 5, Blocks(i) PROVE "block_promotion" \in Kinds
    OBVIOUS
  <2>1. GateStatusOf(read) = "blocked"
    BY GateSays, Zenon
  <2>2. PICK act : act \in Promotion("blocked", read[6]) /\ act.kind = "block_promotion"
    BY OnlyBlockedBlocks
  <2>3. act \in ActsOf(read)
    BY <2>1, <2>2 DEF ActsOf
  <2> QED BY <1>3, <2>2, <2>3
<1>9. "block_promotion" \in Kinds => \E i \in 1 .. 5 : Blocks(i)
  <2> SUFFICES ASSUME "block_promotion" \in Kinds PROVE \E i \in 1 .. 5 : Blocks(i)
    OBVIOUS
  <2>1. PICK act \in PlanFor(read) : act.kind = "block_promotion"
    BY <1>2 DEF Kinds
  <2>2. act \in ActsOf(read)
    BY <2>1, PlanOfActs
  <2>3. act \in Promotion(GateStatusOf(read), read[6])
    BY <2>1, <2>2, KindsOfActs DEF ActsOf
  <2>4. GateStatusOf(read) = "blocked"
    BY <2>1, <2>3, OnlyBlockedBlocks
  <2> QED BY <2>4, GateSays
<1> QED BY <1>4, <1>5, <1>6, <1>7, <1>8, <1>9 DEF BlockedGateIsAddressed, Throughout

(***************************************************************************)
(* Whatever a plan reads, and however the alerts change between its two    *)
(* readings of them, a check that blocks has its action in the plan        *)
(* (main.py:2990-3260), and the plan blocks the promotion exactly when a   *)
(* check does.                                                             *)
(***************************************************************************)
THEOREM BlocksAreAddressed == OperationsSpec => []BlockedGateIsAddressed
<1> QED BY OperationsAlways, AddressedHolds, PTL

-----------------------------------------------------------------------------
(* A plan that asks for nothing. *)

\* A plan without acts was made from readings within the thresholds.
LEMMA QuietHolds == OperationsInv => QuietPlanIsJustified
<1> SUFFICES ASSUME OperationsInv, report.pc = "answered", report.plan = {NoActionRequired}
             PROVE  QuietPlanIsJustified
  BY DEF QuietPlanIsJustified
<1> DEFINE read == report.read
<1>0. report.kind = "plan"
  BY DEF OperationsInv, ReadWasSaid
<1>1. /\ read[3] \in report.seen["tool_audit"] /\ read[3] \in AnySaying["tool_audit"]
      /\ read[4] \in report.seen["feedback"] /\ read[4] \in AnySaying["feedback"]
      /\ read[5] \in report.seen["staging_eval_gate"]
  BY GateReadings
<1>2. /\ read[6] \in report.seen["monitor_alerts"] /\ read[6] \in AnySaying["monitor_alerts"]
      /\ read[7] \in report.seen["outbox"] /\ read[8] \in report.seen["outbox"]
      /\ report.plan = PlanFor(read)
  BY <1>0, PlanReadings
<1>3. ActsOf(read) = {}
  <2>1. NoActionRequired.kind = "no_action_required"
    BY DEF NoActionRequired, Act
  <2>2. \A act \in ActsOf(read) : act.kind # "no_action_required"
    <3> SUFFICES ASSUME NEW act \in ActsOf(read), act.kind = "no_action_required" PROVE FALSE
      OBVIOUS
    <3> QED BY KindsOfActs DEF ActsOf
  <2> QED BY <1>2, <2>1, <2>2, PlanOfActs
<1>4. /\ Notify(read[6], read[7]) = {} /\ Deliveries(read[7], read[8]) = {} /\ Incident(read[6]) = {}
      /\ Promotion(GateStatusOf(read), read[6]) = {} /\ Quality(read[3], read[4], read[6]) = {}
  BY <1>3 DEF ActsOf
<1>5. Pressing(read[6]) = {} /\ PressingP0P1(read[6]) = {}
  <2>1. Actions(Pressing(read[6]) # {}, Act("create_regression_draft", "P2", TRUE)) = {}
    BY <1>4 DEF Incident
  <2>2. Pressing(read[6]) = {}
    BY <2>1 DEF Actions
  <2> QED BY <2>2 DEF PressingP0P1
<1>6. ~ (read[6].events > 0 /\ read[6].grounded < 95)
  BY <1>4 DEF Quality, Actions
<1>7. ~ (read[7].webhook /\ read[7].waiting + read[7].failed > 0)
  BY <1>4, <1>5 DEF Notify, Actions
<1>8. ~ (read[8].dead > 0) /\ ~ (Tracked(read[7]) /\ read[7].gaps > 0)
  BY <1>4 DEF Deliveries, Actions
<1>9. \A i \in 1 .. 5 : GateStatus(GateChecks[i], read[i]) \notin {"blocked", "warn"}
  BY <1>4, GateSays DEF Promotion, Actions
<1>10. /\ CheckOf("tool_audit", read[3]) = "passed" /\ CheckOf("feedback", read[4]) = "passed"
       /\ CheckOf("staging_eval_gate", read[5]) = "passed"
  <2>1. /\ CheckOf("tool_audit", read[3]) \notin {"blocked", "warn"}
        /\ CheckOf("feedback", read[4]) \notin {"blocked", "warn"}
        /\ CheckOf("staging_eval_gate", read[5]) \notin {"blocked", "warn"}
    BY <1>9, Sources DEF GateStatus
  <2> QED BY <2>1 DEF CheckOf, ToolCheck, FeedbackCheck, EvalCheck
<1>11. /\ ~ (\A m \in report.seen["monitor_alerts"] : Pressing(m) # {} \/ (m.events > 0 /\ m.grounded < 95))
       /\ ~ (\A o \in report.seen["outbox"] : o.dead > 0)
       /\ ~ (\A o \in report.seen["outbox"] : o.webhook /\ o.waiting + o.failed > 0)
       /\ ~ (\A o \in report.seen["outbox"] : Tracked(o) /\ o.gaps > 0)
  BY <1>2, <1>5, <1>6, <1>7, <1>8
<1>12. ASSUME NEW s \in {"tool_audit", "feedback", "staging_eval_gate"}
       PROVE  ~ (\A r \in report.seen[s] : CheckOf(s, r) # "passed")
  BY <1>1, <1>10
<1> QED BY <1>11, <1>12 DEF QuietPlanIsJustified, Throughout

(***************************************************************************)
(* Whatever a plan reads and whatever changes under it, if it asks for     *)
(* nothing then each signal it names was within its thresholds at a moment *)
(* of the request, the one at which it was read (main.py:2950-3260).       *)
(***************************************************************************)
THEOREM QuietIsJustified == OperationsSpec => []QuietPlanIsJustified
<1> QED BY OperationsAlways, QuietHolds, PTL
==============================================================================
