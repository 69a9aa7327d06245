---------------------------- MODULE PromotionGate ----------------------------
(***************************************************************************)
(* The promotion gate of api/main.py: five checks on five sources of       *)
(* evidence, the preflight that records what they say, and the decision    *)
(* that is bound to a preflight and only taken if the evidence still has   *)
(* the same fingerprint.  A request first awaits the readiness checks and  *)
(* then reads the other sources one after the other; between any two reads *)
(* other requests and other processes go on.                               *)
(*                                                                         *)
(* What the sources say is told by the records the checks of ReleaseChecks *)
(* look at.  The clock is only seen in preflights that expire and in the   *)
(* reading of an eval gate that has grown old.                             *)
(***************************************************************************)
EXTENDS ReleaseChecks, Sequences

CONSTANTS
  Actor,          \* admins with the scopes
  Preflight,      \* bound: ids of preflights
  GateRequest,    \* bound: requests that record a preflight or a decision
  Readings,       \* what there is to read of each source
  MaxChanges      \* bound: changes of evidence

ASSUME PromotionAssumption ==
  /\ MaxChanges \in Nat
  /\ DOMAIN Readings = EvidenceSource
  /\ \A s \in EvidenceSource : Readings[s] # {}

VARIABLES
  evidence,    \* source -> what it would say now
  changes,     \* changes of evidence so far
  preflights,  \* id -> the recorded preflight
  expired,     \* preflights whose expires_at has passed
  decisions,   \* the recorded decisions
  gateRequests \* request -> where it is

promotionVars == <<evidence, changes, preflights, expired, decisions, gateRequests>>

BlockedNow == {s \in EvidenceSource : CheckOf(s, evidence[s]) = "blocked"}

-----------------------------------------------------------------------------
(* What changes under a request. *)

\* Requests remember the sources that have been blocked ever since they began (a history).
StillBlocked(blocked) == [q \in GateRequest |-> [gateRequests[q] EXCEPT !.blocked = @ \cap blocked]]

ChangeEvidence(s, reading) ==
  /\ changes < MaxChanges /\ evidence[s] # reading
  /\ evidence' = [evidence EXCEPT ![s] = reading]
  /\ changes' = changes + 1
  /\ UNCHANGED <<preflights, expired, decisions>>
  /\ gateRequests' = StillBlocked(BlockedNow')

NoPreflight == [actor |-> "none", gate |-> << >>]
IsRecorded(p) == preflights[p] # NoPreflight

ExpirePreflight(p) ==
  /\ IsRecorded(p) /\ p \notin expired
  /\ expired' = expired \cup {p}
  /\ UNCHANGED <<evidence, changes, preflights, decisions, gateRequests>>

-----------------------------------------------------------------------------
(* Requests. *)

NoGateRequest == [pc |-> "none", actor |-> "none", preflight |-> "none", decision |-> "none",
               override |-> FALSE, read |-> << >>, blocked |-> {}]

BeginRequest(q, r) ==
  /\ gateRequests[q].pc = "none"
  /\ gateRequests' = [gateRequests EXCEPT ![q] = r]
  /\ UNCHANGED <<evidence, changes, preflights, expired, decisions>>

StartPreflight(q, a, p) ==
  /\ ~ IsRecorded(p) /\ \A r \in GateRequest : gateRequests[r].preflight # p
  /\ BeginRequest(q, [NoGateRequest EXCEPT !.pc = "preflight", !.actor = a, !.preflight = p])

IsDecided(p) == \E i \in DOMAIN decisions : decisions[i].preflight = p

\* _require_bound_promotion_preflight
BoundPreflight(a, p) ==
  /\ IsRecorded(p) /\ preflights[p].actor = a /\ p \notin expired
  /\ ~ IsDecided(p)

\* The checks of record_promotion_decision before its await.
StartDecision(q, a, p, d, override) ==
  /\ BoundPreflight(a, p)
  /\ override => d = "approved"
  /\ d = "approved" /\ StatusOf(preflights[p].gate) = "blocked" => override
  /\ BeginRequest(q, [NoGateRequest EXCEPT !.pc = "decision", !.actor = a, !.preflight = p, !.decision = d,
                                 !.override = override, !.blocked = BlockedNow])

AtSource(q) == GateChecks[Len(gateRequests[q].read) + 1]
GateOf(q)   == [s \in EvidenceSource |-> gateRequests[q].read[CHOOSE i \in DOMAIN GateChecks : GateChecks[i] = s]]

ReadSource(q) ==
  /\ gateRequests[q].pc \in {"preflight", "decision"} /\ Len(gateRequests[q].read) < Len(GateChecks)
  /\ gateRequests' = [gateRequests EXCEPT ![q].read = Append(@, evidence[AtSource(q)])]
  /\ UNCHANGED <<evidence, changes, preflights, expired, decisions>>

AllRead(q) == Len(gateRequests[q].read) = Len(GateChecks)
EndRequest(q) == gateRequests' = [gateRequests EXCEPT ![q] = [NoGateRequest EXCEPT !.pc = "done"]]

RecordPreflight(q) ==
  /\ gateRequests[q].pc = "preflight" /\ AllRead(q)
  /\ preflights' = [preflights EXCEPT ![gateRequests[q].preflight] =
                      [actor |-> gateRequests[q].actor, gate |-> GateOf(q)]]
  /\ EndRequest(q)
  /\ UNCHANGED <<evidence, changes, expired, decisions>>

\* A fault: the preflight is trusted and the gate not evaluated again.
TrustsPreflight(q) == TRUE

\* The fingerprints agree, and a blocked gate is not approved without override_blocked.
StillAgrees(q) ==
  LET r == gateRequests[q] IN
  /\ GateOf(q) = preflights[r.preflight].gate
  /\ r.decision = "approved" /\ StatusOf(GateOf(q)) = "blocked" => r.override

\* The append, or 409.
RecordDecision(q) ==
  LET r == gateRequests[q] IN
  /\ r.pc = "decision" /\ AllRead(q)
  /\ decisions' = IF StillAgrees(q)
                  THEN Append(decisions, [preflight |-> r.preflight, decision |-> r.decision,
                                          override |-> r.override])
                  ELSE decisions
  /\ EndRequest(q)
  /\ UNCHANGED <<evidence, changes, preflights, expired>>

\* A source or the append raises, or the client goes away.
FailGateRequest(q) ==
  /\ gateRequests[q].pc \in {"preflight", "decision"}
  /\ EndRequest(q)
  /\ UNCHANGED <<evidence, changes, preflights, expired, decisions>>

PromotionInit ==
  /\ evidence \in [EvidenceSource -> UNION {Readings[s] : s \in EvidenceSource}]
  /\ \A s \in EvidenceSource : evidence[s] \in Readings[s]
  /\ changes = 0 /\ expired = {} /\ decisions = << >>
  /\ preflights = [p \in Preflight |-> NoPreflight]
  /\ gateRequests = [q \in GateRequest |-> NoGateRequest]

PromotionNext ==
  \/ \E s \in EvidenceSource : \E reading \in Readings[s] : ChangeEvidence(s, reading)
  \/ \E p \in Preflight : ExpirePreflight(p)
  \/ \E q \in GateRequest :
       \/ \E a \in Actor, p \in Preflight :
            \/ StartPreflight(q, a, p)
            \/ \E d \in {"approved", "rejected"}, override \in BOOLEAN :
                 StartDecision(q, a, p, d, override)
       \/ ReadSource(q) \/ RecordPreflight(q) \/ RecordDecision(q) \/ FailGateRequest(q)

PromotionSpec == PromotionInit /\ [][PromotionNext]_promotionVars

-----------------------------------------------------------------------------
(* Properties *)

AnyReading == UNION {Readings[s] : s \in EvidenceSource}
Decisions  == {"approved", "rejected"}
Recorded   == [preflight : Preflight, decision : Decisions, override : BOOLEAN]
Requested  ==
  [pc : {"none", "preflight", "decision", "done"}, actor : Actor \cup {"none"},
   preflight : Preflight \cup {"none"}, decision : Decisions \cup {"none"}, override : BOOLEAN,
   read : Seq(AnyReading), blocked : SUBSET EvidenceSource]
PromotionTypeOK ==
  /\ evidence \in [EvidenceSource -> AnyReading]
  /\ changes \in 0 .. MaxChanges
  /\ preflights \in [Preflight -> {NoPreflight} \cup [actor : Actor, gate : [EvidenceSource -> AnyReading]]]
  /\ expired \subseteq Preflight
  /\ decisions \in Seq(Recorded)
  /\ gateRequests \in [GateRequest -> Requested]

(***************************************************************************)
(* What docs/production-deployment.md:281 promises: a preflight is         *)
(* single-use for release decision writes.  The code asks whether it has   *)
(* been used before it awaits the readiness checks (main.py:2692) and      *)
(* appends without asking again (main.py:5832), so two requests that       *)
(* overlap both record a decision; the run promotion_single_use shows it.  *)
(***************************************************************************)
SingleUse ==
  \A i, j \in DOMAIN decisions : decisions[i].preflight = decisions[j].preflight => i = j

(***************************************************************************)
(* Nothing is approved without an override while a source is blocked: the  *)
(* five reads need not be of one moment, but no source has been blocked    *)
(* all the time from the checks of the request to the decision's record.   *)
(***************************************************************************)
NoApprovalWhileBlocked ==
  [][\A q \in GateRequest :
       /\ decisions' # decisions /\ gateRequests[q].pc = "decision" /\ gateRequests'[q].pc = "done"
       /\ gateRequests[q].decision = "approved" /\ ~ gateRequests[q].override
       => gateRequests[q].blocked = {}]_promotionVars
=============================================================================
