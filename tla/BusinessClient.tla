---------------------------- MODULE BusinessClient ----------------------------
(***************************************************************************)
(* HTTPBusinessClient (tools/http_business_tools.py): requests with a      *)
(* limited number of attempts and one circuit breaker that all coroutines  *)
(* of a process share.  HTTPKnowledgeIndex (memory/http_knowledge.py) and  *)
(* LLMGateway (llm/gateway.py) hold the same loop and the same breaker.    *)
(*                                                                         *)
(* A coroutine is interrupted at its awaits only, while a request is on    *)
(* the wire and while it sleeps before a retry; what it does in between is *)
(* one action.  circuit.left is opened_at + circuit_reset_seconds - now.   *)
(***************************************************************************)
EXTENDS Naturals

CONSTANTS
  Caller,     \* coroutines with a request
  Attempts,   \* retry_attempts
  Threshold,  \* circuit_failure_threshold
  Reset       \* circuit_reset_seconds

ASSUME ClientAssumption ==
  Attempts \in Nat \ {0} /\ Threshold \in Nat \ {0} /\ Reset \in Nat

VARIABLES
  circuit,  \* _CircuitState
  request   \* caller -> where its _request is

clientVars == <<circuit, request>>

\* Failures beyond the threshold are not told apart.
Circuit == [failures : 0 .. Threshold, opened : BOOLEAN, left : 0 .. Reset]
Request == [pc : {"idle", "sending", "resting", "answered", "failed"},
            attempt : 1 .. Attempts, safe : BOOLEAN]

Closed     == [failures |-> 0, opened |-> FALSE, left |-> 0]
At(a, n, s) == [pc |-> a, attempt |-> n, safe |-> s]
NoRequest  == At("idle", 1, FALSE)

\* _circuit_state() = "open"; it is half_open when opened with nothing left.
Open(k) == k.opened /\ k.left > 0

InFlight == {c \in Caller : request[c].pc = "sending"}

-----------------------------------------------------------------------------
ClientInit ==
  /\ circuit = Closed
  /\ request = [c \in Caller |-> NoRequest]

\* A fault a later run plants: attempts after the first do not look at the
\* circuit.
PassFirst(c, n, safe) ==
  request' = [request EXCEPT ![c] = IF Open(circuit) /\ n = 1 THEN At("failed", n, safe)
                                    ELSE At("sending", n, safe)]

\* The top of the loop: an open circuit fails the request, else attempt n leaves.
Pass(c, n, safe) ==
  request' = [request EXCEPT ![c] = IF Open(circuit) THEN At("failed", n, safe)
                                    ELSE At("sending", n, safe)]

\* _record_failure, and a fault: the count starts anew when the circuit opens.
StrainedAnew(k) ==
  IF k.failures + 1 >= Threshold
  THEN [failures |-> 0, opened |-> TRUE, left |-> Reset]
  ELSE [k EXCEPT !.failures = k.failures + 1]

Strained(k) ==
  IF k.failures + 1 >= Threshold
  THEN [failures |-> Threshold, opened |-> TRUE, left |-> Reset]
  ELSE [k EXCEPT !.failures = k.failures + 1]

\* A fault a later run plants: the refusal of an open circuit counts as a
\* failure, as it would if the try around _send_once began one line earlier.
StartCounted(c, safe) ==
  /\ request[c].pc = "idle"
  /\ Pass(c, 1, safe)
  /\ circuit' = IF Open(circuit) THEN Strained(circuit) ELSE circuit

\* safe is safe_to_retry: a GET, or a POST with an idempotency key.
Start(c, safe) ==
  /\ request[c].pc = "idle"
  /\ Pass(c, 1, safe)
  /\ UNCHANGED circuit

Resume(c) ==
  /\ request[c].pc = "resting"
  /\ Pass(c, request[c].attempt + 1, request[c].safe)
  /\ UNCHANGED circuit

Answer(c) ==
  /\ request[c].pc = "sending"
  /\ circuit' = Closed
  /\ request' = [request EXCEPT ![c].pc = "answered"]

\* _send_once raises: retryable are 429, 5xx, timeouts, network failures and bad
\* JSON.  _should_retry looks at the circuit after the failure was recorded.
Fail(c, retryable) ==
  /\ request[c].pc = "sending"
  /\ circuit' = IF retryable THEN Strained(circuit) ELSE circuit
  /\ LET again == /\ retryable /\ request[c].safe
                  /\ request[c].attempt < Attempts
                  /\ ~Open(circuit')
     IN request' = [request EXCEPT ![c].pc = IF again THEN "resting" ELSE "failed"]

\* asyncio.wait_for in the tool broker cancels the coroutine: the circuit does
\* not hear of it.
Cancel(c) ==
  /\ request[c].pc \in {"sending", "resting"}
  /\ request' = [request EXCEPT ![c].pc = "failed"]
  /\ UNCHANGED circuit

Return(c) ==
  /\ request[c].pc \in {"answered", "failed"}
  /\ request' = [request EXCEPT ![c] = NoRequest]
  /\ UNCHANGED circuit

ClientTick ==
  /\ circuit' = [circuit EXCEPT !.left = IF circuit.left > 0 THEN circuit.left - 1 ELSE 0]
  /\ UNCHANGED request

ClientNext ==
  \/ \E c \in Caller : \/ \E safe \in BOOLEAN : Start(c, safe)
                       \/ Resume(c)
                       \/ Answer(c)
                       \/ \E retryable \in BOOLEAN : Fail(c, retryable)
                       \/ Cancel(c)
                       \/ Return(c)
  \/ ClientTick

ClientSpec == ClientInit /\ [][ClientNext]_clientVars

-----------------------------------------------------------------------------
ClientTypeOK == circuit \in Circuit /\ request \in [Caller -> Request]

\* The circuit is opened by exactly the failures it counts: not before the
\* threshold, always at it, and a half-open circuit opens again at the first
\* failed probe (http_business_tools.py:269-287).
OpenedAtThreshold == circuit.opened <=> circuit.failures = Threshold

\* While the circuit is open the upstream is left alone: requests on the wire
\* come back, and no coroutine sends another, not even one that had begun its
\* attempts before (http_business_tools.py:183-205, 241-267).
OpenIsQuiet ==
  [][Open(circuit) => {c \in Caller : request'[c].pc = "sending"} \subseteq InFlight]_clientVars

\* An open circuit lets requests through again, however many it refuses in the
\* meantime (http_business_tools.py:261-287).
OpenEnds == Open(circuit) ~> ~Open(circuit)

\* Once opened, the circuit keeps refusing for circuit_reset_seconds.
StaysOpen == [][Open(circuit) => Open(circuit') \/ circuit.left = 1]_clientVars
=============================================================================
