----------------------------- MODULE ToolBroker -----------------------------
(***************************************************************************)
(* ToolBroker.call (tools/registry.py) for the write tool ticket.create,   *)
(* the idempotency store behind it (memory/event_store.py) and the         *)
(* requests of BusinessClient that its handler makes: one that looks up    *)
(* the customer and one that posts the ticket.  Calls with one idempotency *)
(* key meet in its row; all other calls of the process share nothing with  *)
(* them but the circuit, and calls of read tools stand for them.           *)
(*                                                                         *)
(* The ticketing service is modelled at its worst: every POST it accepts   *)
(* creates a ticket, also one whose response is lost.  Time is kept as the *)
(* ticks that remain; a call that is refused (CONFLICT and                 *)
(* IDEMPOTENCY_CONFLICT) changes nothing and is not an action.             *)
(***************************************************************************)
EXTENDS BusinessClient, Integers

\* Caller, Attempts, Threshold and Reset are those of BusinessClient.
CONSTANTS
  Payload,     \* canonical arguments that come with the key
  Lease,       \* tool_idempotency_lease_seconds
  WorkBound,   \* timeout_ms of the tool and the waits for SQLite
  MaxTickets   \* bound: tickets the service creates

NoPayload == "none"   \* a read tool: no key, no reservation

ASSUME BrokerAssumption ==
  /\ Lease \in Nat /\ WorkBound \in Nat /\ MaxTickets \in Nat
  /\ NoPayload \notin Payload

VARIABLES
  row,    \* the row of the key in tool_idempotency
  call,   \* caller -> where its call is
  made,   \* tickets created so far, numbered from 1
  told    \* tickets that callers were told of: ToolStatus.success

brokerVars == <<clientVars, row, call, made, told>>

Ticket == 0 .. MaxTickets
Row  == [state : {"none", "in_progress", "completed"},
         payload : Payload \cup {NoPayload}, ticket : Ticket, lease : Nat]
Call == [pc : {"idle", "lookup", "create", "complete", "release"},
         payload : Payload \cup {NoPayload}, ticket : Ticket, left : Nat]

NoRow       == [state |-> "none", payload |-> NoPayload, ticket |-> 0, lease |-> 0]
Reserved(p) == [state |-> "in_progress", payload |-> p, ticket |-> 0, lease |-> Lease]
Completed(p, t) == [state |-> "completed", payload |-> p, ticket |-> t, lease |-> Lease]
Turn(a, p, t, n) == [pc |-> a, payload |-> p, ticket |-> t, left |-> n]
NoCall      == Turn("idle", NoPayload, 0, 0)

Handling(c) == call[c].pc # "idle"
Writing(c)  == Handling(c) /\ call[c].payload # NoPayload

\* The where clause of complete and release: status and arguments, no owner.
Mine(c) == row.state = "in_progress" /\ row.payload = call[c].payload

\* The call goes on with another step, its arguments and its time as they are.
Goto(c, a, t) == call' = [call EXCEPT ![c] = Turn(a, call[c].payload, t, call[c].left)]
Quit(c)       == call' = [call EXCEPT ![c] = NoCall]

-----------------------------------------------------------------------------
Init ==
  /\ ClientInit
  /\ row = NoRow
  /\ call = [c \in Caller |-> NoCall]
  /\ made = 0
  /\ told = {}

\* Faults a later run plants: a reservation that anybody may take, and one
\* whose age is looked at before its status.
FreeAtOnce(p) ==
  row.state = "none" \/ (row.state = "in_progress" /\ row.payload = p)

FreeWhenOld(p) ==
  row.state = "none" \/ (row.payload = p /\ row.lease = 0)

\* reserve: no row, or a stale one of the same arguments.
Free(p) ==
  \/ row.state = "none"
  \/ row.state = "in_progress" /\ row.payload = p /\ row.lease = 0

Reserve(c, p) ==
  /\ call[c].pc = "idle"
  /\ Free(p)
  /\ row' = Reserved(p)
  /\ call' = [call EXCEPT ![c] = Turn("lookup", p, 0, WorkBound)]
  /\ UNCHANGED <<clientVars, made, told>>

Replay(c, p) ==
  /\ call[c].pc = "idle"
  /\ row.state = "completed" /\ row.payload = p
  /\ told' = told \cup {row.ticket}
  /\ UNCHANGED <<clientVars, row, call, made>>

\* A call of an idempotent tool, whose handler makes one request.
Read(c) ==
  /\ call[c].pc = "idle"
  /\ call' = [call EXCEPT ![c] = Turn("lookup", NoPayload, 0, WorkBound)]
  /\ UNCHANGED <<clientVars, row, made, told>>

\* The handler: the requests of _create_ticket, with the key in their headers.
Send(c) ==
  /\ call[c].pc \in {"lookup", "create"}
  /\ Start(c, TRUE)
  /\ UNCHANGED <<row, call, made, told>>

Retry(c) == Resume(c) /\ UNCHANGED <<row, call, made, told>>

\* A ticket is created, or the service refuses to (or the model ends).
Posting(c) == call[c].pc = "create" /\ request[c].pc = "sending"
Landed(c)  == made' \in made .. (IF Posting(c) /\ made < MaxTickets THEN made + 1 ELSE made)

Reply(c) ==
  /\ Answer(c)
  /\ Posting(c) => made < MaxTickets
  /\ made' = IF Posting(c) THEN made + 1 ELSE made
  /\ Goto(c, call[c].pc, IF Posting(c) THEN made + 1 ELSE 0)
  /\ UNCHANGED <<row, told>>

Refuse(c, retryable) ==
  /\ Fail(c, retryable)
  /\ Landed(c)
  /\ UNCHANGED <<row, call, told>>

\* asyncio.wait_for runs out in the middle of a request.
TimeOut(c) ==
  /\ call[c].left = 0
  /\ Cancel(c)
  /\ Landed(c)
  /\ UNCHANGED <<row, call, told>>

\* The customer is the actor's own, or the handler raises FORBIDDEN; a read ends,
\* with no reservation to release.
Proceed(c) ==
  /\ call[c].pc = "lookup" /\ request[c].pc = "answered"
  /\ Return(c)
  /\ \E a \in (IF Writing(c) THEN {"create", "release"} ELSE {"release"}) : Goto(c, a, 0)
  /\ UNCHANGED <<row, made, told>>

\* A fault a later run plants: success is reported before it is stored.
ConcludeTold(c) ==
  /\ call[c].pc = "create" /\ request[c].pc = "answered"
  /\ Return(c)
  /\ \E a \in {"complete", "release"} : Goto(c, a, call[c].ticket)
  /\ told' = told \cup {call[c].ticket}
  /\ UNCHANGED <<row, made>>

\* The output fits output_model, or it does not: VALIDATION_ERROR.
Conclude(c) ==
  /\ call[c].pc = "create" /\ request[c].pc = "answered"
  /\ Return(c)
  /\ \E a \in {"complete", "release"} : Goto(c, a, call[c].ticket)
  /\ UNCHANGED <<row, made, told>>

GiveUp(c) ==
  /\ call[c].pc \in {"lookup", "create"} /\ request[c].pc = "failed"
  /\ Return(c)
  /\ Goto(c, "release", 0)
  /\ UNCHANGED <<row, made, told>>

\* complete; the caller is told whether or not the update found its row.
Complete(c) ==
  /\ call[c].pc = "complete"
  /\ row' = IF Mine(c) THEN Completed(call[c].payload, call[c].ticket) ELSE row
  /\ told' = told \cup {call[c].ticket}
  /\ Quit(c)
  /\ UNCHANGED <<clientVars, made>>

\* complete raises: call answers INTERNAL_ERROR and goes on to release.
CompleteFails(c) ==
  /\ call[c].pc = "complete"
  /\ Goto(c, "release", call[c].ticket)
  /\ UNCHANGED <<clientVars, row, made, told>>

Release(c) ==
  /\ call[c].pc = "release"
  /\ row' = IF Mine(c) THEN NoRow ELSE row
  /\ Quit(c)
  /\ UNCHANGED <<clientVars, made, told>>

\* The coroutine is cancelled from outside, or its release raises: the
\* reservation stays.
Lose(c) ==
  /\ Handling(c)
  /\ Landed(c)
  /\ Quit(c)
  /\ request' = [request EXCEPT ![c] = NoRequest]
  /\ UNCHANGED <<circuit, row, told>>

\* The process dies with all its calls and its circuit.
Restart ==
  /\ \E c \in Caller : Handling(c) /\ Landed(c)
  /\ call' = [c \in Caller |-> NoCall]
  /\ request' = [c \in Caller |-> NoRequest]
  /\ circuit' = Closed
  /\ UNCHANGED <<row, told>>

Tick ==
  /\ \A c \in Caller : Handling(c) => call[c].left > 0
  /\ ClientTick
  /\ row' = [row EXCEPT !.lease = IF row.lease > 0 THEN row.lease - 1 ELSE 0]
  /\ call' = [c \in Caller |->
                IF Handling(c) THEN [call[c] EXCEPT !.left = call[c].left - 1] ELSE call[c]]
  /\ UNCHANGED <<made, told>>

\* What a call does by itself.
Step(c) ==
  \/ Send(c) \/ Retry(c) \/ Proceed(c) \/ Conclude(c) \/ GiveUp(c)
  \/ TimeOut(c) \/ Complete(c) \/ CompleteFails(c) \/ Release(c)

Next ==
  \/ \E c \in Caller : \/ \E p \in Payload : Reserve(c, p) \/ Replay(c, p)
                       \/ Read(c)
                       \/ Step(c)
                       \/ Reply(c)
                       \/ \E retryable \in BOOLEAN : Refuse(c, retryable)
                       \/ Lose(c)
  \/ Restart
  \/ Tick

Spec == Init /\ [][Next]_brokerVars

\* Calls that have begun go on, their timeouts fire, and the clock runs; nobody
\* owes a call, and the service owes no answer.
Fairness == WF_brokerVars(Tick) /\ \A c \in Caller : WF_brokerVars(Step(c))

FairSpec == Spec /\ Fairness

-----------------------------------------------------------------------------
\* A reservation outlasts the call that holds it.
Timely == WorkBound < Lease

TypeOK ==
  /\ ClientTypeOK
  /\ row \in Row
  /\ call \in [Caller -> Call]
  /\ made \in Ticket
  /\ told \subseteq Ticket

\* One call at a time runs the write tool for a key, across crashes, failed
\* releases and retries (registry.py:322-344, event_store.py:2156-2195).
HandlersAreExclusive ==
  \A c, d \in Caller : Writing(c) /\ Writing(d) => c = d

\* All callers that are told of success for a key are told of the same ticket,
\* although failed attempts may leave tickets that nobody is told of
\* (registry.py:240-290, event_store.py:2197-2224).
SuccessesAgree == \A t, u \in told : t = u

\* A stored result is final: no late complete, release or takeover of a call that
\* outlasted its reservation touches it (event_store.py:2156-2224).
CompletedIsFinal ==
  [][row.state = "completed" =>
       row'.state = "completed" /\ row'.payload = row.payload /\ row'.ticket = row.ticket]_brokerVars
=============================================================================
