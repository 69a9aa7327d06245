-------------------------- MODULE ToolBroker_proofs --------------------------
(***************************************************************************)
(* Proofs about BusinessClient and ToolBroker for every set of callers and *)
(* payloads and every setting.  ClientInv is inductive for the client;     *)
(* HolderInv says of the broker that a writing call owns the row of its    *)
(* key, with more lease than the call has time, and AgreeInv that a ticket *)
(* somebody was told of is the one in a completed row.                     *)
(***************************************************************************)
EXTENDS ToolBroker, TLAPS

USE ClientAssumption, BrokerAssumption

-----------------------------------------------------------------------------
\* The client.

\* A retry comes only while attempts are left.
RestingHasAttempts ==
  \A c \in Caller : request[c].pc = "resting" => request[c].attempt < Attempts

ClientInv == ClientTypeOK /\ RestingHasAttempts /\ OpenedAtThreshold

ClientStep(c) ==
  \/ \E safe \in BOOLEAN : Start(c, safe)
  \/ Resume(c)
  \/ Answer(c)
  \/ \E retryable \in BOOLEAN : Fail(c, retryable)
  \/ Cancel(c)
  \/ Return(c)

\* The client starts with closed circuits and no request.
LEMMA ClientInitial == ClientInit => ClientInv
BY DEF ClientInit, ClientInv, ClientTypeOK, RestingHasAttempts, OpenedAtThreshold,
       Circuit, Request, Closed, NoRequest, At

\* What becomes of a circuit is a circuit, opened exactly at the threshold.
LEMMA CircuitMoves ==
  ASSUME NEW k \in Circuit, k.opened <=> k.failures = Threshold
  PROVE  /\ Strained(k) \in Circuit /\ Closed \in Circuit
         /\ Strained(k).opened <=> Strained(k).failures = Threshold
         /\ Closed.opened <=> Closed.failures = Threshold
<1>1. CASE k.failures + 1 >= Threshold
  BY <1>1 DEF Strained, Circuit, Closed
<1>2. CASE ~(k.failures + 1 >= Threshold)
  BY <1>2 DEF Strained, Circuit, Closed
<1> QED BY <1>1, <1>2

\* A request moves from one well-formed state to another.
LEMMA RequestMoves ==
  ASSUME ClientInv, NEW c \in Caller, ClientStep(c)
  PROVE  request' \in [Caller -> Request] /\ RestingHasAttempts'
<1> USE DEF ClientInv, ClientTypeOK, RestingHasAttempts
<1>1. ASSUME NEW safe \in BOOLEAN, Start(c, safe)
      PROVE  request' \in [Caller -> Request] /\ RestingHasAttempts'
  BY <1>1 DEF Start, Pass, At, Request
<1>2. ASSUME Resume(c)
      PROVE  request' \in [Caller -> Request] /\ RestingHasAttempts'
  <2>1. request[c].attempt + 1 \in 1 .. Attempts /\ request[c].safe \in BOOLEAN
    BY <1>2 DEF Resume, Request
  <2> QED BY <1>2, <2>1 DEF Resume, Pass, At, Request
<1>3. ASSUME Answer(c)
      PROVE  request' \in [Caller -> Request] /\ RestingHasAttempts'
  BY <1>3 DEF Answer, Request
<1>4. ASSUME NEW retryable \in BOOLEAN, Fail(c, retryable)
      PROVE  request' \in [Caller -> Request] /\ RestingHasAttempts'
  <2>1. CASE request[c].attempt < Attempts
    BY <1>4, <2>1 DEF Fail, Request
  <2>2. CASE ~(request[c].attempt < Attempts)
    BY <1>4, <2>2 DEF Fail, Request
  <2> QED BY <2>1, <2>2
<1>5. ASSUME Cancel(c)
      PROVE  request' \in [Caller -> Request] /\ RestingHasAttempts'
  BY <1>5 DEF Cancel, Request
<1>6. ASSUME Return(c)
      PROVE  request' \in [Caller -> Request] /\ RestingHasAttempts'
  BY <1>6 DEF Return, NoRequest, At, Request
<1> QED BY <1>1, <1>2, <1>3, <1>4, <1>5, <1>6 DEF ClientStep

\* Every step of a request keeps the circuit consistent with its failures.
LEMMA ClientStepInv ==
  ASSUME ClientInv, NEW c \in Caller, ClientStep(c)
  PROVE  ClientInv'
<1>1. circuit' \in {circuit, Closed, Strained(circuit)}
  BY DEF ClientStep, Start, Resume, Answer, Fail, Cancel, Return
<1>2. circuit' \in Circuit /\ OpenedAtThreshold'
  BY <1>1, CircuitMoves DEF ClientInv, ClientTypeOK, OpenedAtThreshold
<1> QED BY <1>2, RequestMoves DEF ClientInv, ClientTypeOK

\* So does the passing of time.
LEMMA ClientTickInv == ClientInv /\ ClientTick => ClientInv'
BY DEF ClientInv, ClientTypeOK, ClientTick, RestingHasAttempts, OpenedAtThreshold, Circuit

\* So does every step outside the client.
LEMMA ClientStutterInv == ClientInv /\ UNCHANGED clientVars => ClientInv'
BY DEF ClientInv, ClientTypeOK, clientVars, RestingHasAttempts, OpenedAtThreshold

\* While the circuit is open a step of a coroutine sends nothing.
Quiet == Open(circuit) => {c \in Caller : request'[c].pc = "sending"} \subseteq InFlight

\* No step of a request sends it while the circuit is open.
LEMMA ClientStepQuiet ==
  ASSUME ClientInv, NEW c \in Caller, ClientStep(c)
  PROVE  Quiet
<1> SUFFICES ASSUME Open(circuit), NEW d \in Caller, request'[d].pc = "sending"
             PROVE  request[d].pc = "sending"
  BY DEF Quiet, InFlight
<1> USE DEF ClientInv, ClientTypeOK
<1>1. CASE d # c
  BY <1>1 DEF ClientStep, Start, Resume, Pass, Answer, Fail, Cancel, Return
<1>2. CASE d = c
  BY <1>2 DEF ClientStep, Start, Resume, Pass, Answer, Fail, Cancel, Return, At, NoRequest, Request
<1> QED BY <1>1, <1>2

\* The client alone: its types and its circuit, for every number of coroutines.
THEOREM ClientCorrect == ClientSpec => []ClientInv
<1>1. ClientInv /\ [ClientNext]_clientVars => ClientInv'
  BY ClientStepInv, ClientTickInv, ClientStutterInv DEF ClientNext, ClientStep
<1> QED BY <1>1, ClientInitial, PTL DEF ClientSpec

-----------------------------------------------------------------------------
\* The broker: what its steps do to the client.

BrokerTypeOK ==
  /\ row \in Row
  /\ call \in [Caller -> Call]
  /\ made \in Ticket
  /\ told \subseteq Ticket

\* The empty row, call and request have their types.
LEMMA ConstantsFit ==
  /\ NoRow \in Row /\ NoCall \in Call /\ NoRequest \in Request
  /\ NoRequest.pc = "idle" /\ NoCall.pc = "idle"
BY DEF NoRow, Row, NoCall, Call, Turn, Ticket, NoRequest, Request, At

\* Every action of a call is a step of its request or leaves the client alone.
LEMMA CallTouchesClient ==
  ASSUME NEW c \in Caller,
         \/ \E p \in Payload : Reserve(c, p) \/ Replay(c, p)
         \/ Read(c) \/ Step(c) \/ Reply(c)
         \/ \E retryable \in BOOLEAN : Refuse(c, retryable)
  PROVE  ClientStep(c) \/ UNCHANGED clientVars
<1>1. ASSUME NEW p \in Payload, Reserve(c, p) \/ Replay(c, p) PROVE UNCHANGED clientVars
  BY <1>1 DEF Reserve, Replay
<1>2. ASSUME Read(c) \/ Complete(c) \/ CompleteFails(c) \/ Release(c) PROVE UNCHANGED clientVars
  BY <1>2 DEF Read, Complete, CompleteFails, Release
<1>3. ASSUME Send(c) \/ Retry(c) \/ Proceed(c) \/ Conclude(c) \/ GiveUp(c) \/ TimeOut(c) \/ Reply(c)
      PROVE  ClientStep(c)
  BY <1>3 DEF Send, Retry, Proceed, Conclude, GiveUp, TimeOut, Reply, ClientStep
<1>4. ASSUME NEW retryable \in BOOLEAN, Refuse(c, retryable) PROVE ClientStep(c)
  BY <1>4 DEF Refuse, ClientStep
<1> QED BY <1>1, <1>2, <1>3, <1>4 DEF Step

CallAction(c) ==
  \/ \E p \in Payload : Reserve(c, p) \/ Replay(c, p)
  \/ Read(c) \/ Step(c) \/ Reply(c)
  \/ \E retryable \in BOOLEAN : Refuse(c, retryable)

\* Every step of the broker keeps the client's invariant.
LEMMA ClientInvStep == ClientInv /\ [Next]_brokerVars => ClientInv'
<1> SUFFICES ASSUME ClientInv, [Next]_brokerVars PROVE ClientInv'
  OBVIOUS
<1>1. ASSUME NEW c \in Caller, CallAction(c) PROVE ClientInv'
  BY <1>1, CallTouchesClient, ClientStepInv, ClientStutterInv DEF CallAction
<1>2. ASSUME NEW c \in Caller, Lose(c) PROVE ClientInv'
  BY <1>2, ConstantsFit
     DEF Lose, ClientInv, ClientTypeOK, RestingHasAttempts, OpenedAtThreshold
<1>3. CASE Restart
  <2>1. Closed \in Circuit /\ (Closed.opened <=> Closed.failures = Threshold)
    BY DEF Closed, Circuit
  <2> QED BY <1>3, <2>1, ConstantsFit
             DEF Restart, ClientInv, ClientTypeOK, RestingHasAttempts, OpenedAtThreshold
<1>4. CASE Tick
  BY <1>4, ClientTickInv DEF Tick
<1>5. CASE UNCHANGED brokerVars
  BY <1>5, ClientStutterInv DEF brokerVars
<1> QED BY <1>1, <1>2, <1>3, <1>4, <1>5 DEF Next, CallAction

-----------------------------------------------------------------------------
\* The types of the broker.

\* Where made goes when a request may have landed.
LEMMA LandedFits ==
  ASSUME NEW c \in Caller, Landed(c), made \in Ticket
  PROVE  made' \in Ticket
BY DEF Landed, Ticket

\* A call that goes on to its next stage keeps the types of the calls.
LEMMA GotoFits ==
  ASSUME call \in [Caller -> Call], NEW c \in Caller,
         NEW a \in {"idle", "lookup", "create", "complete", "release"},
         NEW t \in Ticket, Goto(c, a, t)
  PROVE  call' \in [Caller -> Call]
BY DEF Goto, Turn, Call

\* A call that ends keeps the types of the calls.
LEMMA QuitFits ==
  ASSUME call \in [Caller -> Call], NEW c \in Caller, Quit(c)
  PROVE  call' \in [Caller -> Call]
BY ConstantsFit DEF Quit

\* Every step keeps the types of the idempotency row, the calls and the tickets.
LEMMA BrokerTypeStep == BrokerTypeOK /\ [Next]_brokerVars => BrokerTypeOK'
<1> SUFFICES ASSUME BrokerTypeOK, [Next]_brokerVars PROVE BrokerTypeOK'
  OBVIOUS
<1> USE DEF BrokerTypeOK
<1>z. 0 \in Ticket
  BY DEF Ticket
<1>t. \A c \in Caller : /\ call[c].ticket \in Ticket
                        /\ call[c].payload \in Payload \cup {NoPayload}
                        /\ call[c].left \in Nat
                        /\ call[c].pc \in {"idle", "lookup", "create", "complete", "release"}
  BY DEF Call
<1>1. ASSUME NEW c \in Caller, NEW p \in Payload, Reserve(c, p) PROVE BrokerTypeOK'
  <2>1. Reserved(p) \in Row
    BY DEF Reserved, Row, Ticket
  <2>2. Turn("lookup", p, 0, WorkBound) \in Call
    BY DEF Turn, Call, Ticket
  <2> QED BY <1>1, <2>1, <2>2 DEF Reserve
<1>2. ASSUME NEW c \in Caller, NEW p \in Payload, Replay(c, p) PROVE BrokerTypeOK'
  BY <1>2 DEF Replay, Row
<1>3. ASSUME NEW c \in Caller, Read(c) PROVE BrokerTypeOK'
  <2>1. Turn("lookup", NoPayload, 0, WorkBound) \in Call
    BY DEF Turn, Call, Ticket
  <2> QED BY <1>3, <2>1 DEF Read
<1>4. ASSUME NEW c \in Caller, Send(c) \/ Retry(c) PROVE BrokerTypeOK'
  BY <1>4 DEF Send, Retry
<1>5. ASSUME NEW c \in Caller, Reply(c) PROVE BrokerTypeOK'
  <2>1. Posting(c) => made + 1 \in Ticket
    BY <1>5 DEF Reply, Ticket
  <2>2. (IF Posting(c) THEN made + 1 ELSE 0) \in Ticket
    BY <2>1, <1>z
  <2>3. call' \in [Caller -> Call]
    BY <1>5, <1>t, <2>2, GotoFits DEF Reply
  <2> QED BY <1>5, <2>1, <2>3 DEF Reply
<1>6. ASSUME NEW c \in Caller, NEW retryable \in BOOLEAN, Refuse(c, retryable) PROVE BrokerTypeOK'
  BY <1>6, LandedFits DEF Refuse
<1>7. ASSUME NEW c \in Caller, TimeOut(c) PROVE BrokerTypeOK'
  BY <1>7, LandedFits DEF TimeOut
<1>8. ASSUME NEW c \in Caller, Proceed(c) PROVE BrokerTypeOK'
  <2>1. PICK a \in {"create", "release"} : Goto(c, a, 0)
    BY <1>8 DEF Proceed
  <2> QED BY <1>8, <2>1, <1>z, GotoFits DEF Proceed
<1>9. ASSUME NEW c \in Caller, Conclude(c) PROVE BrokerTypeOK'
  <2>1. PICK a \in {"complete", "release"} : Goto(c, a, call[c].ticket)
    BY <1>9 DEF Conclude
  <2> QED BY <1>9, <2>1, <1>t, GotoFits DEF Conclude
<1>10. ASSUME NEW c \in Caller, GiveUp(c) PROVE BrokerTypeOK'
  BY <1>10, <1>z, GotoFits DEF GiveUp
<1>11. ASSUME NEW c \in Caller, Complete(c) PROVE BrokerTypeOK'
  <2>1. Completed(call[c].payload, call[c].ticket) \in Row
    BY <1>t DEF Completed, Row
  <2> QED BY <1>11, <1>t, <2>1, QuitFits DEF Complete
<1>12. ASSUME NEW c \in Caller, CompleteFails(c) PROVE BrokerTypeOK'
  BY <1>12, <1>t, GotoFits DEF CompleteFails
<1>13. ASSUME NEW c \in Caller, Release(c) PROVE BrokerTypeOK'
  BY <1>13, ConstantsFit, QuitFits DEF Release
<1>14. ASSUME NEW c \in Caller, Lose(c) PROVE BrokerTypeOK'
  BY <1>14, LandedFits, QuitFits DEF Lose
<1>15. CASE Restart
  BY <1>15, LandedFits, ConstantsFit DEF Restart
<1>16. CASE Tick
  <2>1. row' \in Row
    BY <1>16 DEF Tick, Row
  <2>2. \A c \in Caller : Handling(c) => [call[c] EXCEPT !.left = call[c].left - 1] \in Call
    BY <1>16, <1>t DEF Tick, Call
  <2>3. call' \in [Caller -> Call]
    BY <1>16, <2>2 DEF Tick
  <2> QED BY <1>16, <2>1, <2>3 DEF Tick
<1>17. CASE UNCHANGED brokerVars
  BY <1>17 DEF brokerVars
<1> QED BY <1>1, <1>2, <1>3, <1>4, <1>5, <1>6, <1>7, <1>8, <1>9, <1>10, <1>11, <1>12,
           <1>13, <1>14, <1>15, <1>16, <1>17 DEF Next, Step

-----------------------------------------------------------------------------
\* Who owns the row of the key.

\* A writing call owns the row and has less time than the row has lease, and
\* it is the only one; only writing calls post and conclude.
HolderInv ==
  \A c \in Caller :
    /\ call[c].pc \in {"create", "complete"} => Writing(c)
    /\ Writing(c) => /\ row.state = "in_progress"
                     /\ row.payload = call[c].payload
                     /\ row.lease > call[c].left
                     /\ \A d \in Caller : Writing(d) => d = c

\* No call begins to write, and those that write go on as they were.
Keeps ==
  /\ row' = row
  /\ \A c \in Caller : /\ Writing(c)' => /\ Writing(c)
                                         /\ call'[c].payload = call[c].payload
                                         /\ call'[c].left = call[c].left
                       /\ call'[c].pc \in {"create", "complete"} => Writing(c)'

\* A step that starts no writing call keeps the owner of the row.
LEMMA KeepsHolder == HolderInv /\ Keeps => HolderInv'
BY DEF HolderInv, Keeps

\* A call that goes on to its next stage starts no writing.
LEMMA GotoWrites ==
  ASSUME call \in [Caller -> Call], NEW c \in Caller, NEW a, NEW t,
         Goto(c, a, t), HolderInv,
         a \in {"create", "complete"} => Writing(c),
         call[c].pc = "idle" => a = "idle"
  PROVE  /\ \A d \in Caller : Writing(d)' =>
              /\ Writing(d)
              /\ call'[d].payload = call[d].payload /\ call'[d].left = call[d].left
         /\ \A d \in Caller : call'[d].pc \in {"create", "complete"} => Writing(d)'
BY DEF Goto, Turn, Call, Writing, Handling, HolderInv

\* A call that ends starts no writing and writes no more.
LEMMA QuitWrites ==
  ASSUME call \in [Caller -> Call], NEW c \in Caller, Quit(c), HolderInv
  PROVE  /\ ~Writing(c)'
         /\ \A d \in Caller : Writing(d)' =>
              /\ Writing(d) /\ d # c
              /\ call'[d].payload = call[d].payload /\ call'[d].left = call[d].left
         /\ \A d \in Caller : call'[d].pc \in {"create", "complete"} => Writing(d)'
BY DEF Quit, NoCall, Turn, Call, Writing, Handling, HolderInv

\* A step that touches neither the row nor the calls keeps who writes.
LEMMA SameWrites ==
  ASSUME UNCHANGED <<row, call>>, HolderInv
  PROVE  Keeps
BY DEF Keeps, Writing, Handling, HolderInv

\* Under Timely every step leaves the row of a writing call to that call.
LEMMA HolderStep ==
  ASSUME Timely, BrokerTypeOK, HolderInv, [Next]_brokerVars
  PROVE  HolderInv'
<1> USE DEF BrokerTypeOK
<1>1. ASSUME NEW c \in Caller, NEW p \in Payload, Reserve(c, p) PROVE HolderInv'
  <2>1. \A d \in Caller : ~Writing(d)
    BY <1>1 DEF Reserve, Free, HolderInv, Call
  <2>2. call'[c] = Turn("lookup", p, 0, WorkBound)
    BY <1>1 DEF Reserve
  <2>3. \A d \in Caller : d # c => call'[d] = call[d]
    BY <1>1 DEF Reserve
  <2>4. \A d \in Caller : d # c => ~Writing(d)' /\ call'[d].pc \notin {"create", "complete"}
    BY <2>1, <2>3 DEF Writing, Handling, HolderInv
  <2>5. row' = Reserved(p)
    BY <1>1 DEF Reserve
  <2>6. row'.state = "in_progress" /\ row'.payload = p /\ row'.lease = Lease
    BY <2>5 DEF Reserved
  <2>7. call'[c].pc = "lookup" /\ call'[c].payload = p /\ call'[c].left = WorkBound
    BY <2>2 DEF Turn
  <2> QED BY <2>4, <2>6, <2>7 DEF HolderInv, Timely
<1>2. ASSUME NEW c \in Caller, NEW p \in Payload, Replay(c, p) PROVE HolderInv'
  BY <1>2, SameWrites, KeepsHolder DEF Replay
<1>3. ASSUME NEW c \in Caller, Read(c) PROVE HolderInv'
  <2>1. Keeps
    BY <1>3 DEF Read, Keeps, Turn, Call, Writing, Handling, HolderInv
  <2> QED BY <2>1, KeepsHolder
<1>4. ASSUME NEW c \in Caller, Send(c) \/ Retry(c) PROVE HolderInv'
  BY <1>4, SameWrites, KeepsHolder DEF Send, Retry
<1>5. ASSUME NEW c \in Caller, Reply(c) PROVE HolderInv'
  <2>1. Keeps
    BY <1>5, GotoWrites DEF Reply, Keeps, HolderInv
  <2> QED BY <2>1, KeepsHolder
<1>6. ASSUME NEW c \in Caller, NEW retryable \in BOOLEAN, Refuse(c, retryable) PROVE HolderInv'
  BY <1>6, SameWrites, KeepsHolder DEF Refuse
<1>7. ASSUME NEW c \in Caller, TimeOut(c) PROVE HolderInv'
  BY <1>7, SameWrites, KeepsHolder DEF TimeOut
<1>8. ASSUME NEW c \in Caller, Proceed(c) PROVE HolderInv'
  <2>1. PICK a \in (IF Writing(c) THEN {"create", "release"} ELSE {"release"}) : Goto(c, a, 0)
    BY <1>8 DEF Proceed
  <2>2. Keeps
    BY <1>8, <2>1, GotoWrites DEF Proceed, Keeps
  <2> QED BY <2>2, KeepsHolder
<1>9. ASSUME NEW c \in Caller, Conclude(c) PROVE HolderInv'
  <2>1. PICK a \in {"complete", "release"} : Goto(c, a, call[c].ticket)
    BY <1>9 DEF Conclude
  <2>2. Writing(c)
    BY <1>9 DEF Conclude, HolderInv
  <2>3. Keeps
    BY <1>9, <2>1, <2>2, GotoWrites DEF Conclude, Keeps
  <2> QED BY <2>3, KeepsHolder
<1>10. ASSUME NEW c \in Caller, GiveUp(c) PROVE HolderInv'
  <2>1. Keeps
    BY <1>10, GotoWrites DEF GiveUp, Keeps
  <2> QED BY <2>1, KeepsHolder
<1>11. ASSUME NEW c \in Caller, Complete(c) PROVE HolderInv'
  <2>1. Writing(c)
    BY <1>11 DEF Complete, HolderInv
  <2>2. \A d \in Caller : ~Writing(d)' /\ call'[d].pc \notin {"create", "complete"}
    BY <1>11, <2>1, QuitWrites DEF Complete, HolderInv
  <2> QED BY <2>2 DEF HolderInv
<1>12. ASSUME NEW c \in Caller, CompleteFails(c) PROVE HolderInv'
  <2>1. Keeps
    BY <1>12, GotoWrites DEF CompleteFails, Keeps
  <2> QED BY <2>1, KeepsHolder
<1>13. ASSUME NEW c \in Caller, Release(c) PROVE HolderInv'
  <2>1. CASE Writing(c)
    <3>1. \A d \in Caller : ~Writing(d)' /\ call'[d].pc \notin {"create", "complete"}
      BY <1>13, <2>1, QuitWrites DEF Release, HolderInv
    <3> QED BY <3>1 DEF HolderInv
  <2>2. CASE ~Writing(c)
    <3>1. call[c].payload = NoPayload
      BY <1>13, <2>2 DEF Release, Writing, Handling
    <3>2. ASSUME NEW d \in Caller, Writing(d) PROVE ~Mine(c)
      BY <3>1, <3>2 DEF Mine, HolderInv, Writing
    <3>3. (\A d \in Caller : ~Writing(d)) \/ row' = row
      BY <1>13, <3>2 DEF Release
    <3>4. ASSUME \A d \in Caller : ~Writing(d) PROVE HolderInv'
      BY <1>13, <3>4, QuitWrites DEF Release, HolderInv
    <3>5. ASSUME row' = row PROVE HolderInv'
      BY <1>13, <3>5, QuitWrites, KeepsHolder DEF Release, Keeps
    <3> QED BY <3>3, <3>4, <3>5
  <2> QED BY <2>1, <2>2
<1>14. ASSUME NEW c \in Caller, Lose(c) PROVE HolderInv'
  BY <1>14, QuitWrites, KeepsHolder DEF Lose, Keeps
<1>15. CASE Restart
  BY <1>15, KeepsHolder DEF Restart, Keeps, NoCall, Turn, Writing, Handling
<1>16. CASE Tick
  <2>1. \A c \in Caller : /\ Writing(c)' <=> Writing(c)
                          /\ call'[c].pc = call[c].pc
                          /\ call'[c].payload = call[c].payload
                          /\ Writing(c) => call'[c].left = call[c].left - 1 /\ call[c].left > 0
    BY <1>16 DEF Tick, Writing, Handling, Call
  <2>2. /\ row'.state = row.state /\ row'.payload = row.payload
        /\ row.lease > 0 => row'.lease = row.lease - 1
    BY <1>16 DEF Tick, Row
  <2>3. row.lease \in Nat /\ \A c \in Caller : call[c].left \in Nat
    BY DEF Row, Call
  <2> QED BY <2>1, <2>2, <2>3 DEF HolderInv
<1>17. CASE UNCHANGED brokerVars
  BY <1>17, SameWrites, KeepsHolder DEF brokerVars
<1> QED BY <1>1, <1>2, <1>3, <1>4, <1>5, <1>6, <1>7, <1>8, <1>9, <1>10, <1>11, <1>12,
           <1>13, <1>14, <1>15, <1>16, <1>17 DEF Next, Step

-----------------------------------------------------------------------------
\* What callers were told of.

\* A ticket somebody was told of is stored in the row.
AgreeInv == \A t \in told : row.state = "completed" /\ row.ticket = t

\* Row and told move together in few ways.
LEMMA RowMoves ==
  ASSUME NEW c \in Caller, Lose(c) \/ CallAction(c)
  PROVE  \/ UNCHANGED <<row, told>>
         \/ \E p \in Payload : Free(p) /\ row' = Reserved(p) /\ told' = told
         \/ row.state = "completed" /\ row' = row /\ told' = told \cup {row.ticket}
         \/ Complete(c)
         \/ Release(c)
<1>1. ASSUME NEW p \in Payload, Reserve(c, p)
      PROVE  Free(p) /\ row' = Reserved(p) /\ told' = told
  BY <1>1 DEF Reserve
<1>2. ASSUME NEW p \in Payload, Replay(c, p)
      PROVE  row.state = "completed" /\ row' = row /\ told' = told \cup {row.ticket}
  BY <1>2 DEF Replay
<1>3. ASSUME Lose(c) \/ Read(c) \/ Send(c) \/ Retry(c) \/ Reply(c) \/ TimeOut(c) \/ Proceed(c)
             \/ Conclude(c) \/ GiveUp(c) \/ CompleteFails(c)
      PROVE  UNCHANGED <<row, told>>
  BY <1>3 DEF Lose, Read, Send, Retry, Reply, TimeOut, Proceed, Conclude, GiveUp, CompleteFails
<1>4. ASSUME NEW retryable \in BOOLEAN, Refuse(c, retryable) PROVE UNCHANGED <<row, told>>
  BY <1>4 DEF Refuse
<1> QED BY <1>1, <1>2, <1>3, <1>4 DEF CallAction, Step

\* Every step keeps a reported ticket the one of the completed row.
LEMMA AgreeStep ==
  ASSUME HolderInv, AgreeInv, [Next]_brokerVars
  PROVE  AgreeInv'
<1>1. ASSUME NEW c \in Caller, Lose(c) \/ CallAction(c) PROVE AgreeInv'
  <2>1. CASE UNCHANGED <<row, told>>
    BY <2>1 DEF AgreeInv
  <2>2. ASSUME NEW p \in Payload, Free(p), row' = Reserved(p), told' = told PROVE AgreeInv'
    BY <2>2 DEF Free, AgreeInv
  <2>3. CASE row.state = "completed" /\ row' = row /\ told' = told \cup {row.ticket}
    BY <2>3 DEF AgreeInv
  <2>4. CASE Complete(c)
    <3>1. Mine(c)
      BY <2>4 DEF Complete, HolderInv, Mine
    <3>2. told = {}
      BY <3>1 DEF Mine, AgreeInv
    <3>3. told' = {call[c].ticket} /\ row' = Completed(call[c].payload, call[c].ticket)
      BY <2>4, <3>1, <3>2 DEF Complete
    <3> QED BY <3>3 DEF AgreeInv, Completed
  <2>5. CASE Release(c)
    BY <2>5 DEF Release, Mine, AgreeInv
  <2> QED BY <1>1, <2>1, <2>2, <2>3, <2>4, <2>5, RowMoves
<1>2. CASE Restart
  BY <1>2 DEF Restart, AgreeInv
<1>3. CASE Tick
  BY <1>3 DEF Tick, AgreeInv
<1>4. CASE UNCHANGED brokerVars
  BY <1>4 DEF brokerVars, AgreeInv
<1> QED BY <1>1, <1>2, <1>3, <1>4 DEF Next, CallAction

\* A completed row outlives every step, whoever takes it.
LEMMA FinalStep ==
  ASSUME [Next]_brokerVars, row.state = "completed", row \in Row
  PROVE  row'.state = "completed" /\ row'.payload = row.payload /\ row'.ticket = row.ticket
<1>1. ASSUME NEW c \in Caller, Lose(c) \/ CallAction(c) PROVE row' = row
  <2>1. \A p \in Payload : ~Free(p)
    BY DEF Free
  <2>2. Complete(c) \/ Release(c) => row' = row
    BY DEF Complete, Release, Mine
  <2> QED BY <1>1, <2>1, <2>2, RowMoves
<1>2. CASE Restart
  BY <1>2 DEF Restart
<1>3. CASE Tick
  BY <1>3 DEF Tick, Row
<1>4. CASE UNCHANGED brokerVars
  BY <1>4 DEF brokerVars
<1> QED BY <1>1, <1>2, <1>3, <1>4 DEF Next, CallAction

\* An open circuit keeps the requests on the wire from growing.
LEMMA QuietStep ==
  ASSUME ClientInv, [Next]_brokerVars
  PROVE  [Quiet]_clientVars
<1>1. ASSUME NEW c \in Caller, CallAction(c) PROVE [Quiet]_clientVars
  BY <1>1, CallTouchesClient, ClientStepQuiet DEF CallAction
<1>2. ASSUME NEW c \in Caller, Lose(c) PROVE Quiet
  BY <1>2, ConstantsFit DEF Lose, Quiet, InFlight, ClientInv, ClientTypeOK
<1>3. CASE Restart
  BY <1>3, ConstantsFit DEF Restart, Quiet, InFlight
<1>4. CASE Tick
  BY <1>4 DEF Tick, ClientTick, Quiet, InFlight
<1>5. CASE UNCHANGED brokerVars
  BY <1>5 DEF brokerVars
<1> QED BY <1>1, <1>2, <1>3, <1>4, <1>5 DEF Next, CallAction

-----------------------------------------------------------------------------
\* The theorems.

\* All invariants hold before the first call.
LEMMA BrokerInitial == Init => ClientInv /\ BrokerTypeOK /\ HolderInv /\ AgreeInv
BY ClientInitial, ConstantsFit
   DEF Init, BrokerTypeOK, HolderInv, AgreeInv, Writing, Handling, Ticket

\* Every reachable state of broker, store and client is well typed, and the
\* circuit is open exactly when its failures have reached the threshold.
THEOREM BrokerTypeCorrect == Spec => [](TypeOK /\ OpenedAtThreshold)
<1>1. ClientInv /\ BrokerTypeOK => TypeOK /\ OpenedAtThreshold
  BY DEF ClientInv, BrokerTypeOK, TypeOK
<1> QED BY <1>1, BrokerInitial, ClientInvStep, BrokerTypeStep, PTL DEF Spec

\* When reservations outlast their calls, one call at a time writes for a key.
THEOREM WritesAreExclusive ==
  ASSUME Timely
  PROVE  Spec => []HandlersAreExclusive
<1>1. HolderInv => HandlersAreExclusive
  BY DEF HolderInv, HandlersAreExclusive
<1>2. BrokerTypeOK /\ HolderInv /\ [Next]_brokerVars => BrokerTypeOK' /\ HolderInv'
  BY HolderStep, BrokerTypeStep
<1> QED BY <1>1, <1>2, BrokerInitial, PTL DEF Spec

\* Under the same condition all callers are told of the same ticket.
THEOREM CallersAgree ==
  ASSUME Timely
  PROVE  Spec => []SuccessesAgree
<1>1. AgreeInv => SuccessesAgree
  BY DEF AgreeInv, SuccessesAgree
<1>2. /\ BrokerTypeOK /\ HolderInv /\ AgreeInv /\ [Next]_brokerVars
      => BrokerTypeOK' /\ HolderInv' /\ AgreeInv'
  BY HolderStep, BrokerTypeStep, AgreeStep
<1> QED BY <1>1, <1>2, BrokerInitial, PTL DEF Spec

\* A stored result is final whatever the leases: no late call changes it.
THEOREM ResultsAreFinal == Spec => CompletedIsFinal
<1>1. BrokerTypeOK /\ [Next]_brokerVars =>
        [row.state = "completed" =>
           row'.state = "completed" /\ row'.payload = row.payload
           /\ row'.ticket = row.ticket]_brokerVars
  BY FinalStep DEF BrokerTypeOK
<1> QED BY <1>1, BrokerInitial, BrokerTypeStep, PTL DEF Spec, CompletedIsFinal

\* An open circuit leaves the upstream alone, in the broker too.
THEOREM OpenCircuitIsQuiet == Spec => OpenIsQuiet
<1>1. ClientInv /\ [Next]_brokerVars =>
        [Open(circuit) => {c \in Caller : request'[c].pc = "sending"} \subseteq InFlight]_clientVars
  BY QuietStep DEF Quiet
<1> QED BY <1>1, BrokerInitial, ClientInvStep, PTL DEF Spec, OpenIsQuiet
=============================================================================
