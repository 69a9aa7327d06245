-------------------------- MODULE AlertOutbox_proofs --------------------------
(***************************************************************************)
(* Proofs about AlertOutbox for every fleet of dispatchers, every number   *)
(* of alerts, every lease and every attempt limit.                         *)
(***************************************************************************)
EXTENDS AlertOutbox, TLAPS

\* A countdown of a lease, a POST or a retry delay stays a natural number.
LEMMA DecrementType == ASSUME NEW n \in Nat PROVE Decrement(n) \in Nat
  BY DEF Decrement

\* Every delay a failed delivery may set is a natural number.
LEMMA DelayType == ASSUME NEW d \in Delays PROVE d \in Nat
  BY OutboxAssumption DEF Delays, Least

\* The state of a dispatcher between two cycles is a state of a cycle.
LEMMA IdleType == Idle \in Cycle
  BY DEF Idle, Cycle, Outcome

\* The fresh database and the dispatchers before their first cycle have their types.
LEMMA TypeInit == Init => TypeOK
  <1> SUFFICES ASSUME Init PROVE TypeOK
    OBVIOUS
  <1>1. outbox \in [RowId -> Row]
    BY DEF Init, Row, Status
  <1>2. proc \in [Dispatcher -> Cycle]
    BY IdleType DEF Init
  <1> QED
    BY <1>1, <1>2, OutboxAssumption DEF Init, TypeOK

\* Every action keeps every variable in its type.
LEMMA TypeNext == TypeOK /\ [Next]_vars => TypeOK'
  <1> SUFFICES ASSUME TypeOK, [Next]_vars PROVE TypeOK'
    OBVIOUS
  <1> USE OutboxAssumption DEF audit
  <1>a. ASSUME NEW p \in Dispatcher, Step(p) \/ Crash(p) \/ Reconfigure(p)
        PROVE  TypeOK'
    <2>1. CASE StartCycle(p)
      BY <2>1, IdleType DEF StartCycle, TypeOK, Idle, Cycle
    <2>2. ASSUME NEW a \in Alert, EnqueueAlert(p, a) PROVE TypeOK'
      <3>1. proc' \in [Dispatcher -> Cycle]
        BY <2>2 DEF EnqueueAlert, TypeOK, Cycle
      <3> DEFINE new == [alert |-> a, status |-> "pending", attempts |-> 0,
                         worker |-> NoWorker, lease |-> 0, backoff |-> 0]
      <3>a. new \in Row
        BY DEF Row, Status
      <3>2. outbox' \in [RowId -> Row] /\ issued' \in 0 .. MaxRows
        <4>1. CASE UNCHANGED <<outbox, issued>>
          BY <4>1 DEF TypeOK
        <4>2. CASE /\ issued < MaxRows
                   /\ issued' = issued + 1
                   /\ outbox' = [outbox EXCEPT ![issued + 1] = new]
          <5> HIDE DEF new
          <5> QED
            BY <3>a, <4>2 DEF TypeOK, RowId
        <4> QED
          BY <2>2, <4>1, <4>2 DEF EnqueueAlert
      <3> QED
        BY <2>2, <3>1, <3>2 DEF EnqueueAlert, TypeOK
    <2>3. CASE Claim(p)
      <3>1. Batch(p) \subseteq RowId
        BY DEF Batch, Due
      <3>2. outbox' \in [RowId -> Row]
        <4>1. ASSUME NEW i \in RowId PROVE [outbox[i] EXCEPT !.status = "in_progress",
                                                             !.worker = WorkerId[p],
                                                             !.lease = ClaimLease] \in Row
          BY ClaimLease \in Nat DEF TypeOK, Row, Status
        <4> QED
          BY <2>3, <4>1 DEF Claim, TypeOK
      <3>3. proc' \in [Dispatcher -> Cycle]
        <4> DEFINE c == [proc[p] EXCEPT !.pc = "dispatch", !.batch = Batch(p)]
        <4>1. proc' = [proc EXCEPT ![p] = c]
          BY <2>3 DEF Claim, TypeOK
        <4>2. proc[p] \in Cycle /\ Batch(p) \in SUBSET RowId
          BY <3>1 DEF TypeOK
        <4>3. c \in Cycle
          BY <4>2 DEF Cycle
        <4> HIDE DEF c
        <4> QED
          BY <4>1, <4>3 DEF TypeOK
      <3> QED
        BY <2>3, <3>2, <3>3 DEF Claim, TypeOK
    <2>4. ASSUME NEW i \in RowId, Refresh(p, i) PROVE TypeOK'
      <3>1. outbox' \in [RowId -> Row]
        BY <2>4 DEF Refresh, TypeOK, Row
      <3> DEFINE c == [proc[p] EXCEPT !.pc = "posting", !.row = i,
                                      !.batch = @ \ {i}, !.left = PostBound]
      <3>a. c \in Cycle
        <4>1. proc[p] \in Cycle /\ proc[p].batch \ {i} \in SUBSET RowId
          BY DEF TypeOK, Cycle
        <4> QED
          BY <4>1, PostBound \in Nat DEF Cycle
      <3>2. proc' \in [Dispatcher -> Cycle]
        <4>1. proc' = [proc EXCEPT ![p] = c]
          BY <2>4 DEF Refresh
        <4> HIDE DEF c
        <4> QED
          BY <4>1, <3>a DEF TypeOK
      <3> QED
        BY <2>4, <3>1, <3>2 DEF Refresh, TypeOK
    <2>5. ASSUME NEW i \in RowId, SkipLost(p, i) PROVE TypeOK'
      BY <2>5 DEF SkipLost, TypeOK, Cycle
    <2>6. ASSUME NEW i \in RowId, AbortCycle(p, i) PROVE TypeOK'
      BY <2>6, IdleType DEF AbortCycle, TypeOK
    <2>7. ASSUME NEW result \in Outcome, PostReturns(p, result) PROVE TypeOK'
      <3> DEFINE c == [proc[p] EXCEPT !.pc = "posted", !.outcome = result]
      <3>1. proc' = [proc EXCEPT ![p] = c]
        BY <2>7 DEF PostReturns, TypeOK
      <3>2. proc[p] \in Cycle
        BY DEF TypeOK
      <3>3. c \in Cycle
        BY <3>2 DEF Cycle
      <3>4. proc' \in [Dispatcher -> Cycle]
        <4> HIDE DEF c
        <4> QED
          BY <3>1, <3>3 DEF TypeOK
      <3> QED
        BY <2>7, <3>4 DEF PostReturns, TypeOK
    <2>b. NextInBatch(p) \in Cycle
      BY DEF NextInBatch, TypeOK, Idle, Cycle, Outcome
    <2>8. CASE RecordAttempt(p)
      <3>1. PICK delay \in Delays :
              outbox' = [outbox EXCEPT ![proc[p].row] = Attempted(p, @, delay)]
        BY <2>8 DEF RecordAttempt
      <3>2. delay \in Nat
        BY DelayType
      <3>3. ASSUME NEW r \in Row PROVE Attempted(p, r, delay) \in Row
        <4> DEFINE final == IF proc[p].outcome = "sent" THEN "sent"
                            ELSE IF r.attempts + 1 >= maxAttempts[p] THEN "dead" ELSE "failed"
                   pause == IF final = "failed" THEN delay ELSE 0
        <4>1. final \in Status /\ pause \in Nat /\ r.attempts + 1 \in Nat
          BY <3>2 DEF Status, Row
        <4>2. Attempted(p, r, delay) =
                [r EXCEPT !.status = final, !.attempts = r.attempts + 1,
                          !.worker = NoWorker, !.lease = 0, !.backoff = pause]
          BY DEF Attempted
        <4> HIDE DEF final, pause
        <4>3. Attempted(p, r, delay) =
                [alert |-> r.alert, status |-> final, attempts |-> r.attempts + 1,
                 worker |-> NoWorker, lease |-> 0, backoff |-> pause]
          BY <4>2 DEF Row
        <4>4. r.alert \in Alert \cup {NoAlert}
          BY DEF Row
        <4> QED
          BY <4>1, <4>3, <4>4 DEF Row
      <3>4. outbox' \in [RowId -> Row]
        BY <3>1, <3>3 DEF TypeOK
      <3> QED
        BY <2>8, <2>b, <3>4 DEF RecordAttempt, TypeOK
    <2>9. CASE DropOutcome(p)
      BY <2>9, <2>b DEF DropOutcome, TypeOK
    <2>10. CASE EndCycle(p)
      BY <2>10, IdleType DEF EndCycle, TypeOK
    <2>11. CASE Crash(p)
      BY <2>11, IdleType DEF Crash, TypeOK
    <2>12. CASE Reconfigure(p)
      BY <2>12 DEF Reconfigure, TypeOK
    <2> QED
      BY <1>a, <2>1, <2>2, <2>3, <2>4, <2>5, <2>6, <2>7, <2>8, <2>9, <2>10, <2>11, <2>12
      DEF Step
  <1>b. ASSUME NEW i \in RowId, Requeue(i) \/ Close(i) \/ Retain(i) PROVE TypeOK'
    <2>1. outbox' \in [RowId -> Row]
      BY <1>b DEF Requeue, Close, Retain, TypeOK, Row, Status
    <2> QED
      BY <1>b, <2>1 DEF Requeue, Close, Retain, TypeOK
  <1>c. ASSUME NEW a \in Alert, Raise(a) \/ Settle(a) PROVE TypeOK'
    BY <1>c DEF Raise, Settle, TypeOK
  <1>d. CASE Tick
    <2>1. outbox' \in [RowId -> Row]
      BY <1>d, DecrementType DEF Tick, TypeOK, Row
    <2>2. proc' \in [Dispatcher -> Cycle]
      BY <1>d, DecrementType DEF Tick, TypeOK, Cycle
    <2> QED
      BY <1>d, <2>1, <2>2 DEF Tick, TypeOK
  <1>e. ASSUME NEW i \in RowId, AppendClosing(i) PROVE TypeOK'
    BY <1>e DEF AppendClosing, TypeOK
  <1>f. CASE CrashApi
    BY <1>f DEF CrashApi, TypeOK
  <1>g. CASE UNCHANGED vars
    BY <1>g DEF vars, audit, TypeOK
  <1> QED
    BY <1>a, <1>b, <1>c, <1>d, <1>e, <1>f, <1>g DEF Next

\* The rows, the dispatchers' cycles and the counters keep their types: no
\* interleaving leaves a row in a status the outbox does not know.
THEOREM TypeCorrect == Spec => []TypeOK
  BY TypeInit, TypeNext, PTL DEF Spec
-----------------------------------------------------------------------------
\* The clock touches nothing of a row but its lease and its backoff.
LEMMA TickRow ==
  ASSUME TypeOK, Tick, NEW k \in RowId
  PROVE  /\ outbox'[k].status = outbox[k].status
         /\ outbox'[k].alert = outbox[k].alert
         /\ outbox'[k].worker = outbox[k].worker
         /\ outbox'[k].attempts = outbox[k].attempts
         /\ outbox'[k].lease = Decrement(outbox[k].lease)
  <1>1. outbox[k] \in Row
    BY DEF TypeOK
  <1>2. outbox'[k] = [outbox[k] EXCEPT !.lease = Decrement(@), !.backoff = Decrement(@)]
    BY DEF Tick
  <1> QED
    BY <1>1, <1>2 DEF Row

\* Rows above the counter are not in the table.
LEMMA FreshInv == Spec => []FreshRows
  <1>1. Init => FreshRows
    BY DEF Init, FreshRows
  <1>2. TypeOK /\ FreshRows /\ [Next]_vars => FreshRows'
    <2> SUFFICES ASSUME TypeOK, FreshRows, [Next]_vars, NEW k \in RowId, k > issued'
                 PROVE  outbox'[k].status = "absent"
      BY DEF FreshRows
    <2> USE DEF FreshRows, RowId
    <2>0. outbox \in [RowId -> Row] /\ issued \in 0 .. MaxRows /\ MaxRows \in Nat
      BY OutboxAssumption DEF TypeOK
    <2>1. ASSUME NEW p \in Dispatcher, NEW a \in Alert, EnqueueAlert(p, a)
          PROVE  outbox'[k].status = "absent"
      BY <2>0, <2>1 DEF EnqueueAlert
    <2>2. ASSUME NEW p \in Dispatcher, Claim(p) PROVE outbox'[k].status = "absent"
      BY <2>0, <2>2 DEF Claim, Batch, Due
    <2>3. ASSUME NEW p \in Dispatcher, NEW i \in RowId, Refresh(p, i)
          PROVE  outbox'[k].status = "absent"
      BY <2>0, <2>3 DEF Refresh, Held
    <2>4. ASSUME NEW p \in Dispatcher, RecordAttempt(p) PROVE outbox'[k].status = "absent"
      BY <2>0, <2>4 DEF RecordAttempt, Held
    <2>5. ASSUME NEW i \in RowId, Requeue(i) \/ Close(i) \/ Retain(i)
          PROVE  outbox'[k].status = "absent"
      <3>1. k > issued /\ outbox[i].status # "absent"
        BY <2>5, SMTT(30) DEF Requeue, Close, Retain
      <3>2. i # k
        BY <2>0, <3>1
      <3>3. CASE Requeue(i)
        BY <2>0, <3>1, <3>2, <3>3, SMTT(30) DEF Requeue
      <3>4. CASE Close(i)
        BY <2>0, <3>1, <3>2, <3>4, SMTT(30) DEF Close
      <3>5. CASE Retain(i)
        BY <2>0, <3>1, <3>2, <3>5, SMTT(30) DEF Retain
      <3> QED
        BY <2>5, <3>3, <3>4, <3>5
    <2>6. CASE Tick
      BY <2>0, <2>6, TickRow DEF Tick
    <2>7. CASE UNCHANGED <<outbox, issued>>
      BY <2>7
    <2> QED
      BY <2>1, <2>2, <2>3, <2>4, <2>5, <2>6, <2>7
      DEF Next, Step, vars, StartCycle, SkipLost, AbortCycle, PostReturns, DropOutcome,
          EndCycle, Crash, Reconfigure, Raise, Settle, AppendClosing, CrashApi
  <1> QED
    BY <1>1, <1>2, TypeCorrect, PTL DEF Spec

\* While a dispatcher posts, it holds the row with a lease that outlasts the
\* POST.  The invariant is inductive as it stands: a claim needs a lease that
\* has run out, a refresh or a record needs the row's worker id, and operators
\* and retention need a row that is not in progress.
THEOREM LeaseCovers ==
  ASSUME DistinctWorkers, LeaseOutlastsPost
  PROVE  Spec => []LeaseCoversPost
  <1>1. Init => LeaseCoversPost
    BY DEF Init, LeaseCoversPost, Busy, Idle
  <1>2. TypeOK /\ FreshRows /\ LeaseCoversPost /\ [Next]_vars => LeaseCoversPost'
    <2> SUFFICES ASSUME TypeOK, FreshRows, LeaseCoversPost, [Next]_vars,
                        NEW q \in Dispatcher, Busy(q)'
                 PROVE  (/\ proc[q].row \in RowId
                         /\ Held(q, proc[q].row)
                         /\ outbox[proc[q].row].lease > proc[q].left)'
      BY DEF LeaseCoversPost
    <2> DEFINE Covered == /\ proc'[q].row \in RowId
                          /\ outbox'[proc'[q].row].status = "in_progress"
                          /\ outbox'[proc'[q].row].worker = WorkerId[q]
                          /\ outbox'[proc'[q].row].lease > proc'[q].left
    <2>0. /\ outbox \in [RowId -> Row] /\ proc \in [Dispatcher -> Cycle]
          /\ issued \in 0 .. MaxRows /\ MaxRows \in Nat
          /\ proc[q].left \in Nat
      BY OutboxAssumption DEF TypeOK, Cycle
    <2>b. Busy(q) => /\ proc[q].row \in RowId
                     /\ Held(q, proc[q].row)
                     /\ outbox[proc[q].row].lease > proc[q].left
      BY DEF LeaseCoversPost
    \* A step that leaves q's cycle and q's row alone keeps the row covered.
    <2>c. ASSUME proc'[q] = proc[q], outbox'[proc[q].row] = outbox[proc[q].row] PROVE Covered
      <3>1. Busy(q)
        BY <2>c DEF Busy
      <3> QED
        BY <2>b, <2>c, <3>1 DEF Held
    <2> SUFFICES Covered
      BY DEF Held
    <2>1. ASSUME NEW p \in Dispatcher, NEW a \in Alert, EnqueueAlert(p, a) PROVE Covered
      <3>1. p # q /\ Busy(q) /\ proc'[q] = proc[q]
        BY <2>0, <2>1 DEF EnqueueAlert, Busy, Cycle
      <3>2. proc[q].row # issued + 1 \/ UNCHANGED outbox
        BY <2>0, <2>1, <2>b, <3>1 DEF EnqueueAlert, FreshRows, Held, RowId
      <3> QED
        BY <2>0, <2>1, <2>b, <2>c, <3>1, <3>2 DEF EnqueueAlert
    <2>2. ASSUME NEW p \in Dispatcher, Claim(p) PROVE Covered
      <3>1. p # q /\ Busy(q) /\ proc'[q] = proc[q]
        BY <2>0, <2>2 DEF Claim, Busy, Cycle
      <3>2. proc[q].row \notin Batch(p)
        BY <2>0, <2>b, <3>1 DEF Batch, Due, Held
      <3> QED
        BY <2>0, <2>2, <2>b, <2>c, <3>1, <3>2 DEF Claim
    <2>3. ASSUME NEW p \in Dispatcher, NEW i \in RowId, Refresh(p, i) PROVE Covered
      <3>1. CASE p = q
        BY <2>0, <2>3, <3>1, OutboxAssumption DEF Refresh, Held, LeaseOutlastsPost, Cycle, Row
      <3>2. CASE p # q
        <4>1. proc'[q] = proc[q] /\ Busy(q)
          BY <2>0, <2>3, <3>2 DEF Refresh, Busy
        <4>2. proc[q].row # i
          BY <2>3, <2>b, <3>2, <4>1 DEF Refresh, Held, DistinctWorkers
        <4> QED
          BY <2>0, <2>3, <2>b, <2>c, <4>1, <4>2 DEF Refresh
      <3> QED
        BY <3>1, <3>2
    <2>4. ASSUME NEW p \in Dispatcher, RecordAttempt(p) PROVE Covered
      <3>1. p # q /\ proc'[q] = proc[q] /\ Busy(q)
        BY <2>0, <2>4 DEF RecordAttempt, NextInBatch, Idle, Busy
      <3>2. proc[q].row # proc[p].row
        BY <2>4, <2>b, <3>1 DEF RecordAttempt, Held, DistinctWorkers
      <3> QED
        BY <2>0, <2>4, <2>b, <2>c, <3>1, <3>2 DEF RecordAttempt
    <2>5. ASSUME NEW p \in Dispatcher, NEW result \in Outcome, PostReturns(p, result) PROVE Covered
      <3>1. Busy(q) /\ outbox' = outbox
        BY <2>0, <2>5 DEF PostReturns, Busy
      <3>2. proc'[q].row = proc[q].row /\ proc'[q].left = proc[q].left
        BY <2>0, <2>5 DEF PostReturns, Cycle
      <3> QED
        BY <2>b, <3>1, <3>2 DEF Held
    <2>6. ASSUME NEW p \in Dispatcher,
                 \/ StartCycle(p) \/ EndCycle(p) \/ Crash(p) \/ DropOutcome(p)
                 \/ \E i \in RowId : SkipLost(p, i) \/ AbortCycle(p, i)
          PROVE  Covered
      <3>1. proc'[p].pc \in {"enqueue", "dispatch", "idle"}
        <4>1. CASE StartCycle(p)
          BY <2>0, <4>1 DEF StartCycle, Idle
        <4>2. CASE EndCycle(p) \/ Crash(p)
          BY <2>0, <4>2 DEF EndCycle, Crash, Idle
        <4>3. CASE DropOutcome(p)
          BY <2>0, <4>3 DEF DropOutcome, NextInBatch, Idle
        <4>4. ASSUME NEW i \in RowId, SkipLost(p, i) PROVE proc'[p].pc = "dispatch"
          BY <2>0, <4>4 DEF SkipLost, Cycle
        <4>5. ASSUME NEW i \in RowId, AbortCycle(p, i) PROVE proc'[p].pc = "idle"
          BY <2>0, <4>5 DEF AbortCycle, Idle
        <4> QED
          BY <2>6, <4>1, <4>2, <4>3, <4>4, <4>5
      <3>2. p # q
        BY <3>1 DEF Busy
      <3>3. proc'[q] = proc[q] /\ outbox' = outbox
        BY <2>0, <2>6, <3>2 DEF StartCycle, EndCycle, Crash, DropOutcome, SkipLost, AbortCycle
      <3> QED
        BY <2>c, <3>3
    <2>7. ASSUME NEW i \in RowId, Requeue(i) \/ Close(i) \/ Retain(i) PROVE Covered
      <3>1. proc'[q] = proc[q] /\ Busy(q)
        BY <2>7 DEF Requeue, Close, Retain, Busy
      <3>2. proc[q].row # i
        BY <2>7, <2>b, <3>1 DEF Requeue, Close, Retain, Held
      <3> QED
        BY <2>0, <2>7, <2>b, <2>c, <3>1, <3>2 DEF Requeue, Close, Retain
    <2>8. CASE Tick
      <3>1. /\ Busy(q) /\ proc[q].left > 0
            /\ proc'[q] = [proc[q] EXCEPT !.left = Decrement(@)]
        BY <2>0, <2>8 DEF Tick, Busy
      <3>2. proc'[q].row = proc[q].row /\ proc'[q].left = proc[q].left - 1
        BY <2>0, <3>1 DEF Cycle, Decrement
      <3>3. outbox[proc[q].row].lease \in Nat
        BY <2>0, <2>b, <3>1 DEF Row
      <3>4. outbox'[proc[q].row].lease = outbox[proc[q].row].lease - 1
        BY <2>0, <2>8, <2>b, <3>1, <3>3, TickRow DEF Decrement
      <3> QED
        BY <2>0, <2>8, <2>b, <3>1, <3>2, <3>3, <3>4, TickRow DEF Held
    <2>9. CASE UNCHANGED <<outbox, proc>>
      BY <2>9, <2>c
    <2> QED
      BY <2>1, <2>2, <2>3, <2>4, <2>5, <2>6, <2>7, <2>8, <2>9
      DEF Next, Step, vars, Reconfigure, Raise, Settle, AppendClosing, CrashApi
  <1> QED
    BY <1>1, <1>2, TypeCorrect, FreshInv, PTL DEF Spec

\* No two dispatchers post one delivery at a time.
THEOREM PostsAreExclusive ==
  ASSUME DistinctWorkers, LeaseOutlastsPost
  PROVE  Spec => []ExclusivePost
  <1>1. LeaseCoversPost => ExclusivePost
    BY DEF LeaseCoversPost, ExclusivePost, Held, DistinctWorkers
  <1> QED
    BY <1>1, LeaseCovers, PTL

-----------------------------------------------------------------------------
\* At most one row per alert occurrence.
THEOREM OccurrencesAreUnique == Spec => []UniqueOccurrence
  <1>1. Init => UniqueOccurrence
    BY DEF Init, UniqueOccurrence, Live
  <1>2. TypeOK /\ UniqueOccurrence /\ [Next]_vars => UniqueOccurrence'
    <2> SUFFICES ASSUME TypeOK, UniqueOccurrence, [Next]_vars,
                        NEW j \in RowId, NEW k \in RowId,
                        outbox'[j].status # "absent", outbox'[k].status # "absent",
                        outbox'[j].alert = outbox'[k].alert
                 PROVE  j = k
      BY DEF UniqueOccurrence, Live
    <2>0. outbox \in [RowId -> Row]
      BY DEF TypeOK
    \* A step that inserts nothing.
    <2>c. ASSUME \A i \in RowId : /\ outbox'[i].alert = outbox[i].alert
                                  /\ outbox'[i].status # "absent" => outbox[i].status # "absent"
          PROVE  j = k
      <3>1. outbox[j].status # "absent" /\ outbox[k].status # "absent"
        BY <2>c
      <3>2. outbox[j].alert = outbox[k].alert
        BY <2>c
      <3> QED
        BY <3>1, <3>2 DEF UniqueOccurrence, Live
    <2>1. ASSUME NEW p \in Dispatcher, NEW a \in Alert, EnqueueAlert(p, a) PROVE j = k
      BY <2>0, <2>1 DEF EnqueueAlert, HasRow, UniqueOccurrence, Live
    <2>2. ASSUME NEW p \in Dispatcher, Claim(p) PROVE j = k
      <3>1. \A i \in RowId : i \in Batch(p) => outbox[i].status # "absent"
        BY DEF Batch, Due
      <3>2. \A i \in RowId : outbox'[i].alert = outbox[i].alert
        BY <2>0, <2>2 DEF Claim, Row
      <3>3. \A i \in RowId : outbox'[i].status # "absent" => outbox[i].status # "absent"
        BY <2>0, <2>2, <3>1 DEF Claim
      <3> QED
        BY <2>c, <3>2, <3>3
    <2>3. ASSUME NEW p \in Dispatcher, NEW i \in RowId, Refresh(p, i) PROVE j = k
      BY <2>0, <2>3, <2>c DEF Refresh, Row
    <2>4. ASSUME NEW p \in Dispatcher, RecordAttempt(p) PROVE j = k
      <3>1. PICK delay \in Delays :
              outbox' = [outbox EXCEPT ![proc[p].row] = Attempted(p, outbox[proc[p].row], delay)]
        BY <2>4 DEF RecordAttempt
      <3>2. \A r \in Row : Attempted(p, r, delay).alert = r.alert
        BY DEF Attempted, Row
      <3>3. \A i \in RowId : outbox'[i].alert = outbox[i].alert
        BY <2>0, <3>1, <3>2
      <3>4. \A i \in RowId : outbox'[i].status # "absent" => outbox[i].status # "absent"
        BY <2>0, <2>4, <3>1 DEF RecordAttempt, Held
      <3> QED
        BY <2>c, <3>3, <3>4
    <2>5. ASSUME NEW i \in RowId, Requeue(i) \/ Close(i) \/ Retain(i) PROVE j = k
      <3>1. \A l \in RowId : outbox'[l].alert = outbox[l].alert
        BY <2>0, <2>5 DEF Requeue, Close, Retain, Row
      <3>2. \A l \in RowId : outbox'[l].status # "absent" => outbox[l].status # "absent"
        BY <2>0, <2>5 DEF Requeue, Close, Retain
      <3> QED
        BY <2>c, <3>1, <3>2
    <2>6. CASE Tick
      BY <2>6, <2>c, TickRow
    <2>7. CASE UNCHANGED outbox
      BY <2>7, <2>c
    <2> QED
      BY <2>1, <2>2, <2>3, <2>4, <2>5, <2>6, <2>7
      DEF Next, Step, vars, StartCycle, SkipLost, AbortCycle, PostReturns, DropOutcome,
          EndCycle, Crash, Reconfigure, Raise, Settle, AppendClosing, CrashApi
  <1> QED
    BY <1>1, <1>2, TypeCorrect, PTL DEF Spec

\* No dispatcher tells anybody of an occurrence that a row calls settled: the
\* row it posts is in progress in its name (LeaseCoversPost), so the settled
\* row is another one, which UniqueOccurrence rules out.  Holds for any alerts,
\* limits and batches, and with retention deleting rows in between.
THEOREM SettledAreNotPosted ==
  ASSUME DistinctWorkers, LeaseOutlastsPost
  PROVE  Spec => []SettledIsNotPosted
  <1>1. LeaseCoversPost /\ UniqueOccurrence => SettledIsNotPosted
    <2> SUFFICES ASSUME LeaseCoversPost, UniqueOccurrence,
                        NEW p \in Dispatcher, NEW i \in RowId, Busy(p),
                        outbox[i].status \in {"sent", "dead", "closed"},
                        outbox[proc[p].row].alert = outbox[i].alert
                 PROVE  FALSE
      BY DEF SettledIsNotPosted
    <2>1. proc[p].row \in RowId /\ outbox[proc[p].row].status = "in_progress"
      BY DEF LeaseCoversPost, Held
    <2>2. proc[p].row = i
      BY <2>1 DEF UniqueOccurrence, Live
    <2> QED
      BY <2>1, <2>2
  <1> QED
    BY <1>1, LeaseCovers, OccurrencesAreUnique, PTL

-----------------------------------------------------------------------------
\* The whole fleet runs with one limit.
OneLimit(m) == m \in Nat \ {0} /\ AttemptLimits = {m}

WithinLimit(m) == \A i \in RowId : Queued(i) => outbox[i].attempts < m

\* With one limit a row that has used its attempts is never left waiting: the
\* attempt that uses up the last one makes the row dead
\* (record_alert_delivery_attempt), and only an operator resets the count.
THEOREM ExhaustedAreDead ==
  ASSUME NEW m, OneLimit(m), Dispatcher # {}
  PROVE  Spec => []ExhaustedIsDead
  <1>1. Init => WithinLimit(m)
    BY DEF Init, WithinLimit, Queued
  <1>2. TypeOK /\ WithinLimit(m) /\ [Next]_vars => WithinLimit(m)'
    <2> SUFFICES ASSUME TypeOK, WithinLimit(m), [Next]_vars,
                        NEW j \in RowId,
                        outbox'[j].status \in {"pending", "in_progress", "failed"}
                 PROVE  outbox'[j].attempts < m
      BY DEF WithinLimit, Queued
    <2>0. /\ outbox \in [RowId -> Row] /\ m \in Nat \ {0}
          /\ \A p \in Dispatcher : maxAttempts[p] = m
      BY DEF TypeOK, OneLimit
    \* A step that brings no row back and counts no attempt.
    <2>c. ASSUME outbox'[j].attempts = outbox[j].attempts,
                 outbox[j].status \in {"pending", "in_progress", "failed"}
          PROVE  outbox'[j].attempts < m
      BY <2>c DEF WithinLimit, Queued
    <2>1. ASSUME NEW p \in Dispatcher, NEW a \in Alert, EnqueueAlert(p, a) PROVE outbox'[j].attempts < m
      <3>1. CASE UNCHANGED outbox
        BY <3>1, <2>c
      <3>2. CASE outbox' = [outbox EXCEPT ![issued + 1] =
                              [alert |-> a, status |-> "pending", attempts |-> 0,
                               worker |-> NoWorker, lease |-> 0, backoff |-> 0]]
        <4>1. CASE j = issued + 1
          BY <2>0, <3>2, <4>1
        <4>2. CASE j # issued + 1
          BY <2>0, <2>c, <3>2, <4>2
        <4> QED BY <4>1, <4>2
      <3> QED BY <2>1, <3>1, <3>2 DEF EnqueueAlert
    <2>2. ASSUME NEW p \in Dispatcher, Claim(p) PROVE outbox'[j].attempts < m
      <3>1. outbox'[j].attempts = outbox[j].attempts
        BY <2>0, <2>2 DEF Claim, Row
      <3>2. j \in Batch(p) => outbox[j].status \in {"pending", "in_progress", "failed"}
        BY DEF Batch, Due
      <3>3. outbox[j].status \in {"pending", "in_progress", "failed"}
        BY <2>0, <2>2, <3>2 DEF Claim
      <3> QED BY <2>c, <3>1, <3>3
    <2>3. ASSUME NEW p \in Dispatcher, NEW i \in RowId, Refresh(p, i) PROVE outbox'[j].attempts < m
      BY <2>0, <2>3, <2>c DEF Refresh, Row
    <2>4. ASSUME NEW p \in Dispatcher, RecordAttempt(p) PROVE outbox'[j].attempts < m
      <3>1. PICK delay \in Delays :
              outbox' = [outbox EXCEPT ![proc[p].row] = Attempted(p, outbox[proc[p].row], delay)]
        BY <2>4 DEF RecordAttempt
      <3>2. CASE j = proc[p].row
        <4>1. outbox'[j] = Attempted(p, outbox[j], delay)
          BY <2>0, <3>1, <3>2
        <4>2. PICK r \in Row : r = outbox[j]
          BY <2>0
        <4>3. \A o \in Row : LET t == Attempted(p, o, delay) IN
                t.status = "failed" => t.attempts < m
          BY <2>0 DEF Attempted, Row
        <4>4. \A o \in Row : Attempted(p, o, delay).status \in {"sent", "dead", "failed"}
          BY DEF Attempted, Row
        <4> QED BY <4>1, <4>2, <4>3, <4>4
      <3>3. CASE j # proc[p].row
        BY <2>0, <2>c, <3>1, <3>3
      <3> QED BY <3>2, <3>3
    <2>5. ASSUME NEW i \in RowId, Requeue(i) \/ Close(i) \/ Retain(i) PROVE outbox'[j].attempts < m
      <3>1. CASE Requeue(i)
        <4>1. CASE j = i
          BY <2>0, <3>1, <4>1 DEF Requeue, Row
        <4>2. CASE j # i
          BY <2>0, <2>c, <3>1, <4>2 DEF Requeue
        <4> QED BY <4>1, <4>2
      <3>2. CASE Close(i) \/ Retain(i)
        BY <2>0, <2>c, <3>2 DEF Close, Retain, Row
      <3> QED BY <2>5, <3>1, <3>2
    <2>6. CASE Tick
      <3>1. outbox'[j].attempts = outbox[j].attempts /\ outbox'[j].status = outbox[j].status
        BY <2>0, <2>6 DEF Tick, Row
      <3> QED BY <2>c, <3>1
    <2>7. CASE UNCHANGED outbox
      BY <2>7, <2>c
    <2> QED
      BY <2>1, <2>2, <2>3, <2>4, <2>5, <2>6, <2>7
      DEF Next, Step, vars, StartCycle, SkipLost, AbortCycle, PostReturns, DropOutcome,
          EndCycle, Crash, Reconfigure, AppendClosing, CrashApi, Raise, Settle
  <1>3. TypeOK /\ WithinLimit(m) => ExhaustedIsDead
    BY DEF WithinLimit, ExhaustedIsDead, TypeOK, OneLimit
  <1> QED
    BY <1>1, <1>2, <1>3, TypeCorrect, PTL DEF Spec

-----------------------------------------------------------------------------
\* A dispatcher that still holds a row of its batch has an attempt left on it:
\* the row was within the limit when it was claimed, and since then only the
\* holder can spend an attempt or, once it is dead, an operator resets it.
LEMMA ClaimedInv ==
  ASSUME DistinctWorkers
  PROVE  Spec => []ClaimedInBudget
  <1>1. Init => ClaimedInBudget
    BY DEF Init, ClaimedInBudget, Busy, Idle
  <1>2. TypeOK /\ FreshRows /\ ClaimedInBudget /\ [Next]_vars => ClaimedInBudget'
    <2> SUFFICES ASSUME TypeOK, FreshRows, ClaimedInBudget, [Next]_vars,
                        NEW q \in Dispatcher
                 PROVE  (/\ proc[q].pc \in {"idle", "enqueue"} => proc[q].batch = {}
                         /\ Busy(q) => proc[q].row \in RowId
                         /\ \A i \in RowId :
                              /\ i \in proc[q].batch \/ (Busy(q) /\ i = proc[q].row)
                              /\ Held(q, i)
                              => outbox[i].attempts < maxAttempts[q])'
      BY DEF ClaimedInBudget
    <2> DEFINE Mine(c, i) == i \in c.batch \/ (c.pc \in {"posting", "posted"} /\ i = c.row)
               Mount(r) == r.status = "in_progress" /\ r.worker = WorkerId[q]
               Quiet == proc'[q].pc \in {"idle", "enqueue"} => proc'[q].batch = {}
               Budget(i) == Mine(proc'[q], i) /\ Mount(outbox'[i])
                              => outbox'[i].attempts < maxAttempts'[q]
               Aimed == proc'[q].pc \in {"posting", "posted"} => proc'[q].row \in RowId
               Good == Quiet /\ Aimed /\ \A i \in RowId : Budget(i)
    <2>0. /\ outbox \in [RowId -> Row] /\ proc \in [Dispatcher -> Cycle]
          /\ issued \in 0 .. MaxRows /\ MaxRows \in Nat
          /\ maxAttempts \in [Dispatcher -> AttemptLimits]
      BY OutboxAssumption DEF TypeOK
    <2>b. /\ proc[q].pc \in {"idle", "enqueue"} => proc[q].batch = {}
          /\ proc[q].pc \in {"posting", "posted"} => proc[q].row \in RowId
          /\ \A i \in RowId : Mine(proc[q], i) /\ Mount(outbox[i])
                             => outbox[i].attempts < maxAttempts[q]
      BY DEF ClaimedInBudget, Busy, Held
    <2> SUFFICES Good
      BY DEF Busy, Held
    \* A step that leaves q's cycle alone and hands it no row.
    <2>c. ASSUME proc'[q] = proc[q], maxAttempts' = maxAttempts,
                 \A i \in RowId : Mine(proc[q], i) /\ Mount(outbox'[i]) =>
                     Mount(outbox[i]) /\ outbox'[i].attempts = outbox[i].attempts
          PROVE  Good
      BY <2>b, <2>c
    <2>1. ASSUME NEW p \in Dispatcher, NEW a \in Alert, EnqueueAlert(p, a) PROVE Good
      <3>1. /\ proc'[q].pc = proc[q].pc /\ proc'[q].row = proc[q].row
            /\ proc'[q].batch = proc[q].batch
        BY <2>0, <2>1 DEF EnqueueAlert, Cycle
      <3>2. \A i \in RowId : Mount(outbox'[i]) => outbox'[i] = outbox[i]
        BY <2>0, <2>1 DEF EnqueueAlert
      <3>3. maxAttempts' = maxAttempts
        BY <2>1 DEF EnqueueAlert
      <3> QED
        BY <2>b, <3>1, <3>2, <3>3
    <2>2. ASSUME NEW p \in Dispatcher, Claim(p) PROVE Good
      <3>0. maxAttempts' = maxAttempts
        BY <2>2 DEF Claim
      <3>1. CASE p = q
        <4>1. proc'[q].pc = "dispatch" /\ proc'[q].batch = Batch(q)
          BY <2>0, <2>2, <3>1 DEF Claim, Cycle
        <4>2. \A i \in RowId : i \in Batch(q) => outbox'[i].attempts < maxAttempts[q]
          <5> SUFFICES ASSUME NEW i \in RowId, i \in Batch(q)
                       PROVE  outbox'[i].attempts < maxAttempts[q]
            OBVIOUS
          <5>1. outbox[i] \in Row /\ outbox[i].attempts < maxAttempts[q]
            BY <2>0 DEF Batch, Due
          <5>2. outbox'[i] = [outbox[i] EXCEPT !.status = "in_progress",
                                               !.worker = WorkerId[q],
                                               !.lease = ClaimLease]
            BY <2>2, <3>1 DEF Claim
          <5> QED
            BY <5>1, <5>2 DEF Row
        <4> QED
          BY <3>0, <4>1, <4>2
      <3>2. CASE p # q
        <4>1. proc'[q] = proc[q]
          BY <2>0, <2>2, <3>2 DEF Claim
        <4>2. \A i \in RowId : Mount(outbox'[i]) => outbox'[i] = outbox[i]
          BY <2>0, <2>2, <3>2 DEF Claim, DistinctWorkers, Row
        <4> QED
          BY <2>c, <3>0, <4>1, <4>2
      <3> QED
        BY <3>1, <3>2
    <2>3. ASSUME NEW p \in Dispatcher, NEW i \in RowId, Refresh(p, i) PROVE Good
      <3>0. maxAttempts' = maxAttempts
        BY <2>3 DEF Refresh
      <3>1. \A k \in RowId : /\ Mount(outbox'[k]) => Mount(outbox[k])
                             /\ outbox'[k].attempts = outbox[k].attempts
        BY <2>0, <2>3 DEF Refresh, Row
      <3>2. CASE p = q
        <4>1. /\ proc'[q].pc = "posting" /\ proc'[q].row = i
              /\ proc'[q].batch = proc[q].batch \ {i}
              /\ i \in proc[q].batch
          BY <2>0, <2>3, <3>2 DEF Refresh, Cycle, NextOf
        <4> QED
          BY <2>b, <3>0, <3>1, <4>1
      <3>3. CASE p # q
        BY <2>0, <2>3, <2>c, <3>0, <3>1, <3>3 DEF Refresh
      <3> QED
        BY <3>2, <3>3
    <2>4. ASSUME NEW p \in Dispatcher, NEW i \in RowId, SkipLost(p, i) PROVE Good
      <3>1. /\ proc'[q].pc = proc[q].pc /\ proc'[q].row = proc[q].row
            /\ proc'[q].batch \subseteq proc[q].batch
        BY <2>0, <2>4 DEF SkipLost, Cycle
      <3>2. outbox' = outbox /\ maxAttempts' = maxAttempts
        BY <2>4 DEF SkipLost
      <3> QED
        BY <2>b, <3>1, <3>2
    <2>5. ASSUME NEW p \in Dispatcher, NEW result \in Outcome, PostReturns(p, result) PROVE Good
      <3>1. /\ proc'[q].pc = proc[q].pc \/ {proc[q].pc, proc'[q].pc} = {"posting", "posted"}
            /\ proc'[q].row = proc[q].row /\ proc'[q].batch = proc[q].batch
        BY <2>0, <2>5 DEF PostReturns, Cycle
      <3>2. outbox' = outbox /\ maxAttempts' = maxAttempts
        BY <2>5 DEF PostReturns
      <3> QED
        BY <2>b, <3>1, <3>2
    <2>6. ASSUME NEW p \in Dispatcher, RecordAttempt(p) PROVE Good
      <3>0. maxAttempts' = maxAttempts
        BY <2>6 DEF RecordAttempt
      <3>1. PICK delay \in Delays :
              outbox' = [outbox EXCEPT ![proc[p].row] = Attempted(p, outbox[proc[p].row], delay)]
        BY <2>6 DEF RecordAttempt
      <3>2. \A r \in Row : Attempted(p, r, delay).worker = NoWorker
        BY DEF Attempted, Row
      <3>3. NoWorker # WorkerId[q]
        BY OutboxAssumption
      <3>4. \A i \in RowId : Mount(outbox'[i]) => outbox'[i] = outbox[i]
        BY <2>0, <3>1, <3>2, <3>3
      <3>5. CASE p = q
        <4>1. proc'[q].pc = "dispatch" /\ proc'[q].batch = proc[q].batch
          BY <2>0, <2>6, <3>5 DEF RecordAttempt, NextInBatch, Idle
        <4> QED
          BY <2>b, <3>0, <3>4, <4>1
      <3>6. CASE p # q
        BY <2>0, <2>6, <2>c, <3>0, <3>4, <3>6 DEF RecordAttempt
      <3> QED
        BY <3>5, <3>6
    <2>7. ASSUME NEW p \in Dispatcher, DropOutcome(p) PROVE Good
      <3>1. outbox' = outbox /\ maxAttempts' = maxAttempts
        BY <2>7 DEF DropOutcome
      <3>2. CASE p = q
        <4>1. proc'[q].pc = "dispatch" /\ proc'[q].batch = proc[q].batch
          BY <2>0, <2>7, <3>2 DEF DropOutcome, NextInBatch, Idle
        <4> QED
          BY <2>b, <3>1, <4>1
      <3>3. CASE p # q
        BY <2>0, <2>7, <2>c, <3>1, <3>3 DEF DropOutcome
      <3> QED
        BY <3>2, <3>3
    <2>8. ASSUME NEW p \in Dispatcher,
                 \/ StartCycle(p) \/ EndCycle(p) \/ Crash(p)
                 \/ \E i \in RowId : AbortCycle(p, i)
          PROVE  Good
      <3>1. outbox' = outbox /\ maxAttempts' = maxAttempts
        BY <2>8 DEF StartCycle, EndCycle, Crash, AbortCycle
      <3>2. CASE p = q
        <4>1. proc'[q].pc \in {"idle", "enqueue"} /\ proc'[q].batch = {}
          <5>1. CASE StartCycle(p)
            BY <2>0, <3>2, <5>1 DEF StartCycle, Idle
          <5>2. CASE proc' = [proc EXCEPT ![p] = Idle]
            BY <2>0, <3>2, <5>2 DEF Idle
          <5> QED
            BY <2>8, <5>1, <5>2 DEF EndCycle, Crash, AbortCycle
        <4> QED
          BY <4>1
      <3>3. CASE p # q
        BY <2>0, <2>8, <2>c, <3>1, <3>3 DEF StartCycle, EndCycle, Crash, AbortCycle
      <3> QED
        BY <3>2, <3>3
    <2>9. ASSUME NEW p \in Dispatcher, Reconfigure(p) PROVE Good
      <3>1. outbox' = outbox /\ proc' = proc
        BY <2>9 DEF Reconfigure
      <3>2. CASE p = q
        BY <2>9, <2>b, <3>1, <3>2 DEF Reconfigure
      <3>3. CASE p # q
        BY <2>0, <2>9, <2>b, <3>1, <3>3 DEF Reconfigure
      <3> QED
        BY <3>2, <3>3
    <2>10. ASSUME NEW i \in RowId, Requeue(i) \/ Close(i) \/ Retain(i) PROVE Good
      <3>1. proc' = proc /\ maxAttempts' = maxAttempts
        BY <2>10 DEF Requeue, Close, Retain
      <3>2. outbox'[i].status # "in_progress"
        BY <2>0, <2>10 DEF Requeue, Close, Retain, Row
      <3>3. \A k \in RowId : k # i => outbox'[k] = outbox[k]
        BY <2>0, <2>10 DEF Requeue, Close, Retain
      <3>4. \A k \in RowId : Mount(outbox'[k]) => outbox'[k] = outbox[k]
        BY <3>2, <3>3
      <3> QED
        BY <2>c, <3>1, <3>4
    <2>11. CASE Tick
      <3>1. /\ proc'[q].pc = proc[q].pc /\ proc'[q].row = proc[q].row
            /\ proc'[q].batch = proc[q].batch
        BY <2>0, <2>11 DEF Tick, Cycle
      <3>2. \A k \in RowId : /\ Mount(outbox'[k]) => Mount(outbox[k])
                             /\ outbox'[k].attempts = outbox[k].attempts
        BY <2>11, TickRow
      <3>3. maxAttempts' = maxAttempts
        BY <2>11 DEF Tick
      <3> QED
        BY <2>b, <3>1, <3>2, <3>3
    <2>12. CASE UNCHANGED <<outbox, proc, maxAttempts>>
      BY <2>12, <2>c
    <2> QED
      BY <2>1, <2>2, <2>3, <2>4, <2>5, <2>6, <2>7, <2>8, <2>9, <2>10, <2>11, <2>12
      DEF Next, Step, vars, Raise, Settle, AppendClosing, CrashApi
  <1> QED
    BY <1>1, <1>2, TypeCorrect, FreshInv, PTL DEF Spec

-----------------------------------------------------------------------------
\* What the ledger shows of one row.
View(r) == [alert |-> r.alert,
            status |-> IF r.status \in {"pending", "in_progress", "failed"}
                       THEN "queued" ELSE r.status,
            attempts |-> r.attempts]

\* What the ledger sees of an outbox row, field by field.
LEMMA ViewFields ==
  ASSUME NEW r
  PROVE  /\ View(r).alert = r.alert
         /\ View(r).attempts = r.attempts
         /\ r.status \in {"pending", "in_progress", "failed"} => View(r).status = "queued"
         /\ r.status \notin {"pending", "in_progress", "failed"} => View(r).status = r.status
  BY DEF View

LedgerRow == [alert : Alert \cup {NoAlert},
              status : {"absent", "queued", "sent", "dead", "closed"},
              attempts : Nat]

\* Ledger rows with the same fields are the same row.
LEMMA SameLedgerRow ==
  ASSUME NEW v \in LedgerRow, NEW w \in LedgerRow,
         v.alert = w.alert, v.status = w.status, v.attempts = w.attempts
  PROVE  v = w
  BY DEF LedgerRow

\* What an attempt of the ledger makes of a row.
Spent(v, s, m) == [v EXCEPT !.status = s, !.attempts = m]

\* A ledger row after an attempt, written as a whole record.
LEMMA LedgerRowExcept ==
  ASSUME NEW v \in LedgerRow, NEW m \in Nat,
         NEW s \in {"absent", "queued", "sent", "dead", "closed"}
  PROVE  Spent(v, s, m) = [alert |-> v.alert, status |-> s, attempts |-> m]
  <1> DEFINE x == [v EXCEPT !.status = s, !.attempts = m]
             y == [alert |-> v.alert, status |-> s, attempts |-> m]
  <1>1. x \in LedgerRow /\ y \in LedgerRow
    BY DEF LedgerRow
  <1>2. x.alert = y.alert /\ x.status = y.status /\ x.attempts = y.attempts
    BY DEF LedgerRow
  <1> HIDE DEF x, y
  <1>3. x = y
    BY <1>1, <1>2, SameLedgerRow
  <1> QED
    BY <1>3 DEF x, y, Spent

\* What the ledger sees of an outbox row is a ledger row.
LEMMA ViewType == ASSUME NEW r \in Row PROVE View(r) \in LedgerRow
  BY DEF View, Row, Status, LedgerRow

\* The view of the table is the table of the views.
LEMMA ViewNow == LedgerView = [i \in RowId |-> View(outbox[i])]
  BY DEF LedgerView, View, Queued

\* The same of the table after a step.
LEMMA ViewNext == LedgerView' = [i \in RowId |-> View(outbox'[i])]
  BY DEF LedgerView, View, Queued

\* Every step of the outbox is a step of the ledger or one it does not see.
LEMMA StepRefines ==
  TypeOK /\ FreshRows /\ ClaimedInBudget /\ [Next]_vars
    => [Ledger!LedgerNext]_LedgerView
  <1> SUFFICES ASSUME TypeOK, FreshRows, ClaimedInBudget, [Next]_vars
               PROVE  Ledger!LedgerNext \/ LedgerView' = LedgerView
    OBVIOUS
  <1>0. outbox \in [RowId -> Row] /\ Ledger!RowId = RowId
    BY DEF TypeOK, RowId, Ledger!RowId
  <1> DEFINE Seen(k) == View(outbox'[k]) = View(outbox[k])
  <1>s. ASSUME \A k \in RowId : Seen(k) PROVE LedgerView' = LedgerView
    BY <1>s, ViewNow, ViewNext
  \* A step that changes row i alone is one step of the ledger on row i.
  <1>c. ASSUME NEW i \in RowId, NEW v,
               \A k \in RowId : k # i => outbox'[k] = outbox[k],
               View(outbox'[i]) = v
        PROVE  LedgerView' = [LedgerView EXCEPT ![i] = v]
    BY <1>c, ViewNow, ViewNext
  <1>v. \A k \in RowId : LedgerView[k] = View(outbox[k])
    BY ViewNow
  <1>1. ASSUME NEW p \in Dispatcher, NEW a \in Alert, EnqueueAlert(p, a)
        PROVE  Ledger!LedgerNext \/ LedgerView' = LedgerView
    <2>1. CASE UNCHANGED outbox
      BY <2>1, <1>s
    <2>2. CASE ~UNCHANGED outbox
      <3> DEFINE n == issued + 1
                 new == [alert |-> a, status |-> "pending", attempts |-> 0,
                         worker |-> NoWorker, lease |-> 0, backoff |-> 0]
                 shown == [alert |-> a, status |-> "queued", attempts |-> 0]
      <3>1. /\ n \in RowId /\ n > issued
            /\ outbox' = [outbox EXCEPT ![n] = new]
            /\ \A i \in RowId : outbox[i].alert = a => outbox[i].status = "absent"
        BY <1>1, <2>2, OutboxAssumption DEF EnqueueAlert, HasRow, TypeOK, RowId, Live
      <3>2. View(new) = shown
        BY DEF View
      <3> HIDE DEF n, new, shown
      <3>3. LedgerView' = [LedgerView EXCEPT ![n] = shown]
        BY <1>0, <1>c, <3>1, <3>2
      <3>4. outbox[n].status = "absent"
        BY <3>1 DEF FreshRows
      <3>5. /\ LedgerView[n].status = "absent"
            /\ \A j \in RowId : LedgerView[j].alert = a => LedgerView[j].status = "absent"
        BY <1>v, <3>1, <3>4, ViewFields
      <3>6. Ledger!Enqueue(n, a)
        BY <1>0, <3>3, <3>5 DEF Ledger!Enqueue, shown
      <3> QED
        BY <1>0, <3>1, <3>6 DEF Ledger!LedgerNext
    <2> QED
      BY <2>1, <2>2
  <1>2. ASSUME NEW p \in Dispatcher, Claim(p) PROVE LedgerView' = LedgerView
    <2>1. \A k \in RowId : k \in Batch(p) =>
             /\ outbox[k].status \in {"pending", "in_progress", "failed"}
             /\ outbox'[k] = [outbox[k] EXCEPT !.status = "in_progress",
                                 !.worker = WorkerId[p], !.lease = ClaimLease]
      BY <1>2 DEF Claim, Batch, Due
    <2>2. \A k \in RowId : k \notin Batch(p) => outbox'[k] = outbox[k]
      BY <1>0, <1>2 DEF Claim
    <2>3. ASSUME NEW k \in RowId, k \in Batch(p) PROVE Seen(k)
      <3>1. /\ outbox'[k].status = "in_progress"
            /\ outbox'[k].alert = outbox[k].alert
            /\ outbox'[k].attempts = outbox[k].attempts
        <4>1. outbox[k] \in Row
          BY <1>0
        <4>2. outbox'[k] = [outbox[k] EXCEPT !.status = "in_progress",
                              !.worker = WorkerId[p], !.lease = ClaimLease]
          BY <2>1, <2>3
        <4> QED
          BY <4>1, <4>2 DEF Row
      <3>2. outbox[k].status \in {"pending", "in_progress", "failed"}
        BY <2>1, <2>3
      <3> QED
        BY <3>1, <3>2 DEF View
    <2> QED
      BY <1>s, <2>2, <2>3
  <1>3. ASSUME NEW p \in Dispatcher, NEW i \in RowId, Refresh(p, i)
        PROVE  LedgerView' = LedgerView
    <2>1. outbox' = [outbox EXCEPT ![i].lease = PostLease]
      BY <1>3 DEF Refresh
    <2>2. \A k \in RowId : Seen(k)
      BY <1>0, <2>1 DEF View, Row
    <2> QED
      BY <1>s, <2>2
  <1>4. ASSUME NEW p \in Dispatcher, RecordAttempt(p) PROVE Ledger!LedgerNext
    <2> DEFINE i == proc[p].row
               r == outbox[i]
               spent == r.attempts + 1
               accepted == proc[p].outcome = "sent"
               limit == maxAttempts[p]
               final == IF accepted THEN "sent" ELSE IF spent >= limit THEN "dead" ELSE "failed"
               shown == [alert |-> r.alert,
                         status |-> IF accepted THEN "sent"
                                    ELSE IF spent = limit THEN "dead" ELSE "queued",
                         attempts |-> spent]
    <2>1. PICK delay \in Delays : outbox' = [outbox EXCEPT ![i] = Attempted(p, r, delay)]
      BY <1>4 DEF RecordAttempt
    <2>2. i \in RowId /\ Held(p, i) /\ Busy(p)
      <3>1. Held(p, i) /\ Busy(p)
        BY <1>4 DEF RecordAttempt, Busy
      <3>2. i \in RowId
        BY <3>1 DEF ClaimedInBudget
      <3> QED
        BY <3>1, <3>2
    <2>3. r \in Row /\ spent \in Nat /\ limit \in AttemptLimits /\ limit \in Nat
      <3>1. limit \in AttemptLimits
        BY DEF TypeOK
      <3>2. limit \in Nat
        BY <3>1, OutboxAssumption
      <3>3. r \in Row
        BY <1>0, <2>2
      <3>4. spent \in Nat
        BY <3>3 DEF Row
      <3> QED
        BY <3>1, <3>2, <3>3, <3>4
    <2>4. r.attempts < limit
      BY <2>2 DEF ClaimedInBudget
    <2>5. /\ Attempted(p, r, delay).alert = r.alert
          /\ Attempted(p, r, delay).attempts = spent
          /\ Attempted(p, r, delay).status = final
      BY <2>3 DEF Attempted, Row
    <2>6. View(Attempted(p, r, delay)) = shown
      BY <2>3, <2>4, <2>5 DEF View, Row
    <2>7. LedgerView[i] = [alert |-> r.alert, status |-> "queued", attempts |-> r.attempts]
      BY <1>v, <2>2 DEF View, Held
    <2>8. LedgerView' = [LedgerView EXCEPT ![i] = shown]
      <3> HIDE DEF shown
      <3>1. \A k \in RowId : k # i => outbox'[k] = outbox[k]
        BY <1>0, <2>1
      <3>2. View(outbox'[i]) = shown
        BY <1>0, <2>1, <2>2, <2>6
      <3> QED
        BY <1>c, <2>2, <3>1, <3>2
    <2>9. LedgerView[i] \in LedgerRow /\ LedgerView \in [RowId -> LedgerRow]
      BY <1>0, <2>2, ViewNow, ViewType
    <2>10. Ledger!Attempt(i, limit, accepted)
      <3> DEFINE next == IF accepted THEN "sent"
                         ELSE IF spent = limit THEN "dead" ELSE "queued"
      <3>1. next \in {"absent", "queued", "sent", "dead", "closed"}
        OBVIOUS
      <3>2. LedgerView[i].attempts + 1 = spent /\ LedgerView[i].status = "queued"
            /\ LedgerView[i].attempts < limit /\ LedgerView[i].alert = r.alert
        BY <2>4, <2>7
      <3>3. Spent(LedgerView[i], next, spent) = shown
        <4>1. shown = [alert |-> r.alert, status |-> next, attempts |-> spent]
          OBVIOUS
        <4>a. spent \in Nat /\ LedgerView[i] \in LedgerRow
          BY <2>3, <2>9
        <4> HIDE DEF i, r, limit, accepted, spent, next, shown, final
        <4>2. Spent(LedgerView[i], next, spent)
                = [alert |-> LedgerView[i].alert, status |-> next, attempts |-> spent]
          BY <3>1, <4>a, LedgerRowExcept
        <4> QED
          BY <3>2, <4>1, <4>2
      <3>4. LedgerView' = [LedgerView EXCEPT
                             ![i] = Spent(LedgerView[i], next, spent)]
        BY <2>8, <3>3
      <3> HIDE DEF i, r, spent, limit, accepted
      <3> QED
        BY <3>2, <3>4 DEF Ledger!Attempt, Spent
    <2>11. accepted \in BOOLEAN
      OBVIOUS
    <2> QED
      <3> HIDE DEF i, limit, accepted
      <3> QED
        BY <1>0, <2>2, <2>3, <2>10, <2>11 DEF Ledger!LedgerNext
  <1>5. ASSUME NEW i \in RowId, Requeue(i) \/ Close(i) \/ Retain(i) PROVE Ledger!LedgerNext
    <2> DEFINE r == outbox[i]
    <2>0. r \in Row /\ \A k \in RowId : k # i => outbox'[k] = outbox[k]
      BY <1>0, <1>5 DEF Requeue, Close, Retain
    <2>1. LedgerView[i] = View(r)
      BY <1>v
    <2>2. CASE Requeue(i)
      <3> DEFINE shown == [View(r) EXCEPT !.status = "queued", !.attempts = 0]
      <3>a. /\ outbox'[i].alert = r.alert
            /\ outbox'[i].status = "pending" /\ outbox'[i].attempts = 0
        BY <1>0, <2>0, <2>2 DEF Requeue, Row
      <3>b. shown = [alert |-> r.alert, status |-> "queued", attempts |-> 0]
        <4>1. View(r) \in LedgerRow /\ View(r).alert = r.alert
          BY <2>0, ViewType, ViewFields
        <4>2. Spent(View(r), "queued", 0) = [alert |-> r.alert, status |-> "queued", attempts |-> 0]
          <5> HIDE DEF r
          <5> QED
            BY <4>1, LedgerRowExcept
        <4> QED
          BY <4>2 DEF Spent
      <3>1. View(outbox'[i]) = shown
        BY <3>a, <3>b DEF View
      <3>2. LedgerView[i].status = "dead"
        BY <2>1, <2>2 DEF Requeue, View
      <3>3. LedgerView' = [LedgerView EXCEPT ![i] = shown]
        BY <1>c, <2>0, <3>1
      <3>4. Ledger!Replay(i)
        BY <2>1, <3>2, <3>3 DEF Ledger!Replay
      <3> QED
        BY <1>0, <3>4 DEF Ledger!LedgerNext
    <2>3. CASE Close(i)
      <3> DEFINE shown == [View(r) EXCEPT !.status = "closed"]
      <3>1. View(outbox'[i]) = shown
        BY <1>0, <2>0, <2>3 DEF Close, View, Row
      <3>2. LedgerView[i].status = "dead"
        BY <2>1, <2>3 DEF Close, View
      <3>3. LedgerView' = [LedgerView EXCEPT ![i] = shown]
        BY <1>c, <2>0, <3>1
      <3>4. Ledger!CloseRow(i)
        BY <2>1, <3>2, <3>3 DEF Ledger!CloseRow
      <3> QED
        BY <1>0, <3>4 DEF Ledger!LedgerNext
    <2>4. CASE Retain(i)
      <3> DEFINE shown == [View(r) EXCEPT !.status = "absent"]
      <3>1. View(outbox'[i]) = shown
        BY <1>0, <2>0, <2>4 DEF Retain, View, Row
      <3>2. LedgerView[i].status \in {"sent", "closed"}
        BY <2>1, <2>4 DEF Retain, View
      <3>3. LedgerView' = [LedgerView EXCEPT ![i] = shown]
        BY <1>c, <2>0, <3>1
      <3>4. Ledger!Expire(i)
        BY <2>1, <3>2, <3>3 DEF Ledger!Expire
      <3> QED
        BY <1>0, <3>4 DEF Ledger!LedgerNext
    <2> QED
      BY <1>5, <2>2, <2>3, <2>4
  <1>6. CASE Tick
    BY <1>6, <1>s, TickRow DEF View
  <1>7. CASE UNCHANGED outbox
    BY <1>7, <1>s
  <1> QED
    BY <1>1, <1>2, <1>3, <1>4, <1>5, <1>6, <1>7
    DEF Next, Step, vars, StartCycle, SkipLost, AbortCycle, PostReturns, DropOutcome,
        EndCycle, Crash, Reconfigure, Raise, Settle, AppendClosing, CrashApi

\* The outbox with its leases, stale workers, crashes and retries implements
\* the ledger: it never spends an attempt beyond the limit, never leaves the
\* dead letters but by an operator, and never has two rows for an occurrence.
THEOREM OutboxImplementsLedger ==
  ASSUME DistinctWorkers
  PROVE  Spec => ImplementsLedger
  <1>1. Init => Ledger!LedgerInit
    BY DEF Init, LedgerView, Queued, Ledger!LedgerInit, Ledger!RowId, RowId, NoAlert,
           Ledger!NoAlert
  <1> QED
    BY <1>1, StepRefines, TypeCorrect, FreshInv, ClaimedInv, PTL
    DEF Spec, ImplementsLedger, Ledger!LedgerSpec
=============================================================================
