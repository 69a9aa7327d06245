----------------------------- MODULE AlertOutbox -----------------------------
(***************************************************************************)
(* The durable alert outbox (memory/event_store.py, alert_delivery_outbox) *)
(* and the processes that drain it: alert dispatcher workers and API       *)
(* "Dispatch now" requests, all running run_alert_delivery_cycle on one    *)
(* SQLite file.  Every SQLite transaction is one action; between two       *)
(* transactions of a process every other process may run.                  *)
(*                                                                         *)
(* Time is kept as the ticks that remain: a lease of 0 is locked_until <=  *)
(* now, a backoff of 0 is next_attempt_at null or <= now.                  *)
(***************************************************************************)
EXTENDS Integers, FiniteSets

CONSTANTS
  Alert,          \* alert occurrences (alert_key, last_seen_at, destination)
  Dispatcher,     \* processes that run dispatch cycles
  WorkerId,       \* the worker_id each dispatcher puts in locked_by
  MaxRows,        \* bound: rows the table ever issues
  BatchLimit,     \* dispatch_limit
  AttemptLimits,  \* settings of APP_MONITOR_ALERT_MAX_ATTEMPTS in the fleet
  ClaimLease,     \* APP_MONITOR_ALERT_CLAIM_LEASE_SECONDS
  PostLease,      \* max(claim lease, ceil(timeout) + 5), taken before a POST
  PostBound,      \* the ticks one POST and its bookkeeping take at most
  BackoffBase, BackoffMax,
  MaxCrashes      \* bound: crashes of dispatchers

NoWorker == "none"
NoAlert  == "none"

ASSUME OutboxAssumption ==
  /\ MaxRows \in Nat
  /\ BatchLimit \in Nat \ {0}
  /\ AttemptLimits \subseteq Nat \ {0}
  /\ ClaimLease \in Nat \ {0}
  /\ PostLease \in Nat /\ PostLease >= ClaimLease
  /\ PostBound \in Nat
  /\ BackoffBase \in Nat /\ BackoffMax \in Nat
  /\ MaxCrashes \in Nat
  /\ NoWorker \notin {WorkerId[p] : p \in Dispatcher}
  /\ NoAlert \notin Alert

VARIABLES
  outbox,       \* row id -> row; ids grow with created_at and rowid
  issued,       \* how many rows have been inserted so far
  active,       \* alerts that should_enqueue_alert accepts
  proc,         \* dispatcher -> where its cycle is
  maxAttempts,  \* dispatcher -> max_attempts of the settings it started with
  crashes,      \* crashes so far
  desk,         \* rows an operator has closed whose event is still to append
  trail         \* rows whose closing is in the event log

vars  == <<outbox, issued, active, proc, maxAttempts, crashes, desk, trail>>
audit == <<desk, trail>>

RowId  == 1 .. MaxRows
Status == {"absent", "pending", "in_progress", "failed", "sent", "dead", "closed"}
Outcome == {"sent", "failed"}

Row == [alert : Alert \cup {NoAlert}, status : Status, attempts : Nat,
        worker : {NoWorker} \cup {WorkerId[p] : p \in Dispatcher},
        lease : Nat, backoff : Nat]

\* pc, the alerts still to enqueue, the claimed rows still to handle, the row
\* being posted, the outcome of the POST, and the ticks the POST may still take.
Cycle == [pc : {"idle", "enqueue", "dispatch", "posting", "posted"},
          alerts : SUBSET Alert, batch : SUBSET RowId,
          row : RowId \cup {0}, outcome : Outcome, left : Nat]

Idle == [pc |-> "idle", alerts |-> {}, batch |-> {}, row |-> 0,
         outcome |-> "failed", left |-> 0]

Decrement(n) == IF n > 0 THEN n - 1 ELSE 0
Least(m, n)  == IF m < n THEN m ELSE n

Live(i)       == outbox[i].status # "absent"
Held(p, i)    == outbox[i].status = "in_progress" /\ outbox[i].worker = WorkerId[p]
Busy(p)       == proc[p].pc \in {"posting", "posted"}

\* The delays delivery_backoff_seconds returns: it doubles the base with each
\* attempt up to the maximum, so every delay lies between the two.
Delays == Least(BackoffBase, BackoffMax) .. BackoffMax

\* A fault a later run plants in the where clause of the claim.
DueDespiteLease(p) ==
  {i \in RowId : /\ outbox[i].attempts < maxAttempts[p]
                 /\ outbox[i].status \in {"pending", "failed", "in_progress"}
                 /\ outbox[i].backoff = 0}

DueUnclaimedOnly(p) ==
  {i \in RowId : /\ outbox[i].attempts < maxAttempts[p]
                 /\ outbox[i].status \in {"pending", "failed"}
                 /\ outbox[i].backoff = 0}

\* The where clause of claim_alert_delivery_records, and its oldest rows.
Due(p) ==
  {i \in RowId : /\ outbox[i].attempts < maxAttempts[p]
                 /\ \/ outbox[i].status \in {"pending", "failed"}
                    \/ outbox[i].status = "in_progress" /\ outbox[i].lease = 0
                 /\ outbox[i].backoff = 0}

Batch(p) == {i \in Due(p) : Cardinality({j \in Due(p) : j < i}) < BatchLimit}

\* The unique index (alert_key, alert_last_seen_at, destination) of the table,
\* and a fault: an index of open rows only.
HasOpenRow(a) == \E i \in RowId : outbox[i].status \in {"pending", "failed"} /\ outbox[i].alert = a
HasRow(a)     == \E i \in RowId : Live(i) /\ outbox[i].alert = a

\* i is the next row of p's batch (created_at asc, rowid asc).
NextOf(p, i) == i \in proc[p].batch /\ \A j \in proc[p].batch : i <= j

-----------------------------------------------------------------------------
Init ==
  /\ outbox = [i \in RowId |-> [alert |-> NoAlert, status |-> "absent", attempts |-> 0,
                                 worker |-> NoWorker, lease |-> 0, backoff |-> 0]]
  /\ issued = 0
  /\ active = {}
  /\ proc = [p \in Dispatcher |-> Idle]
  /\ maxAttempts \in [Dispatcher -> AttemptLimits]
  /\ crashes = 0
  /\ desk = {}
  /\ trail = {}

\* Fault: a cycle enqueues nothing while deliveries are waiting.
DrainFirst(p) ==
  /\ proc[p].pc = "idle"
  /\ LET waiting == \E i \in RowId : outbox[i].status \in {"pending", "failed"}
     IN  proc' = [proc EXCEPT ![p] = [Idle EXCEPT !.pc = "enqueue",
                                        !.alerts = IF waiting THEN {} ELSE active]]
  /\ UNCHANGED <<outbox, issued, active, maxAttempts, crashes, audit>>

\* load_event_store_alerts, filtered by should_enqueue_alert: the cycle works
\* on this snapshot whatever happens to the alerts afterwards.
StartCycle(p) ==
  /\ proc[p].pc = "idle"
  /\ proc' = [proc EXCEPT ![p] = [Idle EXCEPT !.pc = "enqueue", !.alerts = active]]
  /\ UNCHANGED <<outbox, issued, active, maxAttempts, crashes, audit>>

\* enqueue_alert_delivery: one insert per alert, refused by the unique index
\* when the alert occurrence already has a row.
EnqueueAlert(p, a) ==
  /\ proc[p].pc = "enqueue" /\ a \in proc[p].alerts
  /\ proc' = [proc EXCEPT ![p].alerts = @ \ {a}]
  /\ IF HasRow(a)
     THEN UNCHANGED <<outbox, issued>>
     ELSE /\ issued < MaxRows
          /\ issued' = issued + 1
          /\ outbox' = [outbox EXCEPT ![issued + 1] =
                          [alert |-> a, status |-> "pending", attempts |-> 0,
                           worker |-> NoWorker, lease |-> 0, backoff |-> 0]]
  /\ UNCHANGED <<active, maxAttempts, crashes, audit>>

\* claim_alert_delivery_records; an attempt is not counted at claim time.
Claim(p) ==
  /\ proc[p].pc = "enqueue" /\ proc[p].alerts = {}
  /\ outbox' = [i \in RowId |->
                  IF i \in Batch(p)
                  THEN [outbox[i] EXCEPT !.status = "in_progress",
                                         !.worker = WorkerId[p],
                                         !.lease = ClaimLease]
                  ELSE outbox[i]]
  /\ proc' = [proc EXCEPT ![p].pc = "dispatch", ![p].batch = Batch(p)]
  /\ UNCHANGED <<issued, active, maxAttempts, crashes, audit>>

\* Fault: the POST leaves under the lease of the claim.
RefreshKeepsLease(p, i) ==
  /\ proc[p].pc = "dispatch" /\ NextOf(p, i) /\ Held(p, i)
  /\ proc' = [proc EXCEPT ![p] = [proc[p] EXCEPT !.pc = "posting", !.row = i,
                                                 !.batch = @ \ {i}, !.left = PostBound]]
  /\ UNCHANGED <<outbox, issued, active, maxAttempts, crashes, audit>>

\* refresh_alert_delivery_lock on the next row of the batch, which does not
\* look at the lease it extends; then the POST leaves.
Refresh(p, i) ==
  /\ proc[p].pc = "dispatch" /\ NextOf(p, i) /\ Held(p, i)
  /\ outbox' = [outbox EXCEPT ![i].lease = PostLease]
  /\ proc' = [proc EXCEPT ![p] = [proc[p] EXCEPT !.pc = "posting", !.row = i,
                                                 !.batch = @ \ {i}, !.left = PostBound]]
  /\ UNCHANGED <<issued, active, maxAttempts, crashes, audit>>

\* AlertDeliveryLockLostError: another worker took the row, skip it.
SkipLost(p, i) ==
  /\ proc[p].pc = "dispatch" /\ NextOf(p, i) /\ Live(i) /\ ~Held(p, i)
  /\ proc' = [proc EXCEPT ![p].batch = @ \ {i}]
  /\ UNCHANGED <<outbox, issued, active, maxAttempts, crashes, audit>>

\* KeyError: retention deleted the row; the exception ends the whole cycle
\* and leaves the rest of the batch claimed until its leases run out.
AbortCycle(p, i) ==
  /\ \/ proc[p].pc = "dispatch" /\ NextOf(p, i)
     \/ proc[p].pc = "posted" /\ proc[p].row = i
  /\ ~Live(i)
  /\ proc' = [proc EXCEPT ![p] = Idle]
  /\ UNCHANGED <<outbox, issued, active, maxAttempts, crashes, audit>>

\* post_alert_delivery_webhook returns: 2xx, or any refusal, error or timeout
\* (after a timeout the receiver may still have taken the notification).
PostReturns(p, result) ==
  /\ proc[p].pc = "posting"
  /\ proc' = [proc EXCEPT ![p].pc = "posted", ![p].outcome = result]
  /\ UNCHANGED <<outbox, issued, active, maxAttempts, crashes, audit>>

\* The cycle goes on with the rest of its batch.
NextInBatch(p) == [Idle EXCEPT !.pc = "dispatch", !.batch = proc[p].batch]

\* Fault: one attempt too many before the row is dead.
AttemptedOnceMore(p, r, delay) ==
  LET spent == r.attempts + 1
      final == IF proc[p].outcome = "sent" THEN "sent"
               ELSE IF spent > maxAttempts[p] THEN "dead" ELSE "failed"
  IN [r EXCEPT !.status = final, !.attempts = spent,
               !.worker = NoWorker, !.lease = 0,
               !.backoff = IF final = "failed" THEN delay ELSE 0]

\* The row record_alert_delivery_attempt writes for an outcome.
Attempted(p, r, delay) ==
  LET spent == r.attempts + 1
      last  == spent >= maxAttempts[p]
      final == IF proc[p].outcome = "sent" THEN "sent"
               ELSE IF last THEN "dead" ELSE "failed"
  IN [r EXCEPT !.status = final, !.attempts = spent,
               !.worker = NoWorker, !.lease = 0,
               !.backoff = IF final = "failed" THEN delay ELSE 0]

\* Fault: the update forgets the locked_by condition.
RecordUnlocked(p) ==
  /\ proc[p].pc = "posted" /\ Live(proc[p].row)
  /\ \E delay \in Delays :
       outbox' = [outbox EXCEPT ![proc[p].row] = Attempted(p, @, delay)]
  /\ proc' = [proc EXCEPT ![p] = NextInBatch(p)]
  /\ UNCHANGED <<issued, active, maxAttempts, crashes, audit>>

\* record_alert_delivery_attempt by the worker that still holds the row ...
RecordAttempt(p) ==
  /\ proc[p].pc = "posted" /\ Held(p, proc[p].row)
  /\ \E delay \in Delays :
       outbox' = [outbox EXCEPT ![proc[p].row] = Attempted(p, @, delay)]
  /\ proc' = [proc EXCEPT ![p] = NextInBatch(p)]
  /\ UNCHANGED <<issued, active, maxAttempts, crashes, audit>>

\* ... and by one that lost it: the outcome of the POST is thrown away.
DropOutcome(p) ==
  /\ proc[p].pc = "posted" /\ Live(proc[p].row) /\ ~Held(p, proc[p].row)
  /\ proc' = [proc EXCEPT ![p] = NextInBatch(p)]
  /\ UNCHANGED <<outbox, issued, active, maxAttempts, crashes, audit>>

EndCycle(p) ==
  /\ proc[p].pc = "dispatch" /\ proc[p].batch = {}
  /\ proc' = [proc EXCEPT ![p] = Idle]
  /\ UNCHANGED <<outbox, issued, active, maxAttempts, crashes, audit>>

\* The process dies between two transactions; its claims stay in the table.
Crash(p) ==
  /\ proc[p].pc # "idle" /\ crashes < MaxCrashes
  /\ proc' = [proc EXCEPT ![p] = Idle]
  /\ crashes' = crashes + 1
  /\ UNCHANGED <<outbox, issued, active, maxAttempts, audit>>

\* A dispatcher restarts with another APP_MONITOR_ALERT_MAX_ATTEMPTS.
Reconfigure(p) ==
  /\ proc[p].pc = "idle"
  /\ \E m \in AttemptLimits \ {maxAttempts[p]} : maxAttempts' = [maxAttempts EXCEPT ![p] = m]
  /\ UNCHANGED <<outbox, issued, active, proc, crashes, audit>>

\* requeue_alert_delivery and close_alert_delivery: dead rows only.  Every
\* change of a row is followed by an event, appended in a transaction of its
\* own; nothing in this module reads the events, and of the four kinds only the
\* closing is kept, the last word on a row.
Requeue(i) ==
  /\ outbox[i].status = "dead"
  /\ outbox' = [outbox EXCEPT ![i].status = "pending", ![i].attempts = 0,
                              ![i].worker = NoWorker, ![i].lease = 0, ![i].backoff = 0]
  /\ UNCHANGED <<issued, active, proc, maxAttempts, crashes, audit>>

Close(i) ==
  /\ outbox[i].status = "dead"
  /\ outbox' = [outbox EXCEPT ![i].status = "closed",
                              ![i].worker = NoWorker, ![i].lease = 0, ![i].backoff = 0]
  /\ desk' = desk \cup {i}
  /\ UNCHANGED <<issued, active, proc, maxAttempts, crashes, trail>>

AppendClosing(i) ==
  /\ i \in desk
  /\ desk' = desk \ {i}
  /\ trail' = trail \cup {i}
  /\ UNCHANGED <<outbox, issued, active, proc, maxAttempts, crashes>>

\* The API process dies with closings committed and their events not yet.
CrashApi ==
  /\ desk # {} /\ crashes < MaxCrashes
  /\ desk' = {}
  /\ crashes' = crashes + 1
  /\ UNCHANGED <<outbox, issued, active, proc, maxAttempts, trail>>

\* apply_retention_policy on the outbox: terminal rows past their cutoff.
\* The second conjunct is the bound that leaves every alert room for a row.
Retain(i) ==
  /\ outbox[i].status \in {"sent", "closed"}
  /\ Cardinality({j \in 1 .. issued : ~Live(j)}) + Cardinality(Alert) < MaxRows
  /\ outbox' = [outbox EXCEPT ![i].status = "absent"]
  /\ UNCHANGED <<issued, active, proc, maxAttempts, crashes, audit>>

\* Monitor events and triage raise and settle alerts.
Raise(a) ==
  /\ a \notin active
  /\ active' = active \cup {a}
  /\ UNCHANGED <<outbox, issued, proc, maxAttempts, crashes, audit>>

Settle(a) ==
  /\ a \in active
  /\ active' = active \ {a}
  /\ UNCHANGED <<outbox, issued, proc, maxAttempts, crashes, audit>>

\* Time passes; a POST and its bookkeeping take at most PostBound ticks.
Tick ==
  /\ \A p \in Dispatcher : Busy(p) => proc[p].left > 0
  /\ outbox' = [i \in RowId |-> [outbox[i] EXCEPT !.lease = Decrement(@),
                                                  !.backoff = Decrement(@)]]
  /\ proc' = [p \in Dispatcher |->
                IF Busy(p) THEN [proc[p] EXCEPT !.left = Decrement(@)] ELSE proc[p]]
  /\ UNCHANGED <<issued, active, maxAttempts, crashes, audit>>

-----------------------------------------------------------------------------
\* What a dispatcher does on its own; the rest is failure and environment.
Step(p) ==
  \/ StartCycle(p)
  \/ \E a \in Alert : EnqueueAlert(p, a)
  \/ Claim(p)
  \/ \E i \in RowId : Refresh(p, i) \/ SkipLost(p, i) \/ AbortCycle(p, i)
  \/ \E result \in Outcome : PostReturns(p, result)
  \/ RecordAttempt(p)
  \/ DropOutcome(p)
  \/ EndCycle(p)

Next ==
  \/ \E p \in Dispatcher : Step(p) \/ Crash(p) \/ Reconfigure(p)
  \/ \E i \in RowId : Requeue(i) \/ Close(i) \/ AppendClosing(i) \/ Retain(i)
  \/ CrashApi
  \/ \E a \in Alert : Raise(a) \/ Settle(a)
  \/ Tick

Spec == Init /\ [][Next]_vars

\* Workers loop forever (--interval-seconds under a supervisor) and the clock
\* runs; operators, retention, alerts and crashes owe nothing.
Fairness == WF_vars(Tick) /\ \A p \in Dispatcher : WF_vars(Step(p))

\* From a claim to its first POST, and from one POST to the next, a dispatcher
\* runs one short transaction: a lease of ten seconds or more does not run out
\* on a row the dispatcher is about to refresh.
Prompt ==
  Tick => \A p \in Dispatcher, i \in RowId :
            proc[p].pc = "dispatch" /\ NextOf(p, i) => ~Held(p, i)

FairSpec == Init /\ [][Next /\ Prompt]_vars /\ Fairness
-----------------------------------------------------------------------------
\* The two conditions under which leases are exclusive: no two dispatchers run
\* with one worker id, and the lease taken before a POST outlasts it.
DistinctWorkers   == \A p, q \in Dispatcher : WorkerId[p] = WorkerId[q] => p = q
LeaseOutlastsPost == PostBound < PostLease

TypeOK ==
  /\ outbox \in [RowId -> Row]
  /\ issued \in 0 .. MaxRows
  /\ active \subseteq Alert
  /\ proc \in [Dispatcher -> Cycle]
  /\ maxAttempts \in [Dispatcher -> AttemptLimits]
  /\ crashes \in 0 .. MaxCrashes
  /\ desk \subseteq RowId
  /\ trail \subseteq RowId

\* Two dispatchers never have a POST of the same delivery under way: the
\* lease refreshed before a POST outlasts it.  Holds under DistinctWorkers and
\* LeaseOutlastsPost (dispatch_alert_deliveries, alert_dispatcher.py).
ExclusivePost ==
  \A p, q \in Dispatcher :
    p # q /\ Busy(p) /\ Busy(q) => proc[p].row # proc[q].row

\* Under the same conditions the worker that posts still holds the row, with
\* lease to spare, when it records: no outcome of a POST is thrown away and
\* none is counted on a row that another worker, an operator or retention has
\* moved on (refresh_alert_delivery_lock, record_alert_delivery_attempt).
LeaseCoversPost ==
  \A p \in Dispatcher :
    Busy(p) => /\ proc[p].row \in RowId
               /\ Held(p, proc[p].row)
               /\ outbox[proc[p].row].lease > proc[p].left

\* The table has issued the rows up to issued and no other.
FreshRows == \A i \in RowId : i > issued => outbox[i].status = "absent"

\* The unique index: an occurrence has at most one row at a time.
UniqueOccurrence ==
  \A i, j \in RowId :
    Live(i) /\ Live(j) /\ outbox[i].alert = outbox[j].alert => i = j

\* Nobody is being told of an occurrence that a row of the table calls
\* delivered, dead-lettered or closed: neither from the row itself, whose lease
\* another dispatcher may have seen run out, nor from a second row, enqueued
\* from an older snapshot of the alerts or after retention has deleted the
\* first (enqueue_alert_delivery, claim, record, apply_retention_policy).
SettledIsNotPosted ==
  \A p \in Dispatcher, i \in RowId :
    Busy(p) /\ outbox[i].status \in {"sent", "dead", "closed"}
      => outbox[proc[p].row].alert # outbox[i].alert

Queued(i) == outbox[i].status \in {"pending", "in_progress", "failed"}

\* A row that is not settled can still be claimed by a dispatcher of the
\* fleet; a row that has used its attempts is dead, where an operator sees it
\* (claim_alert_delivery_records and record_alert_delivery_attempt agree).
ExhaustedIsDead ==
  \A i \in RowId : Queued(i) => \E p \in Dispatcher : outbox[i].attempts < maxAttempts[p]

\* Leases, stale workers, crashes and retries are invisible: the table moves
\* as the ledger of DeliveryLedger does.
LedgerView ==
  [i \in RowId |-> [alert    |-> outbox[i].alert,
                   status   |-> IF Queued(i) THEN "queued" ELSE outbox[i].status,
                   attempts |-> outbox[i].attempts]]

Ledger == INSTANCE DeliveryLedger WITH ledger <- LedgerView

\* What makes the refinement hold: a claimed row that its claimant still holds
\* has attempts left under the limit the claimant started with.
ClaimedInBudget ==
  \A p \in Dispatcher :
    /\ proc[p].pc \in {"idle", "enqueue"} => proc[p].batch = {}
    /\ Busy(p) => proc[p].row \in RowId
    /\ \A i \in RowId :
         /\ i \in proc[p].batch \/ (Busy(p) /\ i = proc[p].row)
         /\ Held(p, i)
         => outbox[i].attempts < maxAttempts[p]

ImplementsLedger == Ledger!LedgerSpec

\* Every queued delivery is eventually delivered or dead-lettered, however the
\* dispatchers interleave and crash (a lease left by a dead worker runs out)
\* and although the claim takes the oldest rows first, retried ones included.
\* An operator who requeued an old dead letter again and again could keep a
\* younger row waiting: the property is stated for operators who stop.
EveryRowSettles ==
  <>[][\A i \in RowId : ~Requeue(i)]_vars => \A i \in RowId : Queued(i) ~> ~Queued(i)

\* An alert that stays active is eventually in the outbox.
ActiveIsEnqueued ==
  \A a \in Alert :
    a \in active ~> (a \notin active \/ \E i \in RowId : Live(i) /\ outbox[i].alert = a)
=============================================================================
