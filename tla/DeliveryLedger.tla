--------------------------- MODULE DeliveryLedger ---------------------------
(***************************************************************************)
(* What the alert outbox promises, without leases, processes or crashes:   *)
(* every delivery attempt is one atomic step that either delivers the row  *)
(* or spends one attempt, the last failing attempt dead-letters the row,   *)
(* and only an operator takes a row out of the dead letters.  The module   *)
(* AlertOutbox implements it (alert_delivery_outbox, event_store.py).      *)
(***************************************************************************)
EXTENDS Naturals

CONSTANTS Alert,          \* alert occurrences: one per outbox unique key
          MaxRows,        \* bound: how many rows the table ever issues
          AttemptLimits   \* the values APP_MONITOR_ALERT_MAX_ATTEMPTS takes

VARIABLE ledger           \* row id -> what the operator sees of the row

NoAlert == "none"

RowId == 1 .. MaxRows

LedgerInit ==
  ledger = [i \in RowId |-> [alert |-> NoAlert, status |-> "absent", attempts |-> 0]]

\* A row appears for an alert occurrence that has none.
Enqueue(i, a) ==
  /\ ledger[i].status = "absent"
  /\ \A j \in RowId : ledger[j].alert = a => ledger[j].status = "absent"
  /\ ledger' = [ledger EXCEPT ![i] = [alert |-> a, status |-> "queued", attempts |-> 0]]

\* An attempt within the budget: the webhook accepts the notification, or
\* refuses it, and the refusal that spends the budget is the last.
Attempt(i, limit, accepted) ==
  LET spent == ledger[i].attempts + 1 IN
  /\ ledger[i].status = "queued"
  /\ ledger[i].attempts < limit
  /\ ledger' = [ledger EXCEPT ![i].status = IF accepted THEN "sent"
                                            ELSE IF spent = limit THEN "dead"
                                            ELSE "queued",
                              ![i].attempts = spent]

\* An operator gives a dead row a new attempt budget ...
Replay(i) ==
  /\ ledger[i].status = "dead"
  /\ ledger' = [ledger EXCEPT ![i].status = "queued",
                              ![i].attempts = 0]

\* ... or takes it out of circulation.
CloseRow(i) ==
  /\ ledger[i].status = "dead"
  /\ ledger' = [ledger EXCEPT ![i].status = "closed"]

\* Retention removes finished rows only.
Expire(i) ==
  /\ ledger[i].status \in {"sent", "closed"}
  /\ ledger' = [ledger EXCEPT ![i].status = "absent"]

LedgerNext ==
  \E i \in RowId :
    \/ \E a \in Alert : Enqueue(i, a)
    \/ \E limit \in AttemptLimits, accepted \in BOOLEAN : Attempt(i, limit, accepted)
    \/ Replay(i)
    \/ CloseRow(i)
    \/ Expire(i)

LedgerSpec == LedgerInit /\ [][LedgerNext]_ledger
=============================================================================
