# Formal model of the production support agent

This directory is a verification project for the support agent in `src/`: TLA+
modules translated from its Python source, TLC configurations that check them
on small instances, and proofs that TLAPS checks for every value of the
constants. File names below are relative to `src/src/support_agent_lab/`;
documents are under `src/docs/`. `PROJECT.json` lists components, runs,
theorems, findings and hazards, and maps every definition to the lines it
models.

Modelled are the subsystems in which several processes or coroutines share state
and time decides who may act (the alert outbox, the operation lock, guarded
retention, audit export and the review workers under that lock, the tool broker
with its HTTP client, the request edge), those in which one store is read and
appended to in separate transactions (conversations, alert triage, feedback
reviews, the evaluation and promotion gates, the operations reports, the
knowledge index), and the agent pipeline, whose tables have to agree.

## 1. Inventory

The service is a FastAPI application (`api/main.py`) with one SQLite file as
its event store (`memory/event_store.py`, WAL mode, five seconds of busy
timeout), shared with three kinds of worker processes: alert dispatchers,
monitor review workers and audit export workers. An exception in a worker's
`run_once` ends the process and a supervisor restarts it. Coroutines of the API
process interleave at their awaits only; processes interleave between SQLite
transactions.

| Component | State | Operations | Talks to | Hard part | Correct when |
|---|---|---|---|---|---|
| Alert outbox: `event_store.py` 1006-2063, `monitoring/alert_dispatcher.py`, `alert_delivery_service.py` | table alert_delivery_outbox; a cycle per dispatcher | enqueue, claim, refresh, POST, record, requeue, close, retain | webhook receivers; operators; retention | leases against slow POSTs, stale outcomes, crashes, snapshots of different age, attempt limits that differ | one POST of a row at a time; each attempt counted once and within its limit; every row settles |
| Operation lock: `event_store.py` 2837-2935 | one row per lock name | acquire, release, expire | maintenance, export and review workers | operations outlasting the lease, stale clock readings, owner ids in common | one operation at a time; no theft; granted again after a crash |
| Maintenance: `api/main.py` 7109-7451, 5099-5333; `event_store.py` 2226-2533 | backup files, signed tokens, the tables | backup, drill, preview, apply | the lock; all writers of the store | writes between any two steps, tokens in any combination, failing backups | nothing is deleted that is not in the drilled backup and the preview |
| Tool broker: `tools/registry.py`, `event_store.py` 2156-2224 | table tool_idempotency | reserve, replay, run, complete, release | orchestrator, MCP; the business client | same key at once, timeouts after the write landed, failed completions, stale takeovers | one handler at a time per key, one result reported, results final |
| Business client: `tools/http_business_tools.py` | failure count and opened_at | request, retry, open, half-open, close | the ticketing and order services | one circuit for all coroutines, outcomes of old requests | open exactly at the threshold, quiet while open, not open for ever |
| Knowledge client, LLM gateway: `memory/http_knowledge.py`, `llm/gateway.py` | the same breaker each | search, generate | upstreams | as above | as above |
| Promotion gate: `api/main.py` 2328-2701, 5676-5844 | preflight and decision events | preflight, decide | readiness, evals, monitor, audit | evidence that changes between check and append; single use | one decision per preflight, on the evidence it names |
| Monitor review worker: `monitoring/monitor_review_service.py` | review events, heartbeats | review what has none | orchestrator, lock | the live review racing the worker; runs that cannot be reviewed | one review per run, every reviewable run reviewed |
| Alerts and triage: `monitoring/monitor.py`, `triage.py`, `api/main.py` 1972-2003, 6761-6799 | review and triage events | fold, triage | console, outbox | optimistic checks apart from the append; listings with a limit | the last triage decides until new events reopen |
| Audit export: `audit/export_batch.py`, `audit/export.py` | cursors in operation records, files | take the lock, find the cursors, read each source, write the files, record | lock, all writers, SIEM | rows written between the reads, late commits, failures between file and record, partial and windowed batches, overlaps | no row below a cursor that nobody got; a complete batch is complete |
| Rate limiter and nonces: `api/rate_limit.py`, `request_signature.py`, `event_store.py` 2065-2154 | buckets, nonces | consume, reserve | every request | stale clock readings, expiry | rate and burst kept; a nonce used once while it is valid |
| Conversation memory: `agent/orchestrator.py`, `memory/store.py`, `replay.py` | states in memory, events | hydrate, append, replay | event store | two processes, failing appends | replay gives what the process had |
| Knowledge index: `memory/sqlite_knowledge.py` | documents, chunks | ingest, replace, search | - | two transactions to replace a source, two reads to a search | hits were there and visible; nothing is left out that nobody wrote |
| Feedback reviews: `event_store.py` 620-1004, `api/main.py` 5922-6111 | events | submit, review | console | optimistic check | no review on a state nobody saw |
| Webhook receiver: `api/main.py` 6572-6629, `event_store.py` 1638-1853 | receipts | receive, count | outbox | duplicates, two retentions | a receipt per delivery |
| Agent pipeline: `agent/*.py`, `monitoring/monitor.py` | the trace of a turn | classify, route, plan, call tools, answer, review | broker, memory, monitor | tables of agents, router and policy that must agree for every text | no planned tool refused, a handoff has a ticket, one verdict on a run |
| Staging eval gate: `api/main.py` 4356-4622, 6947-6969 | suite and aggregate records | run suites, aggregate | promotion gate | overlapping and interrupted runs | passed means all suites of one run passed |
| Operations plan, SLO report, execution ledger: `api/main.py` 738-1969 | ledger rows | plan, report, record | everything it reads | many reads, none of one moment; rules written twice | agrees with the gate; asks for what is wrong |
| Incidents, readiness, metrics, auth, MCP adapter, CLI, frontend | none, or counters | pure functions and reports | all | - | - |

The last line is not going to be modelled: there is no protocol state in it.
`PROJECT.json` names each of these parts with its reason.

## 2. Plan

Done, in this order, each with its proofs: `DeliveryLedger` and `AlertOutbox`;
`OperationLock`; `RetentionGuard`, which composes the lock by INSTANCE;
`BusinessClient`, and `ToolBroker`, which extends it; `AuditExport`, which
composes the lock like RetentionGuard.

Then `MonitorReview` over the lock, and the parts that share no state with these
or with one another: `AgentPipeline`, `ConversationMemory`, `AlertTriage`,
`FeedbackReview`, `EvalGate`, `ReleaseChecks` with `PromotionGate` and
`OperationsPlan`, `RequestEdge` and `KnowledgeIndex`. `MCService` checks them in one
run. Their proofs are in `MonitorReview_proofs` (the lock and its review workers),
`ReleaseGate_proofs` (eval gate, promotion, operations plan), `RequestEdge_proofs` and
`Conversation_proofs` (pipeline, memory, knowledge, feedback, triage).

Left for later: the webhook receiver around `AlertOutbox`; the thread state that
conversations derive from their messages, and retention beside them; the steps of
`OperationsPlan` and `ConversationMemory` as refinements of abstract
specifications.

## 3. The modules and the code

In every module one action is one SQLite transaction, one stretch of a
coroutine between two awaits, or one move of the environment (an upstream's
answer, a crash, a tick of the clock). Time is kept as the ticks that remain
of a lease, so the models are finite without bounding the clock; only
`RetentionGuard`, `AuditExport`, `RequestEdge` and `AlertTriage`, which compare
stamps, have a clock, bounded by MaxTime (MaxClock).
Definitions whose comment calls them a fault are variants of the code that
differ by a dropped guard or a misplaced reset. No specification uses them;
they serve to show that a property notices such a fault.

### AlertOutbox, DeliveryLedger

`outbox` is the table: status, attempts, locked_by (`worker`), what is left of
locked_until (`lease`) and next_attempt_at (`backoff`). `proc` is where each
dispatcher's cycle is: the snapshot of alerts it still has to enqueue, the rows
it claimed, the row it is posting. `StartCycle`, `EnqueueAlert`, `Claim`,
`Refresh`, `PostReturns`, `RecordAttempt` and `EndCycle` follow
`run_alert_delivery_cycle`; `SkipLost` and `DropOutcome` are its answers to
AlertDeliveryLockLostError, `AbortCycle` its KeyError when retention has deleted
a row. `Requeue`, `Close` and `AppendClosing` are the operator's endpoints,
`Retain` is retention, `Crash` and `Reconfigure` a restart, also with another
APP_MONITOR_ALERT_MAX_ATTEMPTS. A failed POST takes any backoff between
base and maximum. `HasRow` is the unique index on the fingerprint; what it is for,
`SettledIsNotPosted`, also needs the lease: nobody is posting an occurrence that a row
of the table calls delivered, dead or closed, although two dispatchers enqueue from
snapshots of different age and retention deletes rows of alerts that are still active.

`DeliveryLedger` is what the outbox promises: rows appear once per occurrence,
an attempt is one atomic step that delivers or spends one attempt, the last
failure dead-letters, and only an operator brings a row back. `LedgerView` maps
pending, in_progress and failed to queued and drops the leases.

Abstracted: the payload, the destination (one), heartbeats, summaries, receipts,
and the events that follow each change other than the closing of a row. A
timeout is a failed outcome, which says nothing of whether the receiver got the
notification: delivery is at least once, and no property claims more.

### OperationLock

`lock` is the row of one lock name, `job` the stage of each process. A process
reads its clock, waits for SQLite's write lock for up to BusyWait ticks (`age`),
and its transaction compares and stores the old reading, as the code does.
`Crash` is also a release that raised. `MCService` checks it by itself, as one of its
parts; `RetentionGuard`, `AuditExport` and `MonitorReview` compose it.

### RetentionGuard

The operations of `api/main.py` as sequences of actions under the lock
(`StartCopy`, `FinishCopy`, `TokenBackup`; `RestoreDrill`; `Report`,
`TokenPreview`; `CheckTokens`, `Recount`, `Apply`), with `Insert`, `Touch` and
`Remove` between any two of them. A token is kept for ever once issued, since the
operator may bring it back at any time. A row is the stamp of its last write; the
high-water mark is the count, the greatest rowid and the greatest stamp, the
last two kept as initial segments so that they compare like maxima. A write commits
up to Late ticks after the clock reading it stamps its row with, so stamps come out of
order; `behind` is history: per file, the rows committed after its copy with a stamp
that is not beyond all of the file's, which no mark can show. One table
stands for the five: guard and marks treat each on its own. A tick has at most
one write, so two writes never share a stamp; isoformat() stamps have
microseconds.

### BusinessClient, ToolBroker

`circuit` is `_CircuitState`, `request` where each coroutine's `_request` is. A
request on the wire and a pause before a retry are the only places where another
coroutine runs. `circuit.left` is what is left of the reset time, so an opened
circuit with nothing left is half-open. ToolBroker adds the row of one
idempotency key (`row`), the stage of each call (`call`), the tickets the
service made (`made`) and those reported as a success (`told`). `Send`, `Retry`,
`Reply`, `Refuse` and `TimeOut` drive the client through the two requests of
`_create_ticket`; `Conclude`, `Complete`, `CompleteFails` and `Release` follow
the end of `ToolBroker.call`; `Lose` is a cancelled coroutine or a release that
raised, `Restart` the death of the process. The service is modelled at its
worst: any POST may make a ticket, also one that is refused, cut off by the
timeout, or a repetition.

### AuditExport

`table` has, per source, the stamps of its rows in the order of their rowids;
`ledger` says beside it what the rows of event_store_operations record of a
batch. `step` is where each worker's batch is: `Request`, `Begin`,
`LoadCursors`, one `Read` per source in the order of `audit_export_rows`,
`WriteFiles`, `Record`, then `Leave` and `Release` of the lock; `Conflict`,
`BusyTimeout` and a `Leave` before the record lead to `Report`, the row of the
except clauses, which may fail as well. `Write` and `Maintain` add rows between
any two of them. A cursor is kept as the rowid of its row, which with the row's
stamp is all that the queries use of it. `InForce` is
`_latest_completed_export_cursors`, `HighWater` the map a batch records.
`delivered` is a history variable: the rows in files that have a manifest.

Rows read their stamp before they are committed, up to Late ticks; the row of a
batch has the stamp of the batch's start, so that such rows regularly lie behind
a cursor when they appear. `InOrder` names the rows for which that is not so.

Abstracted: what rows say, the event_type filter (one choice of rows for all
batches), other tenants, the deletion of rows by retention, names and checksums
of files, cursors in the format of older versions, and
`summarize_audit_export_batches`, a report.

### MonitorReview

Extends OperationLock with what the review workers do while they hold it. `turn`
is where the turn of each run is between its two appends (`StoreRun`,
`ReviewLive`; `LeaveUnreviewed` is a process without a monitor, an append that
raises, a crash). `cycle` is what `run_once` knows: `List` is
`list_unreviewed_agent_runs`, `ReviewNext` the look and the insert of
`append_monitor_event_if_absent` in one transaction, `ReviewFails` the except
clause, `EndReport` the release and the heartbeat's status. `covered`, the runs a
report answers for, is a history variable.

### ReleaseChecks, PromotionGate, EvalGate

`ReleaseChecks` has the five checks as functions of what a source says, and the status
of a gate. In `PromotionGate` a request is `StartPreflight` or `StartDecision` and then
one `ReadSource` per source, in the order of the code, with `ChangeEvidence` between any
two; `RecordPreflight`, `RecordDecision` and `FailGateRequest` end it. `StartDecision`
are the checks of the preflight (its actor, its expiry, no decision yet), `StillAgrees`
the comparison of fingerprints: equality of what the checks look at. `blocked` in a
request is history: the sources blocked ever since it began. `MCPromotionGate` gives the
sources their readings; `SingleUse` is what the documentation says of a preflight.
`EvalGate` has `RunSuite`, `Aggregate` and `Drop` (a crash, a suite that raises), and
`LatestAggregate` as the gate reads it.

### OperationsPlan

One request (`report`) reads the sources one after the other along `PlanRoute` or
`ReportRoute`, with `Shift` between the reads; `PlanFor` are the rules of the plan,
`Objectives` those of the SLO report. Some sources are read twice and the outbox in
pieces, as in the code. `RecordExecution` appends to the ledger whose summary the
report reads. `report.seen` is history: what each source said during the request.
Statuses are chains of IF in the order of the code's early returns, since more than
one of their conditions may hold.

### RequestEdge

`Sign`, `Verify`, `Reserve` and `Limit` are the middleware in its order; `Exempt` is
the webhook's path. A transaction uses a reading of the clock made before its wait
for the write lock (`LockReadings`), so purges, refills and stamps come in another
order than the readings. Tokens are counted in units of what a tick refills.
`accepted` and `served` are history.

### ConversationMemory, AgentPipeline

`log` has the rows of one conversation, `memory` what each process keeps of it.
`Ask` hydrates and adds the question, `LogQuestion`, `Reply`, `LogReply` and `LogRun`
are the steps of `handle_message` and `_finalize`; `StartListing` and `Install` are
the thread of `list_messages`, `AppendFails`, `GiveUp` and `CrashProcess` what
may end a turn. Rows are read in the order of created_at, so `Place` puts a row anywhere
behind the tip its append began at. What memory and log have in common is said by
positions, without a fold over either. `AgentPipeline` is what a turn decides: a text
is the set of keyword groups found in it, `InputFindings`, `Primary`, `Route`,
`Plan`, `CallTool`, `Draft` and `OutputFindings` are the tables in the order of the
orchestrator, `LiveVerdict` and `WorkerVerdict` the two ways a run is reviewed.

### AlertTriage, FeedbackReview

The alert is folded from its rows and events (`AlertOf`), the feedback item from
its reviews (`ItemOf`). A request reads, compares with what the console showed
(`Matches`, `Expects`) and appends, each in a transaction of its own. Both windows
of 500 rows are `Window`: the console's newest rows, the endpoint's oldest. `screen`
is the alert on an operator's console and, as history, how many rows and events there
were when it was read; `request.mark` is how many there were at the two reads of the
request. `NoBlindTriage` relates them: what the comparison of fields and counts, over
different windows read at different moments, lets through has nothing new in it, other
than an event whose time sorts it behind one the operator had seen. What is committed
after the reads of the endpoint is compared with nothing (section 6).

### KnowledgeIndex

Three tables, told by how a text answers one query: found by the full-text table,
scored, both, or neither, since FTS5 splits words otherwise than `tokenize`. `Ingest` is
the transaction of `ingest_documents`; where a source is replaced, `SelectSource` lists
its ids before and `DeleteSource` deletes those in a transaction of its own. Processes
with and without FTS use one file. A search is two reads on two connections,
`StartSearch` and `FinishSearch`, with writers between them; `Read` is a read that the
limit of a scan cuts off. `steady`, the documents nobody wrote between the two, and
`search.began` are history: `SearchServesDocuments` says what a hit may be and which
documents may not be missing.

## 4. The runs

All runs check deadlock except those of `RetentionGuard` and `AuditExport`, whose
clock ends at MaxTime, and `promotion_single_use` and `service`, whose parts end when
their bounds are used up.

| Run | Instance | Shows |
|---|---|---|
| outbox_lease | two dispatchers, two alerts, three rows, PostBound 1 below PostLease 2, two attempts, one crash | exclusive POSTs, no outcome lost, nobody told of what is settled, no row stranded |
| outbox_overrun | one alert, PostBound 3 above PostLease 2, limits 1 and 2 | the ledger is implemented even when rows change hands in mid-POST |
| outbox_live | two alerts, two rows, a batch of one, fair | every row settles once operators stop requeueing; an active alert is enqueued |
| lock_overrun | two review workers with owner ids of their own, one of them periodic, work 3 above ttl 2, one crash, two runs, one of them without intent, limit 2, one review that raises, fair | no theft; granted again and again; one review per run; success can be relied on; every run is reviewed |
| retention_apply | two requests, work 2 above ttl 1, one crash, two rows, clock to 4, stamps up to 1 late, retention 2, one token of each kind | deletions are backed up, but for rows behind the backup, and previewed |
| retention_replace | one request, overwrite allowed | finding: deletion against a replaced backup |
| broker_calls | two coroutines, two payloads, two attempts, threshold 2, reset 2, lease 3 above work 2, three tickets, fair | the six properties of broker and client |
| circuit_reset | the client alone | finding: an open circuit closed early |
| export_batches | two workers, ttl and work 1, one crash; two events, two ledger rows, clock to 2, limit 2 in descending order, with and without a window from tick 2 on | no row below a cursor that nobody got; complete batches are complete |
| export_cursors | one worker, three ledger rows, one event, a limit above all | finding: a cursor falls back to nothing |
| promotion_single_use | three requests of one actor on one preflight, one change of evidence | finding: two decisions on one preflight |
| service | the other parts and the lock side by side, see below | seventeen properties of ten parts |

`service` begins in one of ten parts, which alone moves in that behaviour. The
parts share no variable, so a state of the service is a tuple of independent states
and each invariant or action property looks at one of them: letting the others
stand still loses nothing, and one run instead of ten checks all of them against
one configuration. Its bounds, and why they are enough:

- pipeline: every combination of keyword groups (texts with words of general
  support have no other topic), any number of turns, which share only `known`.
- memory: one or two processes, two users, two turns, two faults. Two turns make
  every overlap of two; three turns with one fault were checked as a larger
  instance and show nothing else.
- triage: two operators, two triage events, three rows, a window of two, so that
  the newest and the oldest rows differ; feedback: two reviewers, three reviews.
- eval: two runs of two suites; promotion: three requests on one preflight (a
  preflight and two decisions), two changes of evidence.
- edge: three attempts with two nonces on one bucket, burst below two tokens, a
  wait of one tick, a clock long enough for a signature to run out and a bucket
  to be purged.
- knowledge: two sources of one document each, one scope, one hit, a scan that reads
  all; a text that is found and scores and one that is found only; one process that
  replaces a source, beside any that ingest.
- lock: three processes, two with one owner id, ttl 6 over work 3 and waits of 1, two
  crashes.
- operations: each source calm, at a threshold or beyond it, one trouble at the start
  and one change during the request, which gives every pair of troubles.

Requests, attempts, processes, operators, reviewers and nonces are interchangeable,
so the run permutes them (SYMMETRY); it checks no liveness.

Why the bounds suffice. Two actors reach every pairwise race of these tables,
whose transactions touch one row or one batch; the lock has a third process so
that two with one owner id meet one without. Two rows let a batch be partly
lost. Three rows for two alerts let retention delete a settled one and its alert come
back; with a batch of one the second row waits behind the first. A clock to 4 with a
retention of 2 lets a row be written, backed up, overwritten by a late stamp and
deleted. Two attempts are a retry and a last attempt. Leases and work bounds lie
on either side of each other by one tick, where off-by-one faults are. Three
tickets are a reported one and two that nobody heard of. For
exports two rows of a source are one that a window or a limit leaves out and one
that it takes, two ledger rows are a batch and the one after it; a batch starts
only while there is room for its row (the guard of `Request` on MaxRows). Late is
0 there, since a late row is only exempted from what the properties say; the
proofs hold for every Late. The theorems below remove the bounds for safety.

### Fairness

- outbox_live: the clock runs and each dispatcher goes on (workers loop under a
  supervisor). Operators, retention, alerts and crashes owe nothing; a crash is bounded
  by MaxCrashes because a dispatcher that dies in every cycle settles nothing.
  EveryRowSettles supposes operators who stop requeueing: one who requeues the older row
  for ever fills a batch of one with it. `Prompt` also keeps a claim from expiring
  between the claim and the first refresh of a row: seconds of lease against one short
  transaction. A dispatcher that never gets that far in time reclaims for ever, in the
  code too.
- lock_overrun: the clock runs, workers finish what they began, and the periodic
  worker, which its own loop and its supervisor start again
  (`docker-compose.yml`), asks again. The grant is strongly fair: busy timeouts may
  happen, but not every time, since SQLite's write lock is held for moments.
  Reviews may raise, bounded by MaxFailures, and turns owe nothing.
- broker_calls: the clock runs, calls go on and their timeouts fire. The upstream
  owes no answer, and nobody owes a call.

## 5. What is proved

TLAPS checks every proof to its leaves. The hypotheses beside the ASSUMEs on the
constants are written in each theorem. The ASSUMEs say no more than the program gives:
finitely many processes and documents, no user whose name is the mark of "no user",
and for each source of the operations plan only sayings of the kind that source
returns. Every safety invariant and action property that a run expects to hold is a
theorem. The type invariants of the modules named here
are proved and not checked again by a run.

**AlertOutbox_proofs.** `TypeCorrect`. `LeaseCovers`: under DistinctWorkers and
LeaseOutlastsPost a posting worker holds its row with more lease than the POST has time.
The invariant carries itself: the lease and the POST lose a tick together, the claim of
others needs a lease of 0, and requeue, close and retention need a status that a held
row does not have. `PostsAreExclusive` follows, since two workers cannot both be in
locked_by. `OccurrencesAreUnique` needs `FreshRows` (unissued rows are absent).
`SettledAreNotPosted` joins the two: a posting worker's row is in progress, and no other
row is of its alert. `OutboxImplementsLedger` needs only DistinctWorkers:
`ClaimedInBudget` is the strengthening, a row its claimant still holds has attempts left
under the claimant's own limit, so that the attempt it records is one the ledger allows;
every other step stutters or maps one to one. `ExhaustedAreDead` takes a fleet with one
limit (`OneLimit`): that a queued or held row has used fewer attempts than it
(`WithinLimit`) is inductive.

**RetentionGuard_proofs.** `GuardTypeCorrect`; `RetentionKeepsBackedUp` when no backup
is replaced (MayReplace = FALSE); `RetentionKeepsPreviewed` without hypotheses. Stamps
may be out of order by any Late below the retention (`GuardAssumption`): a write waits
for SQLite for seconds (`event_store.py:3939`), and rows are kept for a day at least
(`config.py:68-71`). The lemma at the bottom is `MarkIdentifies`: a store has drifted
from a file when each of its rows is the one in the file, or newer than everything in
the file, or was committed behind it, which is what writes lead to; if it still has the
mark of the file, every row of it that is not behind is in the file unchanged. A row
that a preview did not report, and that is written after it, is too young to be deleted,
whatever its stamp: there Late < Retention is needed. The invariants follow the
operations: what a whole file, a drill, a preview and a request that passed the guard
each know of the store (`FileInv`, `CopyInv`, `DrillInv`, `PreviewInv`, `ApplyInv`).
Exclusion by the lock appears nowhere in the proof: the marks protect the data even when
operations overlap.

**ToolBroker_proofs.** `ClientCorrect` and `BrokerTypeCorrect` (types, and the
circuit open exactly at its threshold, by `ClientInv`). `WritesAreExclusive`
under Timely (WorkBound < Lease): `HolderInv` says that a writing call's key is
in progress with its payload and more lease than the call has time. `CallersAgree`
under Timely: `AgreeInv` says that a reported ticket is the one in a completed
row, and needs HolderInv for the completion. `ResultsAreFinal` and
`OpenCircuitIsQuiet` are unconditional action properties.

**AuditExport_proofs.** `ExportTypeCorrect`, `NoRowIsSkipped` and
`CompletedBatchesAreComplete`, without hypotheses: the lock plays no part, so
batches may overlap. `Grows` is what every step does to the rows: it adds some,
and a row it adds is behind the others or has been overtaken. So what is said of
rows up to a cursor stays true (`GrowsCovers`), and the invariant follows a batch:
cursors it starts from are covered (`InForceCovers`), a source it has read misses
nothing in front of a row it got (`ReadInv`), its files hold all of that unless
it is partial (`WriteInv`, with `CompleteKeepsAll` for the limit), and so its own
cursors are covered when it records them (`RecordInv`).

**MonitorReview_proofs.** The lock first. `LockTypeCorrect`. `LockExcludes` and
`LockIsKept` under Timely (Ttl > WorkBound + 2 BusyWait). `HoldInv` is inductive: the
holder's row is in the table with more time left than the holder may still take (while
it works, also more than the wait of its release), and there is one holder.
`LockIsNotStolen` needs distinct owner ids instead of Timely.

Then the workers: `MonitorTypeCorrect`, `RunsAreReviewedOnce` and
`SuccessCanBeRelied`, without hypotheses: nothing needs the lock to exclude. `ReviewInv`
says that a run whose turn is over is not reviewed live, that the runs a cycle has
still to review are stored, and what a cycle without failures owes (`Owes`: each run
it answers for is reviewed or still to come; `Through`: none is to come when the lock
is released). `FirstIsAll` is the lemma about the limit: a listing that does not fill
it has everything. `ReviewersDoNotSteal` needs distinct owner ids and comes from
`LockIsNotStolen`: every step of a review worker is a step of the lock or leaves
it alone (`UsesTheLock`).

**ReleaseGate_proofs.** `OnlyCompleteRunsPass`: an aggregate is final, since a run that
lacks suites has none (`EvalInv`). `PromotionTypeCorrect`, and
`ApprovalsAreNotBlocked` from `PromotionInv`: a source that a request has read and that
was blocked ever since it began was blocked in that reading; the gate of the decision is
then blocked, and the code refuses.

`ReportsAgree`, `BlocksAreAddressed` and `QuietIsJustified` hold for any sayings of the
sources, also counts that no run tries. `OperationsInv` says that each reading is what
its source said at some moment of the request (`ReadWasSaid`, over the history
`report.seen`) and that an answer follows the rules from the readings. The rest is
about the rules: which check of the gate blocks on a reading, and which objective or
action answers it. The two readings of the alerts in one plan may differ, so the
first two theorems speak of the readings, and the third of the sources.

**RequestEdge_proofs.** `EdgeTypeCorrect`: no bucket is fuller than its burst and no
stamp is ahead of the clock. `SignaturesPassOnce`, for any waits and any number of
attempts: `NonceInv` says that the row of an accepted nonce is there, with the end of
its signature as its expiry, until that end has passed (`PurgeKeepsFresh`: a purge by
an old reading removes less). `TokensStayInBudget`, for readings in any order:
`BudgetInv` adds to what was handed out since any earlier check what the row still
holds, and keeps the sum within a full bucket and what the time since refilled (twice,
where a late reading put the stamp back); without the second summand the bound is not
inductive. The counts are those of finite sets of
positions (`OneMoreTaken`).

**Conversation_proofs.** Five components that share no variable.

- Pipeline, for every set of texts: `PlansFitTheirRoutes` and `VerdictsAgreeAlways`.
  `PipelineInv` says what the stages of a turn know: tools to come and tools called are
  among those its route allows, only the safe ones after an injection, and a turn that
  promises a human has a ticket ahead of it or behind it.
- Memory, for any processes, users and turns and every order of faults.
  `ConversationsHaveOneOwner` from `OwnerInv`: with one process there is a user
  whom log, memory and listing all name, and a turn in progress keeps its state loaded.
  `MemoryIsTheLog` from `HistoryInv` beside it. `TurnInv` tells how far a turn is by
  what of it is in the log up to the tip its append began at; `Remembers`, that what a
  process has in memory was lost, is being appended, or is in the log in that order,
  and that no row which memory or a listing has lies beyond the tip of an append of
  the same process; `LiveInv`, that the only process has everything that is in the
  log, unless a listing was installed over a state in use (`clobbered`); `LostInv`,
  that what was lost is not in the log. The tips are what makes it inductive: a row
  that `Place` puts behind its tip comes after all that its process has read.
- Knowledge, for any documents, scopes, limits and writers: `SearchesServeDocuments`
  from `KnowledgeInv`: documents and chunks never part, whatever becomes of full-text
  rows, and a search under way holds rows of the documents there were when it began, of
  which those nobody wrote are as they were. `SmallIsScanned`: a scan that is not cut
  off reads every chunk.
- Feedback, for any number of reviewers: `ReviewsAreMadeKnowingly`. `FeedbackInv` says
  that a request which compared comes from a console that counted every review there was
  when the request began.
- Alerts, for any operators, rows and events: `NewRowsAreNotHidden` and
  `TriageIsNotBlind`. `TriageInv` says what the screen was made of and what a request
  goes by: the count on the screen is that of the rows it was read from, up to the
  window, and the event it shows is the last by date of those the request compared with
  (`LastStaysLast`: events that come later do not change that). The alert is a fold;
  `AlertIsFolded` gives its unfolding, from which follows that one seen as resolved was
  resolved by an event later than every row it counts.

Folds are recursive functions, and what is needed of them is proved by taking a least
counterexample (`LeastIsThere`, `UpToBound`; `RecursionWorks`, that such a function
exists), from the library's theorem that < on the naturals is well-founded.

**Model-checked only.** Liveness (EveryRowSettles, ActiveIsEnqueued,
LockIsGrantedAgain, EveryRunIsReviewed, OpenEnds), which is beyond the prover, as is
ENABLED. Induction theorems that take an operator as a parameter cannot be used,
hence the least counterexamples above. That the models are faithful to the code no
proof can show; the tables of AgentPipeline and OperationsPlan were written from it
row by row.

## 6. Findings

- `retention_replace`: a backup with overwrite that fails after the unlink leaves
  a partial file to which older tokens still lead (`main.py:5288`).
- `circuit_reset`: a late answer closes an open circuit before its reset time
  (`http_business_tools.py:269`); a late failure likewise makes it start anew.
- `promotion_single_use`: a second decision on a preflight is recorded when its request
  overlaps the first: the look for an earlier one comes before the gate is awaited
  (`main.py:2692`, `:5796`), and the append at `:5832` does not look again
  (`docs/production-deployment.md:280-282`).
- `export_cursors`: the cursors of a batch name only the sources with a row in
  it, so a source that was quiet during one batch is exported from its beginning
  by the next (`export_batch.py:311`); once its history exceeds the limit every
  batch is partial.

Two observations come from changing the constants of a passing run. With
WorkBound above Ttl, OperationLock violates OneAtATime: the lock is never renewed,
so an operation longer than its ttl runs beside the next (`event_store.py:2855`).
With AttemptLimits {1, 2}, AlertOutbox violates ExhaustedIsDead: after the limit
is lowered a failed row with that many attempts is neither retried nor dead
(`event_store.py:1108`).

Without the exception of the rows `behind` a backup DeletedRowsAreBackedUp is violated:
stamps are read before the wait for SQLite's write lock, and TLC finds a row overwritten
after the backup, under an older stamp than the newest, and deleted. The marks cannot
show it. It needs an update of a row beyond its retention.

Some hypotheses of the theorems are conditions on settings and use that the code does not
enforce. That no backup is replaced is one (`retention_replace`). A lease outlasts a POST
by the defaults, but httpx applies its timeout to each phase of a request. Worker ids and
owner ids are distinct unless the caller passes the same ones: `event_store_ops.py:197`
does, and then a late release deletes the lock of the next. The greatest legal timeouts
give a tool call 375 seconds against a fixed reservation of 300, so Timely of the broker
is a condition on the settings; the defaults meet it.

Reading the code for the other modules gave the following. Where a property
excludes one of these, its definition says so.

- Outbox. An operator who requeues a row for ever keeps younger rows out of a batch that
  is full, since the oldest created_at comes first (`event_store.py:1118`). The event of
  an operator's closing is a transaction of its own and is lost by a crash between the
  two (`event_store.py:2047`).
- Promotion. A preflight may expire between the check and the append (`main.py:5783`,
  `:5832`). The fingerprint has total counts in it, so steady traffic alone makes a
  decision 409.
- Alerts. The triage endpoint folds the oldest 500 reviews and events
  (`main.py:6775`), the console shows the newest: beyond 500 an operator is compared with
  another alert than the one on the screen. A resolved alert is not reopened by a
  worker's late review of a run older than the resolution
  (`docs/evaluation-monitoring.md:299`). The mean time to acknowledge is taken of triaged
  alerts, so one of them hides the untriaged.
- Feedback, alerts. The optimistic check and the append are separate transactions
  (`docs/production-deployment.md:259`): two reviews of one snapshot may both be recorded.
- Conversations. A listing installs its replay also over a state in use
  (`tests/test_event_store.py:680`), so a message whose append failed is forgotten
  (`clobbered`). Retention of messages may leave only runs, which replay refuses.
- Edge. A request refused with 429 has used its nonce. A late reading puts a bucket's
  stamp back, and the time in between is refilled twice (`event_store.py:2136`).
- Knowledge. A full-text row written by one process and left by another without FTS
  can keep matches from being found, and so can rows that FTS5 finds and `tokenize` scores
  0: they count as visible candidates, and no scan is added (`sqlite_knowledge.py:121`). The
  scan's limit is applied before the scopes are looked at. A search reads two snapshots, so
  its hits may be of different moments. Replacing a source leaves it empty in between, and
  an ingest that fails leaves it so.
- Operations. no_action_required ("within configured thresholds", `main.py:1795`) is also
  given while the dispatcher is missing or stale, or rows wait with the webhook off. A gate
  that never ran is no_data in the report and blocks the promotion. Readiness is no
  objective. The failures of a worker are those of its latest heartbeat. The ledger
  takes safe_to_auto_execute and action_kind from the client.

## 7. Not modelled

Section 1 lists what is planned and what is not. Within the modelled parts: the
contents of rows and notifications; HMAC signatures of tokens and requests;
VACUUM, disk-full errors and corruption; the operation ledger of maintenance;
the unguarded emergency apply of `event_store_ops.py`; clocks of different
processes that disagree (all share one host); retention of idempotency keys; the
limiter that is kept in memory when there is no event store; query rewriting and ranking
of the knowledge index; the wording of answers.
