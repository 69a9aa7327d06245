---------------------------- MODULE RetentionGuard ----------------------------
(***************************************************************************)
(* Backup, restore drill, retention preview and guarded retention apply    *)
(* (api/main.py, memory/event_store.py), run by maintenance requests under *)
(* the lock of OperationLock while the rest of the service keeps writing.  *)
(* The four operations share no state but tokens that the server signs and *)
(* the operator brings back, in any combination and at any later time.     *)
(*                                                                         *)
(* One guarded table is kept; the guard reads and compares every table on  *)
(* its own.  A row is the time stamp it was last written with, 0 when it   *)
(* is absent; a write stamps its row and is the only one of its tick, but  *)
(* the stamp is a clock reading taken up to Late ticks before the commit,  *)
(* so that rows may be committed out of the order of their stamps.         *)
(***************************************************************************)
EXTENDS Integers, FiniteSets

CONSTANTS
  Worker, Owner, Ttl, WorkBound, MaxCrashes,   \* as in OperationLock
  Path,        \* backup files
  MayReplace,  \* whether a backup is ever taken with overwrite=true
  MaxRows,     \* bound: row ids
  MaxTime,     \* bound: the clock
  Late,        \* the ticks a write may come after the clock reading it stamps
  Retention,   \* retention days
  MaxTokens    \* bound: backup and preview tokens issued

ASSUME GuardAssumption ==
  /\ MaxRows \in Nat /\ MaxTime \in Nat \ {0} /\ Late \in Nat /\ MaxTokens \in Nat
  /\ Retention \in Nat /\ Late < Retention   \* days against the seconds of a request
  /\ MayReplace \in BOOLEAN

VARIABLES
  lock, job, crashes,  \* of OperationLock
  clock, written,      \* now, and the tick of the last write
  rows,                \* row id -> its stamp
  files,               \* path -> the file
  behind,              \* path -> rows committed after its copy with a stamp that is
                       \* no newer than all of it: a history of what marks cannot show
  backups, drills, previews,   \* the tokens issued so far
  step                 \* worker -> where its operation is

lockVars == <<lock, job, crashes>>
store    == <<clock, written, rows>>
disk     == <<files, behind>>
tokens   == <<backups, drills, previews>>
vars     == <<lockVars, store, disk, tokens, step>>

\* SQLite's busy timeout is far below one tick of this model.
Lease == INSTANCE OperationLock WITH Periodic <- {}, BusyWait <- 0

RowId   == 1 .. MaxRows
Time    == 0 .. MaxTime
Rows    == [RowId -> Time]
NoPath  == "none"
NoRows  == [i \in RowId |-> 0]

\* A backup file: whether it is there and complete, and the rows it holds.
File    == [state : {"missing", "partial", "whole"}, rows : Rows]
NoFile  == [state |-> "missing", rows |-> NoRows]
Partial == [state |-> "partial", rows |-> NoRows]
Whole(r) == [state |-> "whole", rows |-> r]

\* The rows of a table that exist, and retention_high_water_mark of it: how
\* many they are, the greatest rowid and the latest stamp.  A maximum is kept as
\* the numbers up to it: two sets have the same one when their maxima are equal.
Live(r)   == {i \in RowId : r[i] # 0}
RowIds(r) == {n \in RowId : \E i \in RowId : r[i] # 0 /\ n <= i}
Latest(r) == {t \in 1 .. MaxTime : \E i \in RowId : t <= r[i]}
Mark(r)   == [count |-> Cardinality(Live(r)), rowid |-> RowIds(r), stamp |-> Latest(r)]
Marks     == [count : Nat, rowid : SUBSET RowId, stamp : SUBSET (1 .. MaxTime)]

\* What a retention run with this now reports and would delete.
Candidates(r, now) == {i \in Live(r) : r[i] <= now - Retention}

Backup  == [path : Path, mark : Marks]
Drill   == [backup : Backup, mark : Marks]
Preview == [now : Time, mark : Marks, seen : SUBSET RowId]

\* at, the file of the operation, and the preview_now and the candidates that
\* its token names.
Stage == {"idle", "begin", "copying", "copied", "reported", "checked", "guarded", "end"}
OnFile == {"copying", "copied", "checked", "guarded"}
Step == {s \in [at : Stage, path : Path \cup {NoPath}, now : Time, seen : SUBSET RowId] :
           s.at \in OnFile => s.path \in Path}
At(a, p, n, S) == [at |-> a, path |-> p, now |-> n, seen |-> S]
IdleStep == At("idle", NoPath, 0, {})

-----------------------------------------------------------------------------
Init ==
  /\ Lease!Init
  /\ clock = 1 /\ written = 0
  /\ rows = NoRows
  /\ files = [p \in Path |-> NoFile]
  /\ behind = [p \in Path |-> {}]
  /\ backups = {} /\ drills = {} /\ previews = {}
  /\ step = [w \in Worker |-> IdleStep]

\* A write of the service: its stamp was read up to Late ticks before.
Stamps == {t \in 1 .. clock : t >= clock - Late}

\* The file of p cannot tell a row stamped t from those it was copied with.
Overtaken(p, t) == files[p].state = "whole" /\ \E j \in RowId : t <= files[p].rows[j]

Write(i, t) ==
  /\ written < clock
  /\ written' = clock
  /\ rows' = [rows EXCEPT ![i] = t]
  /\ behind' = [p \in Path |-> IF t # 0 /\ Overtaken(p, t) THEN behind[p] \cup {i}
                                                         ELSE behind[p] \ {i}]
  /\ UNCHANGED <<lockVars, clock, files, tokens, step>>

\* reserve, append_tool_audit, append, ...: SQLite gives the new row the rowid
\* after the greatest one.
Insert  == \E t \in Stamps, i \in RowId : RowIds(rows) = 1 .. (i - 1) /\ Write(i, t)
\* complete, record_alert_delivery_attempt, ...: the row gets a new updated_at.
Touch   == \E t \in Stamps, i \in Live(rows) : Write(i, t)
\* release deletes a reservation whose call failed.
Remove  == \E i \in Live(rows) : Write(i, 0)

-----------------------------------------------------------------------------
\* An operation under the lock.

Request(w)  == Lease!Request(w)  /\ UNCHANGED <<store, disk, tokens, step>>
Conflict(w) == Lease!Conflict(w) /\ UNCHANGED <<store, disk, tokens, step>>

Goto(w, s) == step' = [step EXCEPT ![w] = s]
Done       == At("end", NoPath, 0, {})

Begin(w) ==
  /\ Lease!Acquire(w)
  /\ Goto(w, At("begin", NoPath, 0, {}))
  /\ UNCHANGED <<store, disk, tokens>>

\* backup_to refuses a path that exists unless overwrite is set, and then
\* unlinks it before the copy.
StartCopy(w) ==
  /\ step[w].at = "begin"
  /\ \E p \in Path :
       /\ files[p].state = "missing" \/ MayReplace
       /\ files' = [files EXCEPT ![p] = Partial]
       /\ behind' = [behind EXCEPT ![p] = {}]
       /\ Goto(w, At("copying", p, 0, {}))
  /\ UNCHANGED <<lockVars, store, tokens>>

\* The online copy is one snapshot of the store; quick_check accepts it.
FinishCopy(w) ==
  /\ step[w].at = "copying"
  /\ files' = [files EXCEPT ![step[w].path] = Whole(rows)]
  /\ behind' = [behind EXCEPT ![step[w].path] = {}]
  /\ Goto(w, At("copied", step[w].path, 0, {}))
  /\ UNCHANGED <<lockVars, store, tokens>>

\* The mark is read from the live store after the copy.
TokenBackup(w) ==
  /\ step[w].at = "copied"
  /\ Cardinality(backups) < MaxTokens
  /\ backups' = backups \cup {[path |-> step[w].path, mark |-> Mark(rows)]}
  /\ Goto(w, Done)
  /\ UNCHANGED <<lockVars, store, disk, drills, previews>>

\* A fault a later run plants: the drill trusts the mark of the backup token.
RestoreDrillUnmarked(w) ==
  /\ step[w].at = "begin"
  /\ \E t \in backups :
       /\ files[t.path].state = "whole"
       /\ drills' = drills \cup {[backup |-> t, mark |-> t.mark]}
  /\ Goto(w, Done)
  /\ UNCHANGED <<lockVars, store, disk, backups, previews>>

\* restore_drill copies and verifies the file, and the endpoint compares the
\* mark of the restored copy with the mark in the backup token.
RestoreDrill(w) ==
  /\ step[w].at = "begin"
  /\ \E t \in backups :
       /\ files[t.path].state = "whole"
       /\ Mark(files[t.path].rows) = t.mark
       /\ drills' = drills \cup {[backup |-> t, mark |-> Mark(files[t.path].rows)]}
  /\ Goto(w, Done)
  /\ UNCHANGED <<lockVars, store, disk, backups, previews>>

\* The dry run counts the candidates; the mark is read afterwards.
Report(w) ==
  /\ step[w].at = "begin"
  /\ Goto(w, At("reported", NoPath, clock, Candidates(rows, clock)))
  /\ UNCHANGED <<lockVars, store, disk, tokens>>

TokenPreview(w) ==
  /\ step[w].at = "reported"
  /\ Cardinality(previews) < MaxTokens
  /\ previews' = previews \cup {[now |-> step[w].now, mark |-> Mark(rows), seen |-> step[w].seen]}
  /\ Goto(w, Done)
  /\ UNCHANGED <<lockVars, store, disk, backups, drills>>

\* The comparisons of _assert_retention_apply_is_guarded: the tokens belong
\* together, the file exists, and the store still has the mark they name.
TokensAgree(t, d, v) ==
  /\ d.backup = t
  /\ d.mark = t.mark
  /\ files[t.path].state # "missing"
  /\ t.mark = v.mark
  /\ Mark(rows) = v.mark

CheckTokens(w) ==
  /\ step[w].at = "begin"
  /\ \E t \in backups, d \in drills, v \in previews :
       /\ TokensAgree(t, d, v)
       /\ Goto(w, At("checked", t.path, v.now, v.seen))
  /\ UNCHANGED <<lockVars, store, disk, tokens>>

\* The dry run is repeated with preview_now; the fingerprint holds the counts.
Recount(w) ==
  /\ step[w].at = "checked"
  /\ Cardinality(Candidates(rows, step[w].now)) = Cardinality(step[w].seen)
  /\ Goto(w, At("guarded", step[w].path, step[w].now, step[w].seen))
  /\ UNCHANGED <<lockVars, store, disk, tokens>>

Cleared(r, S) == [i \in RowId |-> IF i \in S THEN 0 ELSE r[i]]

\* A fault a later run plants: the apply takes its own now.
ApplyAfresh(w) ==
  /\ step[w].at = "guarded"
  /\ rows' = Cleared(rows, Candidates(rows, clock))
  /\ Goto(w, Done)
  /\ UNCHANGED <<lockVars, clock, written, disk, tokens>>

\* apply_retention_policy(dry_run=False, now=preview_now), one transaction.
Apply(w) ==
  /\ step[w].at = "guarded"
  /\ rows' = Cleared(rows, Candidates(rows, step[w].now))
  /\ Goto(w, Done)
  /\ UNCHANGED <<lockVars, clock, written, disk, tokens>>

\* The operation returns, is rejected, or raises wherever it is.
Leave(w) ==
  /\ Lease!FinishWork(w)
  /\ Goto(w, IdleStep)
  /\ UNCHANGED <<store, disk, tokens>>

Release(w) == Lease!Release(w) /\ UNCHANGED <<store, disk, tokens, step>>

Crash(w) ==
  /\ Lease!Crash(w)
  /\ Goto(w, IdleStep)
  /\ UNCHANGED <<store, disk, tokens>>

Tick ==
  /\ clock < MaxTime
  /\ Lease!Tick
  /\ clock' = clock + 1
  /\ UNCHANGED <<written, rows, disk, tokens, step>>

Next ==
  \/ Insert \/ Touch \/ Remove
  \/ \E w \in Worker :
       \/ Request(w) \/ Conflict(w) \/ Begin(w)
       \/ StartCopy(w) \/ FinishCopy(w) \/ TokenBackup(w)
       \/ RestoreDrill(w)
       \/ Report(w) \/ TokenPreview(w)
       \/ CheckTokens(w) \/ Recount(w) \/ Apply(w)
       \/ Leave(w) \/ Release(w) \/ Crash(w)
  \/ Tick

Spec == Init /\ [][Next]_vars

-----------------------------------------------------------------------------
TypeOK ==
  /\ clock \in 1 .. MaxTime /\ written \in 0 .. clock
  /\ rows \in [RowId -> 0 .. clock]
  /\ files \in [Path -> File] /\ behind \in [Path -> SUBSET RowId]
  /\ backups \subseteq Backup /\ drills \subseteq Drill /\ previews \subseteq Preview
  /\ step \in [Worker -> Step]

Deletes(w, i) == /\ step[w].at = "guarded" /\ step'[w].at = "end"
                 /\ rows[i] # 0 /\ rows'[i] = 0

\* A row that retention deletes is in the backup that its tokens name, in the
\* very version it deletes, although writes go on between and during the
\* operations and any of them may outlast its lock (main.py:5226-5333,
\* 7109-7451): always when it was committed before the copy, and also when it
\* was committed later under a stamp newer than all of the backup.
DeletedRowsAreBackedUp ==
  [][\A w \in Worker, i \in RowId :
       Deletes(w, i) /\ i \notin behind[step[w].path]
       => /\ files[step[w].path].state = "whole"
          /\ files[step[w].path].rows[i] = rows[i]]_vars

\* Retention deletes no row that its preview did not report, whenever its write
\* was committed (main.py:5305-5333, 7363-7380).
DeletedRowsWerePreviewed ==
  [][\A w \in Worker, i \in RowId : Deletes(w, i) => i \in step[w].seen]_vars
=============================================================================
