----------------------------- MODULE AuditExport -----------------------------
(***************************************************************************)
(* The audit export batches (audit/export_batch.py, audit/export.py).  A   *)
(* worker takes the maintenance lock, finds in the operation ledger how    *)
(* far the last usable batch came, reads what is new in each source in a   *)
(* transaction of its own, writes an NDJSON file and its manifest, and     *)
(* appends a ledger row with the new cursors.  The ledger is itself one of *)
(* the sources.  All the while the service appends rows, and maintenance   *)
(* operations append theirs to the ledger.                                 *)
(*                                                                         *)
(* A row of a source is its created_at; its rowid is its place.  A cursor  *)
(* (created_at, record_type, id, source_sequence) names a row, and is kept *)
(* as the rowid of it, 0 for none.                                         *)
(***************************************************************************)
EXTENDS Integers, Sequences, FiniteSets

CONSTANTS
  Worker, Owner, Ttl, WorkBound, MaxCrashes,   \* as in OperationLock
  Options,   \* the AuditExportBatchOptions that workers and operators run with
  LookBack,  \* the completed batches among which the cursors are looked for
  Late,      \* the ticks a row may be committed after the clock reading it stamps
  MaxRows,   \* bound: source -> rows
  MaxTime    \* bound: the clock

VARIABLES
  lock, job, crashes,  \* of OperationLock
  clock,
  table,      \* source -> the stamps of its rows, in the order of their rowids
  ledger,     \* what the rows of event_store_operations say
  delivered,  \* history: the rows in files that have their manifest
  step        \* worker -> where its batch is

lockVars == <<lock, job, crashes>>
vars     == <<lockVars, clock, table, ledger, delivered, step>>

\* SQLite's busy timeout is far below one tick of this model.
Lease == INSTANCE OperationLock WITH Periodic <- {}, BusyWait <- 0

-----------------------------------------------------------------------------
Ops    == "event_store_operation"
Source == {"event", "tool_audit", Ops, "operations_automation_execution"}

\* The order in which audit_export_rows reads the sources, and that of their
\* names, by which it sorts rows of one created_at.
ReadRank == [s \in Source |-> CASE s = "event" -> 1 [] s = "tool_audit" -> 2
                                [] s = Ops -> 3 [] OTHER -> 4]
NameRank == [s \in Source |-> CASE s = "event" -> 1 [] s = Ops -> 2
                                [] s = "tool_audit" -> 4 [] OTHER -> 3]

\* after and before are the ends of a manual window, 0 when not given.  An
\* event_type selects from one source for all the batches compared with each
\* other, so a source stands for the rows that pass it.
Option == [sources : SUBSET Source, after : Nat, before : Nat,
           incremental : BOOLEAN, limit : Nat \ {0}, order : {"asc", "desc"}]

ASSUME ExportAssumption ==
  /\ Options \subseteq Option
  /\ Late \in Nat /\ MaxTime \in Nat \ {0} /\ LookBack \in Nat
  /\ MaxRows \in [Source -> Nat]

Windowed(o)    == o.after # 0 \/ o.before # 0
Incremental(o) == o.incremental /\ ~Windowed(o)

NoOption == [sources |-> {}, after |-> 0, before |-> 0,
             incremental |-> FALSE, limit |-> 1, order |-> "asc"]

RowId(s)  == DOMAIN table[s]
Row       == {x \in Source \X Nat : x[2] \in RowId(x[1])}
Cursors   == {c \in [Source -> Nat] : \A s \in Source : c[s] = 0 \/ c[s] \in RowId(s)}
NoCursors == [s \in Source |-> 0]

\* What a row of the ledger says: of a batch, or of anything else ("other").
\* Only the rows of completed batches are ever read for more than the status.
Entry == [status : {"completed", "failed", "rejected", "other"},
          opt : Options \cup {NoOption}, partial : BOOLEAN, cursors : Cursors]
Plain(status) == [status |-> status, opt |-> NoOption, partial |-> FALSE, cursors |-> NoCursors]

Stage == {"idle", "asked", "rejected", "begin", "reading", "listed", "recorded",
          "raised"}
Step  == [at : Stage, opt : Options \cup {NoOption}, began : 0 .. clock,
          from : Cursors, todo : SUBSET Source, got : SUBSET Row]
IdleStep == [at |-> "idle", opt |-> NoOption, began |-> 0,
             from |-> NoCursors, todo |-> {}, got |-> {}]

-----------------------------------------------------------------------------
\* Keys and cursors.

\* Row i of source s has the smaller (created_at, rowid).
Behind(s, i, j) == \/ table[s][i] < table[s][j]
                   \/ table[s][i] = table[s][j] /\ i < j

\* audit_export_row_sort_key, and its direction.
KeyLess(x, y) ==
  LET a == table[x[1]][x[2]]  b == table[y[1]][y[2]] IN
    \/ a < b
    \/ a = b /\ NameRank[x[1]] < NameRank[y[1]]
    \/ a = b /\ x[1] = y[1] /\ x[2] < y[2]
Earlier(o, x, y) == IF o.order = "asc" THEN KeyLess(x, y) ELSE KeyLess(y, x)

\* The rows of s that the options and the cursor let through.  The limit of each
\* select is that of the batch plus one and cuts nothing that the batch keeps.
Matches(o, c, s) ==
  {k \in RowId(s) : /\ o.after # 0 => table[s][k] >= o.after
                    /\ o.before # 0 => table[s][k] <= o.before
                    /\ c[s] # 0 => Behind(s, c[s], k)}

\* A fault a later run plants: the limit is asked for without the row beyond it.
NeverPartial(o, G) == FALSE

Partial(o, G)    == Cardinality(G) > o.limit
SourceRows(o, G) == {x \in G : Cardinality({y \in G : Earlier(o, y, x)}) < o.limit}

Top(s, G) == {i \in RowId(s) : /\ <<s, i>> \in G
                               /\ \A j \in RowId(s) : <<s, j>> \in G => j = i \/ Behind(s, j, i)}

\* source_high_water_cursors: the greatest row of every source that has one in
\* the batch; none of a partial batch.
HighWater(o, G) ==
  [s \in Source |-> IF Partial(o, G) \/ Top(s, SourceRows(o, G)) = {} THEN 0
                    ELSE CHOOSE i \in Top(s, SourceRows(o, G)) : TRUE]

\* A fault a later run plants: a manual window counts as a batch like others.
CompatibleSources(p, o) == p.sources = o.sources

\* _previous_options_are_cursor_compatible
Compatible(p, o) == p.sources = o.sources /\ ~Windowed(p)

\* list_event_store_operations(status="completed", order="desc", limit=100)
Completed == {i \in DOMAIN ledger : ledger[i].status = "completed"}
Recent    == {i \in Completed :
                Cardinality({j \in Completed : Behind(Ops, i, j)}) < LookBack}
Usable(o) == {i \in Recent : /\ ~ledger[i].partial
                             /\ ledger[i].cursors # NoCursors
                             /\ Compatible(ledger[i].opt, o)}
Latest(o) == {i \in Usable(o) : \A j \in Usable(o) : j = i \/ Behind(Ops, j, i)}

\* _latest_completed_export_cursors
InForce(o) ==
  IF ~Incremental(o) \/ Latest(o) = {} THEN NoCursors
  ELSE ledger[CHOOSE i \in Latest(o) : TRUE].cursors

-----------------------------------------------------------------------------
Init ==
  /\ Lease!Init
  /\ clock = 1
  /\ table = [s \in Source |-> <<>>]
  /\ ledger = <<>>
  /\ delivered = {}
  /\ step = [w \in Worker |-> IdleStep]

\* The service writes: the stamp was read up to Late ticks before the commit.
Stamps == {t \in 1 .. clock : t >= clock - Late}

Insert(s, t) ==
  /\ Len(table[s]) < MaxRows[s]
  /\ table' = [table EXCEPT ![s] = Append(@, t)]

\* append_event_store_operation
AppendOperation(t, e) ==
  /\ Insert(Ops, t)
  /\ ledger' = Append(ledger, e)

\* append, append_tool_audit, append_operations_automation_execution
Write == \E s \in Source \ {Ops}, t \in Stamps :
           /\ Insert(s, t)
           /\ UNCHANGED <<lockVars, clock, ledger, delivered, step>>

\* A backup, drill, preview or apply is recorded, or one that was rejected.
Maintain == \E t \in Stamps :
              /\ AppendOperation(t, Plain("other"))
              /\ UNCHANGED <<lockVars, clock, delivered, step>>

-----------------------------------------------------------------------------
\* A batch.

Goto(w, s) == step' = [step EXCEPT ![w] = s]
Move(w, a) == Goto(w, [step[w] EXCEPT !.at = a])
End(w, a)  == Goto(w, [IdleStep EXCEPT !.at = a, !.began = step[w].began])

\* run_audit_export_batch reads the clock and asks for the lock.
Request(w) ==
  /\ step[w].at = "idle"
  /\ Len(table[Ops]) < MaxRows[Ops]   \* the bound on its own row
  /\ Lease!Request(w)
  /\ \E o \in Options : Goto(w, [IdleStep EXCEPT !.at = "asked", !.opt = o, !.began = clock])
  /\ UNCHANGED <<clock, table, ledger, delivered>>

Conflict(w) ==
  /\ Lease!Conflict(w)
  /\ End(w, "rejected")
  /\ UNCHANGED <<clock, table, ledger, delivered>>

\* "database is locked" is an exception like others.
BusyTimeout(w) ==
  /\ Lease!BusyTimeout(w)
  /\ End(w, "raised")
  /\ UNCHANGED <<clock, table, ledger, delivered>>

Begin(w) ==
  /\ Lease!Acquire(w)
  /\ Move(w, "begin")
  /\ UNCHANGED <<clock, table, ledger, delivered>>

LoadCursors(w) ==
  /\ step[w].at = "begin"
  /\ Goto(w, [step[w] EXCEPT !.at = "reading", !.from = InForce(step[w].opt),
                             !.todo = step[w].opt.sources])
  /\ UNCHANGED <<lockVars, clock, table, ledger, delivered>>

\* One select of audit_export_rows, on a connection of its own.
Read(w) ==
  /\ step[w].at = "reading"
  /\ \E s \in step[w].todo :
       /\ \A r \in step[w].todo : ReadRank[s] <= ReadRank[r]
       /\ Goto(w, [step[w] EXCEPT
                     !.todo = step[w].todo \ {s},
                     !.got = step[w].got \cup
                               {<<s, k>> : k \in Matches(step[w].opt, step[w].from, s)}])
  /\ UNCHANGED <<lockVars, clock, table, ledger, delivered>>

\* The NDJSON file is renamed into its place, then its manifest: from here on a
\* consumer takes the file.  A batch that fails between the two leaves none.
WriteFiles(w) ==
  /\ step[w].at = "reading" /\ step[w].todo = {}
  /\ delivered' = delivered \cup SourceRows(step[w].opt, step[w].got)
  /\ Move(w, "listed")
  /\ UNCHANGED <<lockVars, clock, table, ledger>>

\* The ledger row of a completed batch has the clock reading of its start.
Record(w) ==
  /\ step[w].at = "listed"
  /\ AppendOperation(step[w].began,
       [status |-> "completed", opt |-> step[w].opt,
        partial |-> Partial(step[w].opt, step[w].got),
        cursors |-> HighWater(step[w].opt, step[w].got)])
  /\ End(w, "recorded")
  /\ UNCHANGED <<lockVars, clock, delivered>>

\* The with statement ends, with the batch recorded or an exception on its way.
Leave(w) ==
  /\ Lease!FinishWork(w)
  /\ End(w, IF step[w].at = "recorded" THEN "recorded" ELSE "raised")
  /\ UNCHANGED <<clock, table, ledger, delivered>>

Release(w) ==
  /\ Lease!Release(w)
  /\ IF step[w].at = "recorded" THEN Goto(w, IdleStep) ELSE UNCHANGED step
  /\ UNCHANGED <<clock, table, ledger, delivered>>

\* The except clauses append a row of their own, or that fails as well.
Report(w) ==
  /\ job[w].pc = "idle"
  /\ \/ /\ step[w].at = "rejected"
        /\ AppendOperation(step[w].began, Plain("rejected"))
     \/ /\ step[w].at = "raised"
        /\ AppendOperation(step[w].began, Plain("failed"))
     \/ /\ step[w].at \in {"rejected", "raised"}
        /\ UNCHANGED <<table, ledger>>
  /\ Goto(w, IdleStep)
  /\ UNCHANGED <<lockVars, clock, delivered>>

\* The process is killed; or its release raises, after which it goes on to
\* report a failure, of a batch it has recorded too.
Crash(w) ==
  /\ Lease!Crash(w)
  /\ \/ Goto(w, IdleStep)
     \/ /\ job[w].pc = "releasing"
        /\ End(w, "raised")
  /\ UNCHANGED <<clock, table, ledger, delivered>>

Tick ==
  /\ clock < MaxTime
  /\ Lease!Tick
  /\ clock' = clock + 1
  /\ UNCHANGED <<table, ledger, delivered, step>>

Next ==
  \/ Write \/ Maintain
  \/ \E w \in Worker :
       \/ Request(w) \/ Conflict(w) \/ BusyTimeout(w) \/ Begin(w)
       \/ LoadCursors(w) \/ Read(w) \/ WriteFiles(w) \/ Record(w)
       \/ Leave(w) \/ Release(w) \/ Report(w) \/ Crash(w)
  \/ Tick

Spec == Init /\ [][Next]_vars

-----------------------------------------------------------------------------
TypeOK ==
  /\ clock \in 1 .. MaxTime
  /\ table \in [Source -> Seq(0 .. clock)]
  /\ ledger \in Seq(Entry) /\ Len(ledger) = Len(table[Ops])
  /\ delivered \subseteq Row
  /\ step \in [Worker -> Step]

\* The row was not overtaken: no row committed before it has a later stamp.
InOrder(s, k) == \A i \in 1 .. k : table[s][i] <= table[s][k]

\* The next batch starts behind no row that no consumer got: wherever the cursors
\* it will use stand, every row up to them is in a file with a manifest, unless it
\* was committed after a row with a later stamp.  Rows arrive between the reads,
\* batches fail, crash, outlast the lock and overlap (export_batch.py:307-311,
\* 443-471).
NothingSkipped ==
  \A o \in Options : \A s \in o.sources : \A k \in RowId(s) :
    LET c == InForce(o)[s] IN
      c # 0 /\ InOrder(s, k) /\ (k = c \/ Behind(s, k, c)) => <<s, k>> \in delivered

\* Rows whose stamp is taken when they are written, as those of a batch are not.
Stamped(s, k) == s # Ops \/ ledger[k].status = "other"

\* A ledger row that says of a batch without a window that it is complete is
\* evidence of that: all that was written before the batch began was exported,
\* by it or by those before it (export_batch.py:307-311, readiness.py:216-246).
CompleteIsComplete ==
  \A i \in Completed :
    ~Windowed(ledger[i].opt) /\ ~ledger[i].partial =>
      \A s \in ledger[i].opt.sources : \A k \in RowId(s) :
        Stamped(s, k) /\ InOrder(s, k) /\ table[s][k] < table[Ops][i] - Late
          => <<s, k>> \in delivered

\* What production-deployment.md:570 says of completed batches: the cursor of a
\* source only advances.
CursorsAdvance ==
  [][\A o \in Options : \A s \in o.sources : \A c \in RowId(s) :
       InForce(o)[s] = c =>
         (InForce(o)[s] = c \/ (InForce(o)[s] # 0 /\ Behind(s, c, InForce(o)[s])))']_vars
=============================================================================
