------------------------ MODULE RetentionGuard_proofs ------------------------
(***************************************************************************)
(* Proofs about RetentionGuard for every number of rows, of requests and   *)
(* of backups.  The locks play no part in them: what protects the rows is  *)
(* the comparison of marks.  A backup file and the store it was taken from *)
(* drift apart by rows that are newer than everything in the file          *)
(* (FileInv), so a store that still has the mark of the file has none, and *)
(* by the rows behind, committed late under an older stamp, of which marks *)
(* say nothing.  Whatever is written after the preview is too young to be  *)
(* deleted, because Late < Retention.                                      *)
(***************************************************************************)
EXTENDS RetentionGuard, FiniteSetTheorems, TLAPS

USE GuardAssumption

\* The steps from the comparison of the tokens to the delete.
Guarding(w) == step[w].at \in {"checked", "guarded"}

\* What the preview of a token, or of an operation on its way, has not reported
\* is too young to be deleted.
Reported(now, seen) ==
  /\ now <= clock
  /\ \A i \in RowId : rows[i] # 0 /\ rows[i] <= now - Retention => i \in seen
PreviewInv ==
  /\ \A v \in previews : Reported(v.now, v.seen)
  /\ \A w \in Worker : step[w].at = "reported" \/ Guarding(w) => Reported(step[w].now, step[w].seen)

\* A row of the store is the one in a complete backup, or newer than all of it,
\* or one of those behind.
Drifted(r, f, S) == \A i \in RowId : r[i] # 0 => r[i] = f[i] \/ i \in S \/ \A j \in RowId : r[i] > f[j]
FileInv == \A p \in Path : files[p].state = "whole" => Drifted(rows, files[p].rows, behind[p])

\* A file being written is nobody else's; a file that passed a drill stays.
CopyInv ==
  \A v, w \in Worker :
    /\ step[v].at = "copying" => files[step[v].path].state = "partial"
    /\ step[v].at = "copying" /\ step[w].at = "copying" /\ step[v].path = step[w].path => v = w
DrillInv ==
  \A d \in drills : /\ files[d.backup.path].state = "whole"
                    /\ Mark(files[d.backup.path].rows) = d.mark

\* Between the guard and the delete the rows to delete are in the backup.
BackedUp(p, now) ==
  /\ files[p].state = "whole"
  /\ \A i \in RowId \ behind[p] :
       rows[i] # 0 /\ rows[i] <= now - Retention => files[p].rows[i] = rows[i]
ApplyInv == \A w \in Worker : Guarding(w) => BackedUp(step[w].path, step[w].now)

-----------------------------------------------------------------------------
\* The rowids of a table are finitely many.
LEMMA RowIdFinite == IsFiniteSet(RowId)
BY FS_Interval DEF RowId

\* The mark of a table has its type.
LEMMA MarkType == ASSUME NEW r \in Rows PROVE Mark(r) \in Marks
<1>1. Live(r) \subseteq RowId
  BY DEF Live
<1>2. Cardinality(Live(r)) \in Nat
  BY <1>1, RowIdFinite, FS_Subset, FS_CardinalityType
<1>3. RowIds(r) \subseteq RowId /\ Latest(r) \subseteq 1 .. MaxTime
  BY DEF RowIds, Latest
<1> QED BY <1>2, <1>3 DEF Mark, Marks

\* A store with the mark of a file it drifted from has, but for the rows behind,
\* no row beside the file's.
LEMMA MarkIdentifies ==
  ASSUME NEW r \in Rows, NEW f \in Rows, NEW S, Drifted(r, f, S), Mark(r) = Mark(f)
  PROVE  \A i \in RowId \ S : r[i] # 0 => f[i] = r[i]
<1> SUFFICES ASSUME NEW i \in RowId \ S, r[i] # 0, f[i] # r[i] PROVE FALSE
  OBVIOUS
<1>1. \A j \in RowId : r[i] > f[j]
  BY DEF Drifted
<1>2. r[i] \in 1 .. MaxTime /\ \A j \in RowId : f[j] \in Nat
  BY DEF Rows, Time
<1>3. r[i] \in Latest(r)
  BY <1>2 DEF Latest
<1>4. Latest(r) = Latest(f)
  BY DEF Mark
<1>5. PICK j \in RowId : r[i] <= f[j]
  BY <1>3, <1>4 DEF Latest
<1> QED BY <1>1, <1>2, <1>5

-----------------------------------------------------------------------------
\* The writes of the service, whatever they write, put one stamp of the last
\* Late ticks on one row or remove a row.
LEMMA WriteShape ==
  ASSUME TypeOK, Insert \/ Touch \/ Remove
  PROVE  /\ rows' \in [RowId -> 0 .. clock]
         /\ written < clock /\ written' = clock
         /\ \A i \in RowId : rows'[i] \in {rows[i], 0} \cup Stamps
         /\ behind' \in [Path -> SUBSET RowId]
         /\ \A p \in Path, i \in RowId :
              \/ rows'[i] = rows[i] /\ (i \in behind'[p] <=> i \in behind[p])
              \/ rows'[i] = 0
              \/ rows'[i] \in Stamps /\ (i \in behind'[p] \/ ~Overtaken(p, rows'[i]))
         /\ UNCHANGED <<lockVars, clock, files, tokens, step>>
<1>1. /\ rows \in [RowId -> 0 .. clock] /\ clock \in Nat /\ Stamps \subseteq 0 .. clock
      /\ 0 \in 0 .. clock /\ behind \in [Path -> SUBSET RowId]
  BY DEF TypeOK, Stamps
<1>2. PICK i \in RowId, t \in Stamps \cup {0} : Write(i, t)
  BY DEF Insert, Touch, Remove, Live
<1>3. rows' = [rows EXCEPT ![i] = t] /\ t \in 0 .. clock
  BY <1>1, <1>2 DEF Write
<1>4. rows' \in [RowId -> 0 .. clock] /\ \A j \in RowId : rows'[j] \in {rows[j], 0} \cup Stamps
  BY <1>1, <1>2, <1>3
<1>5. /\ behind' \in [Path -> SUBSET RowId]
      /\ \A p \in Path : behind'[p] = IF t # 0 /\ Overtaken(p, t) THEN behind[p] \cup {i}
                                                                  ELSE behind[p] \ {i}
  BY <1>1, <1>2 DEF Write
<1>6. ASSUME NEW p \in Path, NEW j \in RowId
      PROVE  \/ rows'[j] = rows[j] /\ (j \in behind'[p] <=> j \in behind[p])
             \/ rows'[j] = 0
             \/ rows'[j] \in Stamps /\ (j \in behind'[p] \/ ~Overtaken(p, rows'[j]))
  <2>1. CASE j = i
    BY <1>1, <1>3, <1>5, <2>1
  <2>2. CASE j # i
    BY <1>1, <1>3, <1>5, <2>2
  <2> QED BY <2>1, <2>2
<1> QED BY <1>2, <1>4, <1>5, <1>6 DEF Write

\* The table is one of the tables, and so is one of rows stamped up to now.
LEMMA RowsOfTime == ASSUME TypeOK PROVE rows \in Rows /\ [RowId -> 0 .. clock] \subseteq Rows
BY DEF TypeOK, Rows, Time

\* The records the actions assign have the types of a step, a file and a table.
LEMMA StepRecords ==
  /\ IdleStep \in Step /\ Done \in Step
  /\ IdleStep.at = "idle" /\ Done.at = "end"
  /\ Partial \in File /\ NoFile \in File /\ NoRows \in Rows
  /\ Partial.state = "partial" /\ NoFile.state = "missing"
  /\ \A r \in Rows : Whole(r) \in File /\ Whole(r).state = "whole" /\ Whole(r).rows = r
<1>1. NoRows \in Rows
  BY DEF NoRows, Rows, Time
<1>2. IdleStep \in Step /\ Done \in Step
  BY DEF IdleStep, Done, At, Step, Stage, OnFile, Time
<1> QED BY <1>1, <1>2 DEF IdleStep, Done, At, Partial, NoFile, Whole, File

\* The store, the backups and the requests have their types at the start.
LEMMA GuardInitType == Init => TypeOK
<1> SUFFICES ASSUME Init PROVE TypeOK
  OBVIOUS
<1>1. rows \in [RowId -> 0 .. 1] /\ clock = 1 /\ written = 0
  BY DEF Init, NoRows
<1>2. files \in [Path -> File] /\ step \in [Worker -> Step]
  BY StepRecords DEF Init
<1> QED BY <1>1, <1>2 DEF Init, TypeOK

\* The stages of an operation are typed by their fields.
LEMMA AtType ==
  ASSUME NEW a \in Stage, NEW p \in Path \cup {NoPath}, a \in OnFile => p \in Path,
         NEW n \in Time, NEW S \in SUBSET RowId
  PROVE  /\ At(a, p, n, S) \in Step
         /\ At(a, p, n, S).at = a /\ At(a, p, n, S).path = p
         /\ At(a, p, n, S).now = n /\ At(a, p, n, S).seen = S
BY DEF At, Step, Stage, OnFile

\* Only one stage of one operation changes with each step of it.
LEMMA GotoShape ==
  ASSUME TypeOK, NEW w \in Worker, NEW s \in Step, Goto(w, s)
  PROVE  /\ step' \in [Worker -> Step] /\ step'[w] = s
         /\ \A v \in Worker : v # w => step'[v] = step[v]
BY DEF TypeOK, Goto

\* Every step of a request, of a writer and of the clock keeps the types.
LEMMA GuardStepType == TypeOK /\ [Next]_vars => TypeOK'
<1> SUFFICES ASSUME TypeOK, [Next]_vars PROVE TypeOK'
  OBVIOUS
<1>ok. /\ clock \in 1 .. MaxTime /\ written \in 0 .. clock
       /\ rows \in [RowId -> 0 .. clock] /\ rows \in Rows
       /\ files \in [Path -> File] /\ behind \in [Path -> SUBSET RowId]
       /\ backups \subseteq Backup /\ drills \subseteq Drill /\ previews \subseteq Preview
       /\ step \in [Worker -> Step]
  BY RowsOfTime DEF TypeOK
<1>at. \A w \in Worker : /\ step[w].path \in Path \cup {NoPath} /\ step[w].now \in Time
                         /\ step[w].seen \in SUBSET RowId
  BY <1>ok DEF Step
<1>on. \A w \in Worker : step[w].at \in OnFile => step[w].path \in Path
  BY <1>ok DEF Step
<1>stage. /\ {"begin", "reported"} \subseteq Stage \ OnFile
          /\ {"copying", "copied", "checked", "guarded"} \subseteq Stage \cap OnFile
  BY DEF Stage, OnFile
<1>zero. 0 \in Time /\ {} \in SUBSET RowId /\ NoPath \in Path \cup {NoPath} /\ clock \in Time
  BY <1>ok DEF Time
\* An operation step that leaves store and files alone has only its record to type.
<1>goto. ASSUME NEW w \in Worker, NEW s \in Step, Goto(w, s), UNCHANGED <<store, disk, tokens>>
         PROVE  TypeOK'
  BY <1>goto, GotoShape DEF TypeOK, store, disk, tokens
<1>1. ASSUME Insert \/ Touch \/ Remove PROVE TypeOK'
  <2>1. written' \in 0 .. clock
    BY <1>ok, <1>1, WriteShape
  <2> QED BY <1>1, <1>ok, <2>1, WriteShape DEF TypeOK, tokens, disk
<1>2. ASSUME NEW w \in Worker, Request(w) \/ Conflict(w) \/ Release(w) PROVE TypeOK'
  BY <1>2 DEF Request, Conflict, Release, TypeOK, store, disk, tokens
<1>3. ASSUME NEW w \in Worker, Begin(w) PROVE TypeOK'
  BY <1>3, <1>goto, <1>zero, <1>stage, AtType DEF Begin
<1>4. ASSUME NEW w \in Worker, StartCopy(w) PROVE TypeOK'
  <2>1. PICK p \in Path : files' = [files EXCEPT ![p] = Partial] /\ Goto(w, At("copying", p, 0, {}))
    BY <1>4 DEF StartCopy
  <2>2. files' \in [Path -> File]
    BY <2>1, <1>ok, StepRecords
  <2>3. step' \in [Worker -> Step]
    BY <2>1, <1>zero, <1>stage, AtType, GotoShape
  <2> QED BY <1>4, <1>ok, <2>2, <2>3 DEF StartCopy, TypeOK, store, tokens, disk
<1>5. ASSUME NEW w \in Worker, FinishCopy(w) PROVE TypeOK'
  <2>1. files' \in [Path -> File]
    BY <1>5, <1>ok, StepRecords DEF FinishCopy
  <2>2. step' \in [Worker -> Step]
    <3>1. step[w].path \in Path
      BY <1>5, <1>on DEF FinishCopy, OnFile
    <3> QED BY <1>5, <1>zero, <1>stage, <3>1, AtType, GotoShape DEF FinishCopy
  <2> QED BY <1>5, <1>ok, <2>1, <2>2 DEF FinishCopy, TypeOK, store, tokens, disk
<1>6. ASSUME NEW w \in Worker, TokenBackup(w) PROVE TypeOK'
  <2>1. step[w].path \in Path
    BY <1>6, <1>on DEF TokenBackup, OnFile
  <2>2. [path |-> step[w].path, mark |-> Mark(rows)] \in Backup
    BY <1>ok, <2>1, MarkType DEF Backup
  <2>3. backups' \subseteq Backup
    BY <1>6, <1>ok, <2>2 DEF TokenBackup
  <2>4. step' \in [Worker -> Step]
    BY <1>6, StepRecords, GotoShape DEF TokenBackup
  <2> QED BY <1>6, <1>ok, <2>3, <2>4 DEF TokenBackup, TypeOK, store, disk
<1>7. ASSUME NEW w \in Worker, RestoreDrill(w) PROVE TypeOK'
  <2>1. PICK t \in backups :
          /\ Mark(files[t.path].rows) = t.mark
          /\ drills' = drills \cup {[backup |-> t, mark |-> Mark(files[t.path].rows)]}
    BY <1>7 DEF RestoreDrill
  <2>2. t \in Backup /\ t.mark \in Marks
    BY <1>ok DEF Backup
  <2>3. [backup |-> t, mark |-> Mark(files[t.path].rows)] \in Drill
    BY <2>1, <2>2 DEF Drill
  <2>4. drills' \subseteq Drill
    BY <1>ok, <2>1, <2>3
  <2>5. step' \in [Worker -> Step]
    BY <1>7, StepRecords, GotoShape DEF RestoreDrill
  <2> QED BY <1>7, <1>ok, <2>4, <2>5 DEF RestoreDrill, TypeOK, store, disk
<1>8. ASSUME NEW w \in Worker, Report(w) PROVE TypeOK'
  <2>1. Candidates(rows, clock) \in SUBSET RowId
    BY DEF Candidates, Live
  <2> QED BY <1>8, <1>goto, <1>zero, <1>stage, <2>1, AtType DEF Report
<1>9. ASSUME NEW w \in Worker, TokenPreview(w) PROVE TypeOK'
  <2>1. [now |-> step[w].now, mark |-> Mark(rows), seen |-> step[w].seen] \in Preview
    BY <1>ok, <1>at, MarkType DEF Preview
  <2>2. previews' \subseteq Preview
    BY <1>9, <1>ok, <2>1 DEF TokenPreview
  <2>3. step' \in [Worker -> Step]
    BY <1>9, StepRecords, GotoShape DEF TokenPreview
  <2> QED BY <1>9, <1>ok, <2>2, <2>3 DEF TokenPreview, TypeOK, store, disk
<1>10. ASSUME NEW w \in Worker, CheckTokens(w) PROVE TypeOK'
  <2>1. PICK t \in backups, v \in previews : Goto(w, At("checked", t.path, v.now, v.seen))
    BY <1>10 DEF CheckTokens
  <2>2. t \in Backup /\ v \in Preview
    BY <1>ok
  <2>3. At("checked", t.path, v.now, v.seen) \in Step
    BY <2>2, <1>stage, AtType DEF Backup, Preview
  <2> QED BY <1>10, <1>goto, <2>1, <2>3 DEF CheckTokens
<1>11. ASSUME NEW w \in Worker, Recount(w) PROVE TypeOK'
  <2>1. step[w].path \in Path
    BY <1>11, <1>on DEF Recount, OnFile
  <2> QED BY <1>11, <1>goto, <1>at, <1>stage, <2>1, AtType DEF Recount
<1>12. ASSUME NEW w \in Worker, Apply(w) PROVE TypeOK'
  <2>1. rows' \in [RowId -> 0 .. clock]
    BY <1>12, <1>ok DEF Apply, Cleared
  <2>2. step' \in [Worker -> Step]
    BY <1>12, StepRecords, GotoShape DEF Apply
  <2> QED BY <1>12, <1>ok, <2>1, <2>2 DEF Apply, TypeOK, tokens, disk
<1>13. ASSUME NEW w \in Worker, Leave(w) \/ Crash(w) PROVE TypeOK'
  BY <1>13, <1>goto, StepRecords DEF Leave, Crash
<1>14. ASSUME Tick PROVE TypeOK'
  <2>1. clock' \in 1 .. MaxTime /\ written' \in 0 .. clock' /\ rows' \in [RowId -> 0 .. clock']
    BY <1>14, <1>ok DEF Tick
  <2> QED BY <1>14, <1>ok, <2>1 DEF Tick, TypeOK, tokens, disk
<1>15. CASE UNCHANGED vars
  BY <1>15 DEF vars, TypeOK, store, disk, tokens
<1> QED BY <1>1, <1>2, <1>3, <1>4, <1>5, <1>6, <1>7, <1>8, <1>9, <1>10, <1>11, <1>12,
           <1>13, <1>14, <1>15 DEF Next

\* The store, the files, the tokens and the operations keep their types
\* (main.py:7109-7451).
THEOREM GuardTypeCorrect == Spec => []TypeOK
<1>1. Init => TypeOK  BY GuardInitType
<1>2. TypeOK /\ [Next]_vars => TypeOK'  BY GuardStepType
<1> QED BY <1>1, <1>2, PTL DEF Spec
-----------------------------------------------------------------------------
\* A row is written with one of the last Late ticks; everything else only deletes.
LEMMA RowsMove ==
  ASSUME TypeOK, [Next]_vars
  PROVE  /\ clock <= clock'
         /\ \A i \in RowId : rows'[i] \in {rows[i], 0} \/ rows'[i] >= clock - Late
<1>ok. clock \in Nat /\ rows \in [RowId -> Nat]
  BY DEF TypeOK
<1>1. ASSUME Insert \/ Touch \/ Remove
      PROVE  /\ clock <= clock'
             /\ \A i \in RowId : rows'[i] \in {rows[i], 0} \/ rows'[i] >= clock - Late
  <2>1. clock' = clock /\ \A i \in RowId : rows'[i] \in {rows[i], 0} \cup Stamps
    BY <1>1, WriteShape
  <2>2. clock <= clock'
    BY <1>ok, <2>1
  <2>3. \A t \in Stamps : t >= clock - Late
    BY DEF Stamps
  <2>4. \A i \in RowId : rows'[i] \in {rows[i], 0} \/ rows'[i] >= clock - Late
    BY <2>1, <2>3, Zenon
  <2> QED BY <2>2, <2>4
<1>2. ASSUME Tick PROVE clock' = clock + 1 /\ rows' = rows
  BY <1>2 DEF Tick
<1>3. ASSUME NEW w \in Worker, Apply(w)
      PROVE  clock' = clock /\ \A i \in RowId : rows'[i] \in {rows[i], 0}
  BY <1>3 DEF Apply, Cleared
<1>4. ASSUME \/ \E w \in Worker :
                  \/ Request(w) \/ Conflict(w) \/ Begin(w)
                  \/ StartCopy(w) \/ FinishCopy(w) \/ TokenBackup(w) \/ RestoreDrill(w)
                  \/ Report(w) \/ TokenPreview(w) \/ CheckTokens(w) \/ Recount(w)
                  \/ Leave(w) \/ Release(w) \/ Crash(w)
             \/ UNCHANGED vars
      PROVE  clock' = clock /\ rows' = rows
  BY <1>4 DEF Request, Conflict, Begin, StartCopy, FinishCopy, TokenBackup, RestoreDrill,
     Report, TokenPreview, CheckTokens, Recount, Leave, Release, Crash, vars, store
<1> DEFINE Other(w) == \/ Request(w) \/ Conflict(w) \/ Begin(w)
                       \/ StartCopy(w) \/ FinishCopy(w) \/ TokenBackup(w) \/ RestoreDrill(w)
                       \/ Report(w) \/ TokenPreview(w) \/ CheckTokens(w) \/ Recount(w)
                       \/ Leave(w) \/ Release(w) \/ Crash(w)
<1>5. \/ Insert \/ Touch \/ Remove
      \/ Tick
      \/ \E w \in Worker : Apply(w)
      \/ (\E w \in Worker : Other(w)) \/ UNCHANGED vars
  BY DEF Next
<1>6. CASE Tick
  BY <1>ok, <1>2, <1>6
<1>7. CASE \E w \in Worker : Apply(w)
  BY <1>ok, <1>3, <1>7
<1>8. CASE (\E w \in Worker : Other(w)) \/ UNCHANGED vars
  BY <1>ok, <1>4, <1>8
<1> QED BY <1>1, <1>5, <1>6, <1>7, <1>8

\* What has been reported stays reported: no later write is old enough.
LEMMA ReportedStep ==
  ASSUME TypeOK, [Next]_vars,
         NEW now \in Time, NEW seen \in SUBSET RowId, Reported(now, seen)
  PROVE  Reported(now, seen)'
<1>1. /\ clock \in Nat /\ clock' \in Nat /\ now \in Nat /\ Late \in Nat /\ Retention \in Nat
      /\ rows \in [RowId -> Nat] /\ rows' \in [RowId -> Nat]
  BY GuardStepType DEF TypeOK, Time
<1> QED BY <1>1, RowsMove DEF Reported

\* A preview made now reports every row that may be deleted now.
LEMMA ReportedNow ==
  ASSUME TypeOK PROVE Reported(clock, Candidates(rows, clock))
<1>1. clock \in Nat
  BY DEF TypeOK
<1> QED BY <1>1 DEF Reported, Candidates, Live

\* What a preview left out stays too young for the time it was made at.
LEMMA PreviewStep ==
  ASSUME TypeOK, PreviewInv, [Next]_vars PROVE PreviewInv'
<1> DEFINE Asked(w) == step[w].at = "reported" \/ Guarding(w)
<1>type. TypeOK'
  BY GuardStepType
<1>ok. /\ previews \subseteq Preview /\ step \in [Worker -> Step]
       /\ \A w \in Worker : step[w].now \in Time /\ step[w].seen \in SUBSET RowId
       /\ \A v \in previews : v.now \in Time /\ v.seen \in SUBSET RowId
  BY DEF TypeOK, Step, Preview
<1>old. /\ \A v \in previews : Reported(v.now, v.seen)'
        /\ \A w \in Worker : Asked(w) => Reported(step[w].now, step[w].seen)
        /\ \A now \in Time, seen \in SUBSET RowId : Reported(now, seen) => Reported(now, seen)'
  BY <1>ok, ReportedStep DEF PreviewInv
\* The general argument: tokens and operations either keep what they name or
\* take it from another that was reported.
<1>gen. ASSUME \A v \in previews' : v \in previews \/ (v.now \in Time /\ v.seen \in SUBSET RowId /\ Reported(v.now, v.seen)),
               \A w \in Worker : Asked(w)' =>
                  /\ step'[w].now \in Time /\ step'[w].seen \in SUBSET RowId
                  /\ Reported(step'[w].now, step'[w].seen)
        PROVE  PreviewInv'
  <2>1. \A v \in previews' : Reported(v.now, v.seen)'
    BY <1>gen, <1>old
  <2>2. ASSUME NEW w \in Worker, Asked(w)' PROVE Reported(step[w].now, step[w].seen)'
    <3>1. /\ step'[w].now \in Time /\ step'[w].seen \in SUBSET RowId
          /\ Reported(step'[w].now, step'[w].seen)
      BY <1>gen, <2>2
    <3> DEFINE n == step'[w].now
               S == step'[w].seen
    <3>2. Reported(n, S) => /\ n <= clock' 
                            /\ \A i \in RowId : rows'[i] # 0 /\ rows'[i] <= n - Retention => i \in S
      <4>1. n \in Time /\ S \in SUBSET RowId
        BY <3>1
      <4>2. /\ clock \in Nat /\ clock' \in Nat /\ n \in Nat /\ Late \in Nat /\ Retention \in Nat
            /\ rows \in [RowId -> Nat] /\ rows' \in [RowId -> Nat]
        BY <4>1, <1>type DEF TypeOK, Time
      <4> HIDE DEF n, S
      <4> QED BY <4>2, RowsMove DEF Reported
    <3> QED BY <3>1, <3>2 DEF Reported
  <2> QED BY <2>1, <2>2 DEF PreviewInv
<1>keep. ASSUME previews' = previews, NEW w \in Worker, NEW s \in Step, Goto(w, s),
                s.at = "reported" \/ s.at \in {"checked", "guarded"} => Reported(s.now, s.seen)
         PROVE  PreviewInv'
  <2>1. \A v \in Worker : Asked(v)' =>
                  /\ step'[v].now \in Time /\ step'[v].seen \in SUBSET RowId
                  /\ Reported(step'[v].now, step'[v].seen)
    <3> SUFFICES ASSUME NEW v \in Worker, Asked(v)'
                 PROVE  /\ step'[v].now \in Time /\ step'[v].seen \in SUBSET RowId
                        /\ Reported(step'[v].now, step'[v].seen)
      OBVIOUS
    <3>1. CASE v = w
      <4>1. step'[v] = s
        BY <3>1, <1>keep, GotoShape
      <4> QED BY <4>1, <1>keep DEF Guarding, Step
    <3>2. CASE v # w
      <4>1. step'[v] = step[v]
        BY <3>2, <1>keep, GotoShape
      <4> QED BY <4>1, <1>ok, <1>old DEF Guarding
    <3> QED BY <3>1, <3>2
  <2> QED BY <2>1, <1>keep, <1>gen
<1>same. ASSUME previews' = previews, step' = step PROVE PreviewInv'
  <2>1. \A v \in Worker : Asked(v)' => Asked(v)
    BY <1>same DEF Guarding
  <2> QED BY <2>1, <1>same, <1>ok, <1>old, <1>gen
<1>stage. /\ {"begin", "reported"} \subseteq Stage \ OnFile
          /\ {"copying", "copied", "checked", "guarded"} \subseteq Stage \cap OnFile
          /\ NoPath \in Path \cup {NoPath} /\ 0 \in Time /\ {} \in SUBSET RowId /\ clock \in Time
  BY DEF Stage, OnFile, TypeOK, Time
<1>path. \A w \in Worker : step[w].at \in OnFile => step[w].path \in Path
  BY <1>ok DEF Step
<1>1. CASE Insert \/ Touch \/ Remove
  BY <1>1, <1>same, WriteShape DEF tokens
<1>2. CASE Tick \/ UNCHANGED vars
  BY <1>2, <1>same DEF Tick, vars, tokens
<1>3. ASSUME NEW w \in Worker, Request(w) \/ Conflict(w) \/ Release(w) PROVE PreviewInv'
  BY <1>3, <1>same DEF Request, Conflict, Release, tokens
<1>4. ASSUME NEW w \in Worker, Begin(w) PROVE PreviewInv'
  BY <1>4, <1>keep, <1>stage, AtType DEF Begin, tokens
<1>5. ASSUME NEW w \in Worker, StartCopy(w) PROVE PreviewInv'
  <2>1. PICK p \in Path : Goto(w, At("copying", p, 0, {}))
    BY <1>5 DEF StartCopy
  <2> QED BY <1>5, <2>1, <1>keep, <1>stage, AtType DEF StartCopy, tokens
<1>6. ASSUME NEW w \in Worker, FinishCopy(w) PROVE PreviewInv'
  <2>1. step[w].path \in Path
    BY <1>6, <1>path DEF FinishCopy, OnFile
  <2> QED BY <1>6, <2>1, <1>keep, <1>stage, AtType DEF FinishCopy, tokens
<1>7. ASSUME NEW w \in Worker, TokenBackup(w) \/ RestoreDrill(w) \/ Leave(w) \/ Crash(w) \/ Apply(w) PROVE PreviewInv'
  BY <1>7, <1>keep, StepRecords DEF TokenBackup, RestoreDrill, Leave, Crash, Apply, tokens
<1>8. ASSUME NEW w \in Worker, Report(w) PROVE PreviewInv'
  <2>1. Candidates(rows, clock) \in SUBSET RowId
    BY DEF Candidates, Live
  <2> QED BY <1>8, <2>1, <1>keep, <1>stage, AtType, ReportedNow DEF Report, tokens
<1>9. ASSUME NEW w \in Worker, TokenPreview(w) PROVE PreviewInv'
  <2>1. Asked(w)
    BY <1>9 DEF TokenPreview
  <2>2. \A v \in previews' : v \in previews \/ (v.now \in Time /\ v.seen \in SUBSET RowId /\ Reported(v.now, v.seen))
    BY <1>9, <2>1, <1>ok, <1>old DEF TokenPreview
  <2>3. step'[w].at = "end" /\ \A v \in Worker : v # w => step'[v] = step[v]
    BY <1>9, GotoShape, StepRecords DEF TokenPreview
  <2>4. \A v \in Worker : Asked(v)' => v # w /\ Asked(v)
    BY <2>3 DEF Guarding
  <2> QED BY <2>2, <2>3, <2>4, <1>ok, <1>old, <1>gen
<1>10. ASSUME NEW w \in Worker, CheckTokens(w) PROVE PreviewInv'
  <2>1. PICK t \in backups, v \in previews : Goto(w, At("checked", t.path, v.now, v.seen))
    BY <1>10 DEF CheckTokens
  <2>2. t.path \in Path /\ v.now \in Time /\ v.seen \in SUBSET RowId /\ Reported(v.now, v.seen)
    BY <1>ok DEF TypeOK, Backup, PreviewInv
  <2> QED BY <1>10, <2>1, <2>2, <1>keep, <1>stage, AtType DEF CheckTokens, tokens
<1>11. ASSUME NEW w \in Worker, Recount(w) PROVE PreviewInv'
  <2>1. step[w].path \in Path /\ Asked(w)
    BY <1>11, <1>path DEF Recount, OnFile, Guarding
  <2> QED BY <1>11, <2>1, <1>ok, <1>old, <1>keep, <1>stage, AtType DEF Recount, tokens
<1> QED BY <1>1, <1>2, <1>3, <1>4, <1>5, <1>6, <1>7, <1>8, <1>9, <1>10, <1>11 DEF Next
-----------------------------------------------------------------------------
\* Only a copy touches a backup file.
LEMMA StepOnly ==
  ASSUME TypeOK, [Next]_vars, files' # files
  PROVE  \E w \in Worker : StartCopy(w) \/ FinishCopy(w)
BY DEF Next, Insert, Touch, Remove, Write, Request, Conflict, Begin, TokenBackup, RestoreDrill,
     Report, TokenPreview, CheckTokens, Recount, Apply, Leave, Release, Crash, Tick, vars, disk

\* Which stages the operations are in after a step.
LEMMA StagesMove ==
  ASSUME TypeOK, [Next]_vars, NEW v \in Worker, step'[v] # step[v]
  PROVE  \/ StartCopy(v) /\ step'[v].at = "copying"
         \/ CheckTokens(v)
         \/ Recount(v)
         \/ step'[v].at \notin {"copying", "checked", "guarded"}
<1>at. \A a, p, n, S : At(a, p, n, S).at = a
  BY DEF At
<1>w. ASSUME NEW w \in Worker, NEW s, Goto(w, s) PROVE w = v /\ step'[v] = s
  BY <1>w DEF Goto, TypeOK
<1>stage. {"begin", "copying", "copied", "reported"} \subseteq Stage
  BY DEF Stage
<1>1. CASE Insert \/ Touch \/ Remove \/ Tick \/ UNCHANGED vars
  BY <1>1 DEF Insert, Touch, Remove, Write, Tick, vars
<1>2. ASSUME NEW w \in Worker, Request(w) \/ Conflict(w) \/ Release(w) PROVE FALSE
  BY <1>2 DEF Request, Conflict, Release
<1>3. ASSUME NEW w \in Worker, Begin(w) PROVE step'[v].at = "begin"
  BY <1>3, <1>w, <1>at, <1>stage DEF Begin
<1>4. ASSUME NEW w \in Worker, StartCopy(w) PROVE StartCopy(v) /\ step'[v].at = "copying"
  <2>1. PICK p \in Path : Goto(w, At("copying", p, 0, {}))
    BY <1>4 DEF StartCopy
  <2>2. w = v /\ step'[v] = At("copying", p, 0, {})
    BY <2>1, <1>w
  <2> QED BY <1>4, <2>2 DEF At
<1>5. ASSUME NEW w \in Worker, FinishCopy(w) PROVE step'[v].at = "copied"
  <2>1. step'[v] = At("copied", step[w].path, 0, {})
    BY <1>5, <1>w DEF FinishCopy
  <2> QED BY <2>1 DEF At
<1>6. ASSUME NEW w \in Worker,
             TokenBackup(w) \/ RestoreDrill(w) \/ TokenPreview(w) \/ Apply(w) PROVE step'[v].at = "end"
  BY <1>6, <1>w, StepRecords DEF TokenBackup, RestoreDrill, TokenPreview, Apply
<1>7. ASSUME NEW w \in Worker, Leave(w) \/ Crash(w) PROVE step'[v].at = "idle"
  BY <1>7, <1>w, StepRecords DEF Leave, Crash
<1>8. ASSUME NEW w \in Worker, Report(w) PROVE step'[v].at = "reported"
  <2>1. step'[v] = At("reported", NoPath, clock, Candidates(rows, clock))
    BY <1>8, <1>w DEF Report
  <2> QED BY <2>1 DEF At
<1>9. ASSUME NEW w \in Worker, CheckTokens(w) PROVE CheckTokens(v)
  BY <1>9, <1>w DEF CheckTokens
<1>10. ASSUME NEW w \in Worker, Recount(w) PROVE Recount(v)
  BY <1>10, <1>w DEF Recount
<1> QED BY <1>1, <1>2, <1>3, <1>4, <1>5, <1>6, <1>7, <1>8, <1>9, <1>10 DEF Next

\* A complete backup is never written again.
LEMMA FilesMove ==
  ASSUME TypeOK, ~MayReplace, CopyInv, [Next]_vars, NEW p \in Path, files'[p] # files[p]
  PROVE  /\ files[p].state # "whole"
         /\ files'[p] = Partial \/ (files'[p] = Whole(rows) /\ UNCHANGED store)
<1>1. PICK w \in Worker : StartCopy(w) \/ FinishCopy(w)
  BY StepOnly
<1>2. CASE StartCopy(w)
  <2>1. PICK q \in Path : files[q].state = "missing" /\ files' = [files EXCEPT ![q] = Partial]
    BY <1>2 DEF StartCopy
  <2> QED BY <2>1 DEF TypeOK
<1>3. CASE FinishCopy(w)
  <2>1. step[w].at = "copying" /\ files' = [files EXCEPT ![step[w].path] = Whole(rows)] /\ UNCHANGED store
    BY <1>3 DEF FinishCopy
  <2>2. p = step[w].path
    BY <2>1 DEF TypeOK
  <2>3. files[p].state = "partial"
    BY <2>1, <2>2 DEF CopyInv
  <2> QED BY <2>1, <2>2, <2>3 DEF TypeOK
<1> QED BY <1>1, <1>2, <1>3

\* Two backups are never written to the same file, as long as none is replaced.
LEMMA CopyStep == ASSUME TypeOK, ~MayReplace, CopyInv, [Next]_vars PROVE CopyInv'
<1>type. files \in [Path -> File] /\ step \in [Worker -> Step]
  BY DEF TypeOK
<1>path. \A v \in Worker : step[v].at = "copying" => step[v].path \in Path
  BY <1>type DEF Step, OnFile
<1>1. CASE \E w \in Worker : StartCopy(w)
  <2>1. PICK w \in Worker, p \in Path :
          /\ files[p].state = "missing" /\ files' = [files EXCEPT ![p] = Partial]
          /\ Goto(w, At("copying", p, 0, {}))
    BY <1>1 DEF StartCopy
  <2>2. step'[w].at = "copying" /\ step'[w].path = p /\ \A v \in Worker : v # w => step'[v] = step[v]
    BY <2>1, <1>type DEF Goto, At
  <2>3. files'[p].state = "partial" /\ \A q \in Path : q # p => files'[q] = files[q]
    BY <2>1, <1>type, StepRecords
  <2>4. \A v \in Worker : step[v].at = "copying" => step[v].path # p
    BY <2>1 DEF CopyInv
  <2> QED BY <2>2, <2>3, <2>4, <1>path DEF CopyInv
<1>2. CASE \E w \in Worker : FinishCopy(w)
  <2>1. PICK w \in Worker :
          /\ step[w].at = "copying" /\ files' = [files EXCEPT ![step[w].path] = Whole(rows)]
          /\ Goto(w, At("copied", step[w].path, 0, {}))
    BY <1>2 DEF FinishCopy
  <2>2. step'[w].at = "copied" /\ \A v \in Worker : v # w => step'[v] = step[v]
    BY <2>1, <1>type DEF Goto, At
  <2>3. \A v \in Worker : step'[v].at = "copying" => v # w /\ step[v].at = "copying" /\ step'[v] = step[v]
    BY <2>2
  <2>4. \A v \in Worker : step'[v].at = "copying" => files'[step[v].path] = files[step[v].path]
    BY <2>1, <2>3, <1>type, <1>path DEF CopyInv
  <2> QED BY <2>3, <2>4 DEF CopyInv
<1>3. CASE ~ \E w \in Worker : StartCopy(w) \/ FinishCopy(w)
  <2>1. files' = files
    BY <1>3, StepOnly
  <2>2. \A v \in Worker : step'[v].at = "copying" => step'[v] = step[v]
    <3> SUFFICES ASSUME NEW v \in Worker, step'[v].at = "copying", step'[v] # step[v] PROVE FALSE
      OBVIOUS
    <3>1. CheckTokens(v) \/ Recount(v)
      BY <1>3, StagesMove
    <3>2. CASE CheckTokens(v)
      BY <3>2, <1>type DEF CheckTokens, Goto, At
    <3>3. CASE Recount(v)
      BY <3>3, <1>type DEF Recount, Goto, At
    <3> QED BY <3>1, <3>2, <3>3
  <2> QED BY <2>1, <2>2 DEF CopyInv
<1> QED BY <1>1, <1>2, <1>3

\* A row that is written beside a complete backup is newer than all of it or falls
\* behind; the rows behind change by such writes only.
LEMMA BehindMoves ==
  ASSUME TypeOK, ~MayReplace, CopyInv, [Next]_vars, NEW p \in Path, files[p].state = "whole"
  PROVE  /\ files'[p] = files[p]
         /\ \A i \in RowId : \/ rows'[i] = rows[i] /\ (i \in behind'[p] <=> i \in behind[p])
                             \/ rows'[i] = 0
                             \/ /\ rows'[i] >= clock - Late
                                /\ i \in behind'[p] \/ \A j \in RowId : rows'[i] > files[p].rows[j]
<1>file. files'[p] = files[p]
  BY FilesMove
<1>type. /\ rows \in [RowId -> Nat] /\ rows' \in [RowId -> Nat] /\ files[p].rows \in [RowId -> Nat]
         /\ behind \in [Path -> SUBSET RowId]
  BY GuardStepType DEF TypeOK, File, Rows, Time
<1>1. CASE Insert \/ Touch \/ Remove
  <2>1. \A t \in Nat : ~Overtaken(p, t) => \A j \in RowId : t > files[p].rows[j]
    BY <1>type DEF Overtaken
  <2>2. \A t \in Stamps : t >= clock - Late
    BY DEF Stamps
  <2> QED BY <1>file, <1>type, <1>1, <2>1, <2>2, WriteShape
<1>2. ASSUME NEW w \in Worker, StartCopy(w) \/ FinishCopy(w)
      PROVE  rows' = rows /\ behind'[p] = behind[p]
  <2>1. CASE StartCopy(w)
    <3>1. PICK q \in Path : /\ files[q].state = "missing"
                            /\ behind' = [behind EXCEPT ![q] = {}] /\ UNCHANGED store
      BY <2>1 DEF StartCopy
    <3> QED BY <3>1, <1>type DEF store
  <2>2. CASE FinishCopy(w)
    <3>1. /\ step[w].at = "copying" /\ behind' = [behind EXCEPT ![step[w].path] = {}]
          /\ UNCHANGED store
      BY <2>2 DEF FinishCopy
    <3>2. step[w].path # p
      BY <3>1 DEF CopyInv
    <3> QED BY <3>1, <3>2, <1>type DEF store
  <2> QED BY <1>2, <2>1, <2>2
<1>3. ASSUME NEW w \in Worker, Apply(w)
      PROVE  behind' = behind /\ \A i \in RowId : rows'[i] \in {rows[i], 0}
  BY <1>3 DEF Apply, Cleared, disk
<1>4. CASE /\ ~ (Insert \/ Touch \/ Remove)
           /\ ~ (\E w \in Worker : StartCopy(w) \/ FinishCopy(w) \/ Apply(w))
  <2>1. ASSUME NEW w \in Worker,
               \/ Request(w) \/ Conflict(w) \/ Begin(w) \/ TokenBackup(w) \/ RestoreDrill(w)
               \/ Report(w) \/ TokenPreview(w) \/ CheckTokens(w) \/ Recount(w)
               \/ Leave(w) \/ Release(w) \/ Crash(w)
        PROVE  rows' = rows /\ behind' = behind
    BY <2>1 DEF Request, Conflict, Begin, TokenBackup, RestoreDrill, Report, TokenPreview,
       CheckTokens, Recount, Leave, Release, Crash, store, disk
  <2>2. CASE Tick \/ UNCHANGED vars
    BY <1>file, <2>2 DEF Tick, vars, store, disk
  <2>3. rows' = rows /\ behind' = behind
    BY <1>4, <2>1, <2>2 DEF Next, Tick, vars, store, disk
  <2> QED BY <1>file, <2>3
<1> QED BY <1>file, <1>1, <1>2, <1>3, <1>4

\* The store goes on drifting from its backups by rows newer than all of theirs,
\* and by those behind.
LEMMA FileStep ==
  ASSUME TypeOK, ~MayReplace, CopyInv, FileInv, [Next]_vars PROVE FileInv'
<1> SUFFICES ASSUME NEW p \in Path, files'[p].state = "whole"
             PROVE  \A i \in RowId : rows'[i] # 0 =>
                      \/ rows'[i] = files'[p].rows[i] \/ i \in behind'[p]
                      \/ \A j \in RowId : rows'[i] > files'[p].rows[j]
  BY DEF FileInv, Drifted
<1>1. CASE files[p].state = "whole"
  <2>1. \A i \in RowId : rows[i] # 0 =>
          \/ rows[i] = files[p].rows[i] \/ i \in behind[p] \/ \A j \in RowId : rows[i] > files[p].rows[j]
    BY <1>1 DEF FileInv, Drifted
  <2> QED BY <1>1, <2>1, BehindMoves
<1>2. CASE files[p].state # "whole"
  <2>1. files'[p] = Whole(rows) /\ UNCHANGED store
    BY <1>2, FilesMove, StepRecords
  <2>2. files'[p].rows = rows /\ rows' = rows
    BY <2>1, RowsOfTime, StepRecords DEF store
  <2> QED BY <2>2
<1> QED BY <1>1, <1>2

\* The file a restore drill passed on stays what the drill saw.
LEMMA DrillStep ==
  ASSUME TypeOK, ~MayReplace, CopyInv, DrillInv, [Next]_vars PROVE DrillInv'
<1> SUFFICES ASSUME NEW d \in drills'
             PROVE  /\ files'[d.backup.path].state = "whole"
                    /\ Mark(files'[d.backup.path].rows) = d.mark
  BY DEF DrillInv, Mark, Live, RowIds, Latest
<1>type. drills \subseteq Drill /\ backups \subseteq Backup
  BY DEF TypeOK
<1>1. CASE d \in drills
  <2>1. d.backup.path \in Path
    BY <1>1, <1>type DEF Drill, Backup
  <2>2. files'[d.backup.path] = files[d.backup.path]
    BY <1>1, <2>1, FilesMove DEF DrillInv
  <2> QED BY <1>1, <2>2 DEF DrillInv
<1>2. CASE d \notin drills
  <2>1. PICK w \in Worker : RestoreDrill(w)
    BY <1>2 DEF Next, Insert, Touch, Remove, Write, Request, Conflict, Begin, StartCopy, FinishCopy,
       TokenBackup, Report, TokenPreview, CheckTokens, Recount, Apply, Leave, Release, Crash,
       Tick, vars, tokens
  <2>2. PICK t \in backups :
          /\ files[t.path].state = "whole"
          /\ d = [backup |-> t, mark |-> Mark(files[t.path].rows)]
    BY <1>2, <2>1 DEF RestoreDrill
  <2>3. files' = files
    BY <2>1 DEF RestoreDrill, disk
  <2> QED BY <2>2, <2>3
<1> QED BY <1>1, <1>2

\* A row to delete stays as it is in the backup, or falls behind, or goes.
LEMMA BackedUpStep ==
  ASSUME TypeOK, ~MayReplace, CopyInv, [Next]_vars,
         NEW p \in Path, NEW now \in Time, now <= clock, BackedUp(p, now)
  PROVE  /\ files'[p].state = "whole"
         /\ \A i \in RowId \ behind'[p] :
              rows'[i] # 0 /\ rows'[i] <= now - Retention => files'[p].rows[i] = rows'[i]
<1>1. files'[p] = files[p] /\ files[p].state = "whole"
  BY BehindMoves DEF BackedUp
<1>2. /\ now \in Nat /\ clock \in Nat /\ Late \in Nat /\ Retention \in Nat
      /\ rows \in [RowId -> Nat] /\ rows' \in [RowId -> Nat] /\ files[p].rows \in [RowId -> Nat]
  BY GuardStepType DEF Time, TypeOK, File, Rows
<1>3. \A i \in RowId \ behind'[p] :
        rows'[i] # 0 /\ rows'[i] <= now - Retention => rows'[i] = rows[i] /\ i \notin behind[p]
  BY <1>1, <1>2, BehindMoves
<1> QED BY <1>1, <1>3 DEF BackedUp

\* From the comparison of marks to the delete the rows to delete are in the backup.
LEMMA ApplyStep ==
  ASSUME TypeOK, ~MayReplace, CopyInv, PreviewInv, FileInv, DrillInv, ApplyInv,
         [Next]_vars
  PROVE  ApplyInv'
<1> SUFFICES ASSUME NEW w \in Worker, Guarding(w)'
             PROVE  /\ files'[step'[w].path].state = "whole"
                    /\ \A i \in RowId \ behind'[step'[w].path] :
                         rows'[i] # 0 /\ rows'[i] <= step'[w].now - Retention
                         => files'[step'[w].path].rows[i] = rows'[i]
  BY DEF ApplyInv, BackedUp
<1>type. step \in [Worker -> Step] /\ step' \in [Worker -> Step] /\ files \in [Path -> File] /\ rows \in Rows
  BY GuardStepType, RowsOfTime DEF TypeOK
\* An operation in its guard names a file, a time that has come, and is covered.
<1>old. ASSUME Guarding(w)
        PROVE  step[w].path \in Path /\ step[w].now \in Time /\ step[w].now <= clock
               /\ BackedUp(step[w].path, step[w].now)
  BY <1>old, <1>type DEF Guarding, Step, OnFile, PreviewInv, Reported, ApplyInv
<1>1. CASE step'[w] = step[w]
  BY <1>1, <1>old, BackedUpStep DEF Guarding
<1>2. CASE step'[w] # step[w] /\ Recount(w)
  <2>1. Guarding(w) /\ step'[w].path = step[w].path /\ step'[w].now = step[w].now
    BY <1>2, <1>type DEF Recount, Guarding, Goto, At
  <2> QED BY <2>1, <1>old, BackedUpStep
<1>3. CASE step'[w] # step[w] /\ CheckTokens(w)
  <2>1. PICK t \in backups, d \in drills, v \in previews :
          TokensAgree(t, d, v) /\ Goto(w, At("checked", t.path, v.now, v.seen))
    BY <1>3 DEF CheckTokens
  <2>2. t.path \in Path /\ v.now \in Time /\ v.now <= clock
    BY DEF TypeOK, Backup, Preview, PreviewInv, Reported
  <2>3. files[t.path].state = "whole" /\ Mark(files[t.path].rows) = Mark(rows)
    BY <2>1 DEF TokensAgree, DrillInv
  <2>4. files[t.path].rows \in Rows /\ Drifted(rows, files[t.path].rows, behind[t.path])
    BY <2>2, <2>3, <1>type DEF File, FileInv
  <2>5. \A i \in RowId \ behind[t.path] : rows[i] # 0 => files[t.path].rows[i] = rows[i]
    BY <2>3, <2>4, <1>type, MarkIdentifies
  <2>6. BackedUp(t.path, v.now)
    BY <2>3, <2>5 DEF BackedUp
  <2>7. step'[w].path = t.path /\ step'[w].now = v.now
    BY <2>1, <1>type DEF Goto, At
  <2> QED BY <2>2, <2>6, <2>7, BackedUpStep
<1>4. CASE step'[w] # step[w] /\ step'[w].at \notin {"copying", "checked", "guarded"}
  BY <1>4 DEF Guarding
<1>5. CASE step'[w].at = "copying"
  BY <1>5 DEF Guarding
<1> QED BY <1>1, <1>2, <1>3, <1>4, <1>5, StagesMove

-----------------------------------------------------------------------------
\* The step that takes an operation from "guarded" to "end" is its delete, and
\* it deletes what the preview_now of the operation makes old.
LEMMA DeletesCandidates ==
  ASSUME TypeOK, [Next]_vars, NEW w \in Worker, NEW i \in RowId, Deletes(w, i)
  PROVE  rows[i] <= step[w].now - Retention
<1>1. rows' # rows /\ step' # step
  BY DEF Deletes
<1>2. PICK v \in Worker : Apply(v)
  BY <1>1 DEF Next, Insert, Touch, Remove, Write, Request, Conflict, Begin, StartCopy, FinishCopy,
     TokenBackup, RestoreDrill, Report, TokenPreview, CheckTokens, Recount, Leave, Release, Crash,
     Tick, vars, store
<1>3. v = w
  BY <1>2 DEF Apply, Goto, Deletes, TypeOK
<1> QED BY <1>2, <1>3 DEF Apply, Cleared, Deletes, Candidates

\* When no backup file is replaced, a row that retention deletes is in the backup
\* its tokens name, in the version it deletes, unless it was committed after the
\* copy under a stamp no newer than all of it; nothing is asked of the locks
\* (main.py:5226-5333, 7335-7451).
THEOREM RetentionKeepsBackedUp ==
  ASSUME ~MayReplace
  PROVE  Spec => DeletedRowsAreBackedUp
<1> DEFINE Inv == CopyInv /\ PreviewInv /\ FileInv /\ DrillInv /\ ApplyInv
           Safe == \A w \in Worker, i \in RowId :
                     Deletes(w, i) /\ i \notin behind[step[w].path]
                     => /\ files[step[w].path].state = "whole"
                        /\ files[step[w].path].rows[i] = rows[i]
<1>1. Init => Inv
  <2> SUFFICES ASSUME Init PROVE Inv
    OBVIOUS
  <2>1. /\ written = 0 /\ clock = 1 /\ backups = {} /\ drills = {} /\ previews = {}
        /\ \A i \in RowId : rows[i] = 0
        /\ \A p \in Path : files[p].state = "missing"
        /\ \A w \in Worker : step[w].at = "idle"
    BY StepRecords DEF Init, NoRows
  <2> QED BY <2>1 DEF CopyInv, PreviewInv, FileInv, DrillInv, ApplyInv, Guarding
<1>2. TypeOK /\ Inv /\ [Next]_vars => Inv'
  BY CopyStep, PreviewStep, FileStep, DrillStep, ApplyStep
<1>3. TypeOK /\ Inv /\ [Next]_vars => Safe
  <2> SUFFICES ASSUME TypeOK, Inv, [Next]_vars, NEW w \in Worker, NEW i \in RowId, Deletes(w, i),
                      i \notin behind[step[w].path]
               PROVE  /\ files[step[w].path].state = "whole"
                      /\ files[step[w].path].rows[i] = rows[i]
    OBVIOUS
  <2>1. BackedUp(step[w].path, step[w].now)
    BY DEF Deletes, ApplyInv, Guarding
  <2>2. rows[i] <= step[w].now - Retention
    BY DeletesCandidates
  <2> QED BY <2>1, <2>2 DEF BackedUp, Deletes
<1>4. Safe => [Safe]_vars
  OBVIOUS
<1> QED BY <1>1, <1>2, <1>3, <1>4, GuardTypeCorrect, PTL DEF Spec, DeletedRowsAreBackedUp

\* Retention deletes only what its preview reported, however late the writes are
\* committed and also where backups are replaced (main.py:5305-5333).
THEOREM RetentionKeepsPreviewed == Spec => DeletedRowsWerePreviewed
<1> DEFINE Inv == PreviewInv
           Safe == \A w \in Worker, i \in RowId : Deletes(w, i) => i \in step[w].seen
<1>1. Init => Inv
  BY StepRecords DEF Init, PreviewInv, Guarding
<1>2. TypeOK /\ Inv /\ [Next]_vars => Inv'
  BY PreviewStep
<1>3. TypeOK /\ Inv /\ [Next]_vars => Safe
  <2> SUFFICES ASSUME TypeOK, Inv, [Next]_vars, NEW w \in Worker, NEW i \in RowId, Deletes(w, i)
               PROVE  i \in step[w].seen
    OBVIOUS
  <2>1. Reported(step[w].now, step[w].seen)
    BY DEF Deletes, PreviewInv, Guarding
  <2>2. rows[i] # 0 /\ rows[i] <= step[w].now - Retention
    BY DeletesCandidates DEF Deletes
  <2> QED BY <2>1, <2>2 DEF Reported
<1>4. Safe => [Safe]_vars
  OBVIOUS
<1> QED BY <1>1, <1>2, <1>3, <1>4, GuardTypeCorrect, PTL DEF Spec, DeletedRowsWerePreviewed
=============================================================================
