-------------------------- MODULE AuditExport_proofs --------------------------
(***************************************************************************)
(* Proofs about AuditExport for every set of workers, options and rows,    *)
(* and every delay between a stamp and its commit.  The locks play no part *)
(* in them: batches may overlap.  Every step only adds rows, and a row it  *)
(* adds is either stamped late or stands behind all the others (Grows), so *)
(* what has been said of the rows up to a cursor stays true (LedgerInv),   *)
(* and so does what a batch has read (BatchInv).                           *)
(***************************************************************************)
EXTENDS AuditExport, FiniteSetTheorems, TLAPS

USE ExportAssumption

\* Everything up to the cursor of s is in a file with a manifest.
UpTo(s, k, c)  == k = c \/ Behind(s, k, c)
Covers(c, s)   == \A k \in RowId(s) : c # 0 /\ InOrder(s, k) /\ UpTo(s, k, c)
                                        => <<s, k>> \in delivered

\* The rows that a batch that began at b must have found, unless others had.
Old(s, k, b) == Stamped(s, k) /\ InOrder(s, k) /\ table[s][k] < b - Late

\* Of the sources a batch has read, no row is missing in front of a row it got.
Reached(s, k, G) == InOrder(s, k) /\ \E j \in RowId(s) : <<s, j>> \in G /\ UpTo(s, k, j)
HasRead(p, s) ==
  \A k \in RowId(s) : Reached(s, k, p.got) \/ Old(s, k, p.began) => <<s, k>> \in p.got \cup delivered

BatchInv(p) ==
  /\ p.at = "reading" => \A s \in p.opt.sources : Covers(p.from[s], s)
  /\ p.at \in {"reading", "listed"} /\ ~Windowed(p.opt) =>
       \A s \in p.opt.sources \ p.todo : HasRead(p, s)
  /\ p.at = "listed" => p.todo = {} /\ (Partial(p.opt, p.got) \/ p.got \subseteq delivered)

EntryInv(e, b) ==
  e.status = "completed" /\ ~Windowed(e.opt) =>
    \A s \in e.opt.sources :
      /\ Covers(e.cursors[s], s)
      /\ ~e.partial => \A k \in RowId(s) : Old(s, k, b) => <<s, k>> \in delivered

LedgerInv == \A i \in DOMAIN ledger : \A e \in {ledger[i]}, b \in {table[Ops][i]} : EntryInv(e, b)
WorkInv   == \A w \in Worker : \A p \in {step[w]} : BatchInv(p)
ExportInv == LedgerInv /\ WorkInv

-----------------------------------------------------------------------------
\* What every step does to the rows: it adds rows, and a row it adds to s is
\* stamped at least clock - Late unless it is one of a batch.
Grows ==
  /\ clock <= clock' /\ clock' \in 1 .. MaxTime
  /\ table' \in [Source -> Seq(0 .. clock')]
  /\ delivered \subseteq delivered'
  /\ \A s \in Source : \A k \in RowId(s) : k \in RowId(s)' /\ table'[s][k] = table[s][k]
  /\ \A s \in Source : \A k \in RowId(s)' \ RowId(s) : \A j \in RowId(s) : j < k
  /\ \A i \in DOMAIN ledger : i \in DOMAIN ledger' /\ ledger'[i] = ledger[i]
  /\ Len(ledger') = Len(table'[Ops])
  /\ \A s \in Source : \A k \in RowId(s)' \ RowId(s) :
       Stamped(s, k)' => table'[s][k] >= clock - Late

-----------------------------------------------------------------------------
\* Appending a row to a source, and an entry to the ledger with an operation row.
LEMMA InsertGrows ==
  ASSUME TypeOK, NEW s \in Source, NEW t \in 0 .. clock, Insert(s, t), clock' = clock,
         delivered' = delivered,
         \/ s # Ops /\ ledger' = ledger /\ t >= clock - Late
         \/ s = Ops /\ (\E e \in Entry : /\ ledger' = Append(ledger, e)
                                         /\ e.status = "other" => t >= clock - Late)
  PROVE  Grows
<1> USE DEF TypeOK
<1>1. /\ table \in [Source -> Seq(0 .. clock)] /\ clock \in 1 .. MaxTime
      /\ ledger \in Seq(Entry) /\ Ops \in Source
  BY DEF Source, Ops
<1>2. table' = [table EXCEPT ![s] = Append(table[s], t)]
  BY DEF Insert
<1>3. table'[s] = Append(table[s], t) /\ \A r \in Source : r # s => table'[r] = table[r]
  BY <1>1, <1>2
<1>4. table' \in [Source -> Seq(0 .. clock')]
  BY <1>1, <1>2
<1>5. /\ DOMAIN table[s] = 1 .. Len(table[s]) /\ Len(table[s]) \in Nat
      /\ DOMAIN table'[s] = 1 .. Len(table[s]) + 1
      /\ table'[s][Len(table[s]) + 1] = t
      /\ \A k \in 1 .. Len(table[s]) : table'[s][k] = table[s][k]
  BY <1>1, <1>3
<1>rows. \A r \in Source : RowId(r) = DOMAIN table[r] /\ RowId(r)' = DOMAIN table'[r]
  BY DEF RowId
<1>6. ASSUME NEW r \in Source, NEW k \in RowId(r)
      PROVE  k \in RowId(r)' /\ table'[r][k] = table[r][k]
  <2>1. CASE r = s
    BY <1>5, <1>rows, <2>1
  <2>2. CASE r # s
    BY <1>3, <1>rows, <2>2
  <2> QED BY <2>1, <2>2
<1>7. ASSUME NEW r \in Source, NEW k \in RowId(r)' \ RowId(r)
      PROVE  r = s /\ k = Len(table[s]) + 1
  <2>1. CASE r = s
    BY <1>5, <1>rows, <2>1
  <2>2. CASE r # s
    BY <1>3, <1>rows, <2>2
  <2> QED BY <2>1, <2>2
<1>8. \A r \in Source : \A k \in RowId(r)' \ RowId(r) : \A j \in RowId(r) : j < k
  <2>1. \A j \in RowId(s) : j < Len(table[s]) + 1
    BY <1>5, <1>rows
  <2> QED BY <1>7, <2>1
<1>9. ledger' = ledger \/ (s = Ops /\ \E e \in Entry : ledger' = Append(ledger, e))
  OBVIOUS
<1>10. \A i \in DOMAIN ledger : i \in DOMAIN ledger' /\ ledger'[i] = ledger[i]
  <2>1. ASSUME NEW e \in Entry, ledger' = Append(ledger, e), NEW i \in DOMAIN ledger
        PROVE  i \in DOMAIN ledger' /\ ledger'[i] = ledger[i]
    BY <1>1, <2>1
  <2> QED BY <1>9, <2>1
<1>11. Len(ledger') = Len(table'[Ops])
  <2>1. CASE s # Ops
    BY <1>1, <1>3, <2>1
  <2>2. CASE s = Ops
    BY <1>1, <1>3, <2>2
  <2> QED BY <2>1, <2>2
<1>12. \A r \in Source : \A k \in RowId(r)' \ RowId(r) :
         Stamped(r, k)' => table'[r][k] >= clock - Late
  <2> SUFFICES ASSUME NEW k \in RowId(s)' \ RowId(s), k = Len(table[s]) + 1
               PROVE  Stamped(s, k)' => t >= clock - Late
    BY <1>5, <1>7
  <2>1. CASE s # Ops
    BY <2>1
  <2>2. ASSUME s = Ops, NEW e \in Entry, ledger' = Append(ledger, e),
               e.status = "other" => t >= clock - Late
        PROVE  Stamped(s, k)' => t >= clock - Late
    <3>1. k = Len(ledger) + 1
      BY <2>2
    <3>2. ledger'[k] = e
      BY <1>1, <2>2, <3>1
    <3> QED BY <2>2, <3>2 DEF Stamped
  <2> QED BY <2>1, <2>2
<1> QED BY <1>1, <1>4, <1>6, <1>8, <1>10, <1>11, <1>12 DEF Grows

\* Rows that were there keep their order, and a new one that was not overtaken
\* stands behind them.
LEMMA GrowsOrder ==
  ASSUME TypeOK, Grows, NEW s \in Source
  PROVE  /\ \A k \in RowId(s) : InOrder(s, k)' <=> InOrder(s, k)
         /\ \A k, c \in RowId(s) : UpTo(s, k, c)' <=> UpTo(s, k, c)
         /\ \A k \in RowId(s)' \ RowId(s), c \in RowId(s) : ~(InOrder(s, k)' /\ UpTo(s, k, c)')
<1>1. /\ table[s] \in Seq(0 .. clock) /\ table'[s] \in Seq(0 .. clock')
      /\ RowId(s) = 1 .. Len(table[s]) /\ Len(table[s]) \in Nat
      /\ RowId(s)' = 1 .. Len(table'[s]) /\ Len(table'[s]) \in Nat
      /\ \A k \in RowId(s) : k \in RowId(s)' /\ table'[s][k] = table[s][k]
  BY DEF TypeOK, Grows, RowId
<1>2. ASSUME NEW k \in RowId(s) PROVE InOrder(s, k)' <=> InOrder(s, k)
  <2>1. k \in Nat /\ \A i \in 1 .. k : i \in RowId(s) /\ table'[s][i] = table[s][i]
    BY <1>1
  <2> QED BY <1>1, <2>1 DEF InOrder
<1>3. \A k, c \in RowId(s) : UpTo(s, k, c)' <=> UpTo(s, k, c)
  BY <1>1 DEF UpTo, Behind
<1>4. ASSUME NEW k \in RowId(s)' \ RowId(s), NEW c \in RowId(s), InOrder(s, k)'
      PROVE  ~UpTo(s, k, c)'
  <2>1. c < k
    BY DEF Grows
  <2>2. c \in 1 .. k /\ k \in Nat /\ c \in Nat
    BY <1>1, <2>1
  <2>3. table'[s][c] <= table'[s][k] /\ table'[s][c] \in Nat /\ table'[s][k] \in Nat
    <3>1. c \in RowId(s)' /\ k \in RowId(s)'
      BY <1>1
    <3>2. table'[s][c] \in 0 .. clock' /\ table'[s][k] \in 0 .. clock' /\ clock' \in Nat
      BY <1>1, <3>1 DEF Grows
    <3> QED BY <1>4, <2>2, <3>2, SMTT(30) DEF InOrder
  <2> QED BY <2>1, <2>2, <2>3 DEF UpTo, Behind
<1> QED BY <1>2, <1>3, <1>4

\* What is covered stays covered, and what has been read stays read.
LEMMA GrowsCovers ==
  ASSUME TypeOK, Grows, NEW s \in Source, NEW c \in Nat, c = 0 \/ c \in RowId(s), Covers(c, s)
  PROVE  Covers(c, s)'
<1> SUFFICES ASSUME NEW k \in RowId(s)', c # 0, InOrder(s, k)', UpTo(s, k, c)'
             PROVE  <<s, k>> \in delivered
  BY DEF Covers, Grows
<1>1. k \in RowId(s) /\ InOrder(s, k) /\ UpTo(s, k, c)
  BY GrowsOrder
<1> QED BY <1>1 DEF Covers

\* A row that a batch must find was there when it was last said so.
LEMMA GrowsOld ==
  ASSUME TypeOK, Grows, NEW s \in Source, NEW k \in RowId(s)', NEW b \in Nat, b <= clock,
         Old(s, k, b)'
  PROVE  k \in RowId(s) /\ Old(s, k, b)
<1>1. /\ table' \in [Source -> Seq(0 .. clock')] /\ RowId(s)' = DOMAIN table'[s]
      /\ clock \in Nat /\ clock' \in Nat /\ Late \in Nat
  BY DEF Grows, TypeOK, RowId
<1>2. table'[s][k] \in 0 .. clock' /\ table'[s][k] \in Nat
  BY <1>1
<1>3. k \in RowId(s)
  BY <1>1, <1>2 DEF Grows, Old
<1>4. table'[s][k] = table[s][k]
  BY <1>3 DEF Grows
<1>5. s = Ops => k \in DOMAIN ledger
  BY <1>3 DEF TypeOK, RowId
<1>6. Stamped(s, k)
  BY <1>5 DEF Old, Stamped, Grows
<1> QED BY <1>3, <1>4, <1>6, GrowsOrder DEF Old

\* A source that has been read misses nothing, whatever is added to it.
LEMMA GrowsHasRead ==
  ASSUME TypeOK, Grows, NEW s \in Source, NEW p \in Step, HasRead(p, s)
  PROVE  HasRead(p, s)'
<1> SUFFICES ASSUME NEW k \in RowId(s)', Reached(s, k, p.got)' \/ Old(s, k, p.began)'
             PROVE  <<s, k>> \in p.got \cup delivered
  BY DEF HasRead, Grows
<1>1. p.got \subseteq Row /\ p.began \in Nat /\ p.began <= clock
  BY DEF Step, TypeOK
<1>2. \A j : <<s, j>> \in p.got => j \in RowId(s)
  BY <1>1 DEF Row
<1>3. CASE Old(s, k, p.began)'
  BY <1>1, <1>3, GrowsOld DEF HasRead
<1>4. CASE Reached(s, k, p.got)'
  <2>1. PICK j \in RowId(s) : <<s, j>> \in p.got /\ UpTo(s, k, j)' /\ InOrder(s, k)'
    BY <1>2, <1>4 DEF Reached
  <2>2. k \in RowId(s) /\ InOrder(s, k) /\ UpTo(s, k, j)
    BY <2>1, GrowsOrder
  <2> QED BY <2>1, <2>2 DEF HasRead, Reached
<1> QED BY <1>3, <1>4

-----------------------------------------------------------------------------
\* The types of ledger rows and batches only widen as rows are added.
LEMMA GrowsTypes ==
  ASSUME TypeOK, Grows
  PROVE  Row \subseteq Row' /\ Entry \subseteq Entry' /\ Step \subseteq Step'
<1>1. Row \subseteq Row'
  BY DEF Grows, Row
<1>2. Cursors \subseteq Cursors'
  BY DEF Grows, Cursors
<1>3. Entry \subseteq Entry'
  BY <1>2 DEF Entry
<1>4. 0 .. clock \subseteq 0 .. clock'
  BY DEF Grows, TypeOK
<1>5. Step \subseteq Step'
  BY <1>1, <1>2, <1>4 DEF Step
<1> QED BY <1>1, <1>3, <1>5

\* So a step keeps the types when what it writes has the old ones.
LEMMA TypeKept ==
  ASSUME TypeOK, Grows, delivered' \subseteq Row, ledger' \in Seq(Entry),
         step' \in [Worker -> Step]
  PROVE  TypeOK'
<1>1. ledger' \in Seq(Entry')
  BY GrowsTypes
<1>2. step' \in [Worker -> Step']
  BY GrowsTypes
<1>3. delivered' \subseteq Row'
  BY GrowsTypes
<1> QED BY <1>1, <1>2, <1>3 DEF TypeOK, Grows

\* The cursors of a batch are rows of their sources, or none.
LEMMA HighWaterType ==
  ASSUME TypeOK, NEW o, NEW G
  PROVE  HighWater(o, G) \in Cursors
<1>1. ASSUME NEW s \in Source
      PROVE  HighWater(o, G)[s] = 0 \/ HighWater(o, G)[s] \in Top(s, SourceRows(o, G))
  BY <1>1 DEF HighWater
<1>2. ASSUME NEW s \in Source PROVE RowId(s) \subseteq Nat
  BY <1>2 DEF TypeOK, RowId
<1>3. \A s \in Source : HighWater(o, G)[s] = 0 \/ HighWater(o, G)[s] \in RowId(s)
  BY <1>1 DEF Top
<1>4. HighWater(o, G) = [s \in Source |-> HighWater(o, G)[s]]
  BY DEF HighWater
<1> QED BY <1>2, <1>3, <1>4 DEF Cursors

\* A cursor of a batch is the row of the source that it put in the file.
LEMMA HighWaterIsTop ==
  ASSUME NEW o, NEW G, NEW s \in Source, HighWater(o, G)[s] # 0
  PROVE  ~Partial(o, G) /\ <<s, HighWater(o, G)[s]>> \in SourceRows(o, G)
<1>1. ~Partial(o, G) /\ HighWater(o, G)[s] \in Top(s, SourceRows(o, G))
  BY DEF HighWater
<1> QED BY <1>1 DEF Top

\* The cursors a batch starts from are none, or those of a completed batch of the
\* same sources without a window.
LEMMA InForceIsUsable ==
  ASSUME NEW o
  PROVE  \/ InForce(o) = NoCursors
         \/ \E i \in DOMAIN ledger :
              /\ ledger[i].status = "completed" /\ ~Windowed(ledger[i].opt)
              /\ ledger[i].opt.sources = o.sources /\ InForce(o) = ledger[i].cursors
<1>1. CASE ~Incremental(o) \/ Latest(o) = {}
  BY <1>1 DEF InForce
<1>2. CASE ~(~Incremental(o) \/ Latest(o) = {})
  <2>1. PICK i : i \in Latest(o) /\ InForce(o) = ledger[i].cursors
    BY <1>2 DEF InForce
  <2>2. i \in DOMAIN ledger /\ ledger[i].status = "completed" /\ Compatible(ledger[i].opt, o)
    BY <2>1 DEF Latest, Usable, Recent, Completed
  <2> QED BY <2>1, <2>2 DEF Compatible
<1> QED BY <1>1, <1>2

\* And they have the type of cursors.
LEMMA InForceType ==
  ASSUME TypeOK, NEW o
  PROVE  InForce(o) \in Cursors
<1>1. NoCursors \in Cursors
  BY DEF NoCursors, Cursors
<1>2. \A i \in DOMAIN ledger : ledger[i].cursors \in Cursors
  <2>1. \A i \in DOMAIN ledger : ledger[i] \in Entry
    BY DEF TypeOK
  <2> QED BY <2>1 DEF Entry
<1> QED BY <1>1, <1>2, InForceIsUsable

-----------------------------------------------------------------------------
\* A step that leaves the tables alone.
LEMMA SameGrows ==
  ASSUME TypeOK, table' = table, ledger' = ledger, clock' \in 1 .. MaxTime, clock <= clock',
         delivered \subseteq delivered'
  PROVE  Grows
<1>1. 0 .. clock \subseteq 0 .. clock'
  BY DEF TypeOK
<1>2. table \in [Source -> Seq(0 .. clock')]
  BY <1>1 DEF TypeOK
<1>3. \A s \in Source : RowId(s)' = RowId(s)
  BY DEF RowId
<1> QED BY <1>2, <1>3 DEF Grows, TypeOK

\* A batch that moves on to a stage of its own type keeps the type of step.
LEMMA GotoType ==
  ASSUME TypeOK, NEW w \in Worker, NEW p \in Step, Goto(w, p)
  PROVE  step' \in [Worker -> Step]
BY DEF TypeOK, Goto

\* So does one that ends.
LEMMA EndType ==
  ASSUME TypeOK, NEW w \in Worker, NEW a \in Stage, End(w, a)
  PROVE  step' \in [Worker -> Step]
<1>1. [IdleStep EXCEPT !.at = a, !.began = step[w].began] \in Step
  BY DEF TypeOK, Step, IdleStep, Cursors, NoCursors
<1> QED BY <1>1, GotoType DEF End

\* A worker without a batch has its type.
LEMMA IdleType == TypeOK => IdleStep \in Step
BY DEF TypeOK, Step, IdleStep, Cursors, NoCursors, Stage

\* A row that is not that of a completed batch has its type.
LEMMA PlainType ==
  ASSUME TypeOK, NEW a \in {"failed", "rejected", "other"}
  PROVE  Plain(a) \in Entry /\ Plain(a).status = a
BY DEF Plain, Entry, NoCursors, Cursors

\* A row appended to the ledger table.
LEMMA AppendGrows ==
  ASSUME TypeOK, NEW t \in 0 .. clock, NEW e \in Entry, AppendOperation(t, e),
         e.status = "other" => t >= clock - Late, clock' = clock, delivered' = delivered
  PROVE  Grows /\ ledger' \in Seq(Entry) /\ delivered' \subseteq Row
<1>1. Ops \in Source /\ Insert(Ops, t) /\ ledger' = Append(ledger, e)
  BY DEF AppendOperation, Source, Ops
<1>2. Grows
  BY <1>1, InsertGrows
<1> QED BY <1>1, <1>2 DEF TypeOK

\* Every step only adds rows, and keeps the types.
LEMMA StepType ==
  ASSUME TypeOK, [Next]_vars
  PROVE  Grows /\ TypeOK'
<1> USE DEF TypeOK
<1>1. CASE Write
  <2>1. PICK s \in Source \ {Ops}, t \in Stamps :
          Insert(s, t) /\ UNCHANGED <<lockVars, clock, ledger, delivered, step>>
    BY <1>1 DEF Write
  <2>2. t \in 0 .. clock /\ t >= clock - Late
    BY DEF Stamps
  <2>3. Grows
    BY <2>1, <2>2, InsertGrows
  <2> QED BY <2>1, <2>3, TypeKept
<1>2. CASE Maintain
  <2>1. PICK t \in Stamps : /\ AppendOperation(t, Plain("other"))
                            /\ UNCHANGED <<lockVars, clock, delivered, step>>
    BY <1>2 DEF Maintain
  <2>2. t \in 0 .. clock /\ t >= clock - Late
    BY DEF Stamps
  <2>3. Grows /\ ledger' \in Seq(Entry) /\ delivered' \subseteq Row
    BY <2>1, <2>2, PlainType, AppendGrows
  <2> QED BY <2>1, <2>3, TypeKept
\* Steps of a batch that write nothing.
<1>same. ASSUME UNCHANGED <<clock, table, ledger, delivered>>, step' \in [Worker -> Step]
         PROVE  Grows /\ TypeOK'
  <2>1. Grows
    BY <1>same, SameGrows
  <2> QED BY <1>same, <2>1, TypeKept
<1>3. ASSUME NEW w \in Worker, Request(w) PROVE Grows /\ TypeOK'
  <2>1. PICK o \in Options : Goto(w, [IdleStep EXCEPT !.at = "asked", !.opt = o, !.began = clock])
    BY <1>3 DEF Request
  <2>2. [IdleStep EXCEPT !.at = "asked", !.opt = o, !.began = clock] \in Step
    <3>1. IdleStep \in Step /\ clock \in 0 .. clock /\ "asked" \in Stage
      BY IdleType DEF Stage
    <3>2. o \in Options \cup {NoOption}
      OBVIOUS
    <3> QED BY <3>1, <3>2 DEF Step
  <2> QED BY <1>3, <2>1, <2>2, <1>same, GotoType DEF Request
<1>4. ASSUME NEW w \in Worker, Conflict(w) PROVE Grows /\ TypeOK'
  BY <1>4, <1>same, EndType DEF Conflict, Stage
<1>5. ASSUME NEW w \in Worker, BusyTimeout(w) PROVE Grows /\ TypeOK'
  BY <1>5, <1>same, EndType DEF BusyTimeout, Stage
<1>6. ASSUME NEW w \in Worker, Begin(w) PROVE Grows /\ TypeOK'
  <2>1. [step[w] EXCEPT !.at = "begin"] \in Step
    BY DEF Step, Stage
  <2> QED BY <1>6, <2>1, <1>same, GotoType DEF Begin, Move
<1>7. ASSUME NEW w \in Worker, LoadCursors(w) PROVE Grows /\ TypeOK'
  <2>1. step[w].opt.sources \subseteq Source
    BY DEF Step, Option, NoOption
  <2>2. [step[w] EXCEPT !.at = "reading", !.from = InForce(step[w].opt),
                        !.todo = step[w].opt.sources] \in Step
    BY <2>1, InForceType DEF Step, Stage
  <2> QED BY <1>7, <2>2, <1>same, GotoType DEF LoadCursors
<1>8. ASSUME NEW w \in Worker, Read(w) PROVE Grows /\ TypeOK'
  <2>1. PICK s \in step[w].todo :
          Goto(w, [step[w] EXCEPT
                     !.todo = step[w].todo \ {s},
                     !.got = step[w].got \cup
                               {<<s, k>> : k \in Matches(step[w].opt, step[w].from, s)}])
    BY <1>8 DEF Read
  <2>2. step[w] \in Step /\ s \in Source
    BY DEF Step
  <2>3. {<<s, k>> : k \in Matches(step[w].opt, step[w].from, s)} \subseteq Row
    <3>1. RowId(s) \subseteq Nat
      BY <2>2 DEF RowId
    <3> QED BY <2>2, <3>1 DEF Matches, Row
  <2>4. [step[w] EXCEPT
           !.todo = step[w].todo \ {s},
           !.got = step[w].got \cup
                     {<<s, k>> : k \in Matches(step[w].opt, step[w].from, s)}] \in Step
    BY <2>2, <2>3 DEF Step
  <2> QED BY <1>8, <2>1, <2>4, <1>same, GotoType DEF Read
<1>9. ASSUME NEW w \in Worker, WriteFiles(w) PROVE Grows /\ TypeOK'
  <2>1. [step[w] EXCEPT !.at = "listed"] \in Step
    BY DEF Step, Stage
  <2>2. step' \in [Worker -> Step]
    BY <1>9, <2>1, GotoType DEF WriteFiles, Move
  <2>3. SourceRows(step[w].opt, step[w].got) \subseteq Row
    BY DEF SourceRows, Step
  <2>4. Grows
    BY <1>9, SameGrows DEF WriteFiles
  <2> QED BY <1>9, <2>2, <2>3, <2>4, TypeKept DEF WriteFiles
<1>10. ASSUME NEW w \in Worker, Record(w) PROVE Grows /\ TypeOK'
  <2> DEFINE e == [status |-> "completed", opt |-> step[w].opt,
                   partial |-> Partial(step[w].opt, step[w].got),
                   cursors |-> HighWater(step[w].opt, step[w].got)]
  <2>1. e \in Entry /\ e.status # "other"
    BY HighWaterType DEF Entry, Step, Partial
  <2>2. step[w].began \in 0 .. clock
    BY DEF Step
  <2>3. AppendOperation(step[w].began, e)
    BY <1>10 DEF Record
  <2>4. Grows /\ ledger' \in Seq(Entry) /\ delivered' \subseteq Row
    <3> HIDE DEF e
    <3> QED BY <1>10, <2>1, <2>2, <2>3, AppendGrows DEF Record
  <2> QED BY <1>10, <2>4, EndType, TypeKept DEF Record, Stage
<1>11. ASSUME NEW w \in Worker, Leave(w) PROVE Grows /\ TypeOK'
  BY <1>11, <1>same, EndType DEF Leave, Stage
<1>12. ASSUME NEW w \in Worker, Release(w) PROVE Grows /\ TypeOK'
  BY <1>12, <1>same, GotoType, IdleType DEF Release
<1>13. ASSUME NEW w \in Worker, Report(w) PROVE Grows /\ TypeOK'
  <2>1. step' \in [Worker -> Step]
    BY <1>13, GotoType, IdleType DEF Report
  <2>2. step[w].began \in 0 .. clock
    BY DEF Step
  <2>3. ASSUME NEW a \in {"rejected", "failed"}, AppendOperation(step[w].began, Plain(a))
        PROVE  Grows /\ TypeOK'
    <3>1. Plain(a) \in Entry /\ Plain(a).status # "other"
      BY PlainType
    <3>2. Grows /\ ledger' \in Seq(Entry) /\ delivered' \subseteq Row
      BY <1>13, <2>2, <2>3, <3>1, AppendGrows DEF Report
    <3> QED BY <2>1, <3>2, TypeKept
  <2>4. CASE UNCHANGED <<table, ledger>>
    BY <1>13, <2>1, <2>4, <1>same DEF Report
  <2> QED BY <1>13, <2>3, <2>4 DEF Report
<1>14. ASSUME NEW w \in Worker, Crash(w) PROVE Grows /\ TypeOK'
  BY <1>14, <1>same, GotoType, IdleType, EndType DEF Crash, Stage
<1>15. CASE Tick
  <2>1. clock' \in 1 .. MaxTime /\ clock <= clock'
    BY <1>15 DEF Tick
  <2>2. Grows
    BY <1>15, <2>1, SameGrows DEF Tick
  <2> QED BY <1>15, <2>2, TypeKept DEF Tick
<1>16. CASE UNCHANGED vars
  BY <1>16, <1>same DEF vars
<1> QED
  BY <1>1, <1>2, <1>3, <1>4, <1>5, <1>6, <1>7, <1>8, <1>9, <1>10, <1>11, <1>12, <1>13,
     <1>14, <1>15, <1>16 DEF Next

\* The empty tables and the idle workers have their types.
LEMMA InitType == Init => TypeOK
<1> SUFFICES ASSUME Init PROVE TypeOK
  OBVIOUS
<1>1. table \in [Source -> Seq(0 .. clock)] /\ ledger \in Seq(Entry) /\ clock \in 1 .. MaxTime
  BY DEF Init
<1>2. Len(ledger) = Len(table[Ops])
  BY DEF Init, Source, Ops
<1>3. IdleStep \in Step
  BY DEF Init, Step, IdleStep, Cursors, NoCursors, Stage
<1> QED BY <1>1, <1>2, <1>3 DEF Init, TypeOK

\* Tables, ledger and batches keep their types, and every cursor names a row of
\* its source (export_batch.py:279-390).
THEOREM ExportTypeCorrect == Spec => []TypeOK
<1>1. Init => TypeOK
  BY InitType
<1>2. TypeOK /\ [Next]_vars => TypeOK'
  BY StepType
<1> QED BY <1>1, <1>2, PTL DEF Spec

-----------------------------------------------------------------------------
\* There are finitely many rows.
LEMMA RowsFinite == ASSUME TypeOK, NEW G \in SUBSET Row PROVE IsFiniteSet(G)
<1>1. IsFiniteSet(Source)
  <2>1. IsFiniteSet({"event"}) /\ IsFiniteSet({"tool_audit"}) /\ IsFiniteSet({Ops})
        /\ IsFiniteSet({"operations_automation_execution"})
    BY FS_Singleton
  <2>2. IsFiniteSet({"event"} \cup {"tool_audit"})
    BY <2>1, FS_Union
  <2>3. IsFiniteSet(({"event"} \cup {"tool_audit"}) \cup {Ops})
    BY <2>1, <2>2, FS_Union
  <2>4. IsFiniteSet((({"event"} \cup {"tool_audit"}) \cup {Ops})
                      \cup {"operations_automation_execution"})
    BY <2>1, <2>3, FS_Union
  <2> QED BY <2>4, FS_Subset DEF Source
<1> DEFINE n == Len(table["event"]) + Len(table["tool_audit"]) + Len(table[Ops])
                  + Len(table["operations_automation_execution"])
<1>2. \A s \in Source : Len(table[s]) \in Nat /\ RowId(s) = 1 .. Len(table[s])
  BY DEF TypeOK, RowId
<1>3. n \in Nat /\ \A s \in Source : Len(table[s]) <= n
  <2>1. /\ Len(table["event"]) \in Nat /\ Len(table["tool_audit"]) \in Nat
        /\ Len(table[Ops]) \in Nat /\ Len(table["operations_automation_execution"]) \in Nat
    BY <1>2 DEF Source
  <2>2. n \in Nat /\ Len(table["event"]) <= n /\ Len(table["tool_audit"]) <= n
        /\ Len(table[Ops]) <= n /\ Len(table["operations_automation_execution"]) <= n
    <3>1. \A a, b, c, d \in Nat : /\ a + b + c + d \in Nat
                                  /\ a <= a + b + c + d /\ b <= a + b + c + d
                                  /\ c <= a + b + c + d /\ d <= a + b + c + d
      OBVIOUS
    <3> QED BY <2>1, <3>1
  <2> HIDE DEF n
  <2> QED BY <2>2 DEF Source
<1>4. IsFiniteSet(1 .. n)
  <2> HIDE DEF n
  <2>1. n \in Int /\ 1 \in Int
    BY <1>3
  <2> QED BY <2>1, FS_Interval
<1>5. Row \subseteq Source \X (1 .. n)
  <2> HIDE DEF n
  <2> QED BY <1>2, <1>3 DEF Row
<1> HIDE DEF n
<1>6. IsFiniteSet(Source \X (1 .. n))
  BY <1>1, <1>4, FS_Product
<1> QED BY <1>5, <1>6, FS_Subset

\* No row comes before itself.
LEMMA NotEarlier == ASSUME TypeOK, NEW o, NEW x \in Row PROVE ~Earlier(o, x, x)
<1>1. x[1] \in Source /\ x[2] \in Nat /\ table[x[1]][x[2]] \in Nat
  BY DEF Row, RowId, TypeOK
<1>2. NameRank[x[1]] \in Nat
  BY <1>1 DEF NameRank, Source
<1> QED BY <1>1, <1>2 DEF Earlier, KeyLess

\* A batch that is not partial puts everything it got into its file.
LEMMA CompleteKeepsAll ==
  ASSUME TypeOK, NEW o, o.limit \in Nat, NEW G \in SUBSET Row, ~Partial(o, G)
  PROVE  SourceRows(o, G) = G
<1> SUFFICES ASSUME NEW x \in G
             PROVE  Cardinality({y \in G : Earlier(o, y, x)}) < o.limit
  BY DEF SourceRows
<1>1. IsFiniteSet(G) /\ Cardinality(G) \in Nat /\ Cardinality(G) <= o.limit
  BY RowsFinite, FS_CardinalityType DEF Partial
<1>2. IsFiniteSet(G \ {x}) /\ Cardinality(G \ {x}) = Cardinality(G) - 1
  BY <1>1, FS_RemoveElement
<1>3. {y \in G : Earlier(o, y, x)} \in SUBSET (G \ {x})
  BY NotEarlier
<1>4. /\ Cardinality({y \in G : Earlier(o, y, x)}) <= Cardinality(G \ {x})
      /\ IsFiniteSet({y \in G : Earlier(o, y, x)})
  BY <1>2, <1>3, FS_Subset
<1>5. Cardinality({y \in G : Earlier(o, y, x)}) \in Nat
  BY <1>4, FS_CardinalityType
<1> QED BY <1>1, <1>2, <1>4, <1>5

-----------------------------------------------------------------------------
\* What the ledger says stays true as rows are added.
LEMMA GrowsLedger ==
  ASSUME TypeOK, Grows, NEW e \in Entry, NEW b \in 0 .. clock, EntryInv(e, b)
  PROVE  EntryInv(e, b)'
<1>1. e.opt.sources \subseteq Source /\ e.cursors \in Cursors
  BY DEF Entry, Option, NoOption
<1>2. SUFFICES ASSUME e.status = "completed", ~Windowed(e.opt), NEW s \in e.opt.sources
      PROVE  /\ Covers(e.cursors[s], s)'
             /\ ~e.partial => \A k \in RowId(s)' : Old(s, k, b)' => <<s, k>> \in delivered'
  BY DEF EntryInv
<1>3. Covers(e.cursors[s], s)'
  BY <1>1, <1>2, GrowsCovers DEF EntryInv, Cursors
<1>4. ASSUME ~e.partial, NEW k \in RowId(s)', Old(s, k, b)' PROVE <<s, k>> \in delivered'
  <2>1. k \in RowId(s) /\ Old(s, k, b)
    BY <1>1, <1>4, GrowsOld DEF TypeOK
  <2> QED BY <1>2, <1>4, <2>1 DEF EntryInv, Grows
<1> QED BY <1>3, <1>4

\* And so does what a batch has found.
LEMMA GrowsBatch ==
  ASSUME TypeOK, Grows, NEW p \in Step, BatchInv(p)
  PROVE  BatchInv(p)'
<1>1. p.opt.sources \subseteq Source /\ p.from \in Cursors
  BY DEF Step, Option, NoOption
<1>2. p.at = "reading" => \A s \in p.opt.sources : Covers(p.from[s], s)'
  BY <1>1, GrowsCovers DEF BatchInv, Cursors
<1>3. p.at \in {"reading", "listed"} /\ ~Windowed(p.opt) =>
        \A s \in p.opt.sources \ p.todo : HasRead(p, s)'
  BY <1>1, GrowsHasRead DEF BatchInv
<1>4. p.at = "listed" => p.todo = {} /\ (Partial(p.opt, p.got) \/ p.got \subseteq delivered')
  BY DEF BatchInv, Grows
<1> QED BY <1>2, <1>3, <1>4 DEF BatchInv

\* A batch that reads nothing has found nothing.
LEMMA NoBatchInv ==
  ASSUME NEW p, p.at \notin {"reading", "listed"}
  PROVE  BatchInv(p)
BY DEF BatchInv

\* The cursors a batch starts from cover their sources.
LEMMA InForceCovers ==
  ASSUME TypeOK, LedgerInv, NEW o, NEW s \in Source, s \in o.sources
  PROVE  Covers(InForce(o)[s], s)
<1>1. CASE InForce(o) = NoCursors
  BY <1>1 DEF NoCursors, Covers
<1>2. ASSUME NEW i \in DOMAIN ledger,
             ledger[i].status = "completed", ~Windowed(ledger[i].opt),
             ledger[i].opt.sources = o.sources, InForce(o) = ledger[i].cursors
      PROVE  Covers(InForce(o)[s], s)
  BY <1>2 DEF LedgerInv, EntryInv
<1> QED BY <1>1, <1>2, InForceIsUsable

-----------------------------------------------------------------------------
\* A batch starts reading from cursors that are covered.
LEMMA LoadInv ==
  ASSUME TypeOK, LedgerInv, NEW p \in Step
  PROVE  BatchInv([p EXCEPT !.at = "reading", !.from = InForce(p.opt), !.todo = p.opt.sources])
<1>1. p.opt.sources \subseteq Source
  BY DEF Step, Option, NoOption
<1>2. \A s \in p.opt.sources : Covers(InForce(p.opt)[s], s)
  BY <1>1, InForceCovers
<1> QED BY <1>2 DEF BatchInv, Step

\* A select leaves out no row but those up to the cursor, and they are covered.
LEMMA ReadInv ==
  ASSUME TypeOK, NEW p \in Step, p.at = "reading", BatchInv(p), NEW s \in p.todo
  PROVE  BatchInv([p EXCEPT !.todo = p.todo \ {s},
                            !.got = p.got \cup {<<s, k>> : k \in Matches(p.opt, p.from, s)}])
<1> DEFINE G == p.got \cup {<<s, k>> : k \in Matches(p.opt, p.from, s)}
           q == [p EXCEPT !.todo = p.todo \ {s}, !.got = G]
<1>1. /\ q.at = "reading" /\ q.opt = p.opt /\ q.from = p.from /\ q.began = p.began
      /\ q.todo = p.todo \ {s} /\ q.got = G
  BY DEF Step
<1>2. s \in Source /\ p.opt.sources \subseteq Source
      /\ (p.from[s] = 0 \/ p.from[s] \in RowId(s))
  BY DEF Step, Option, NoOption, Cursors
<1>3. ASSUME ~Windowed(p.opt), s \in p.opt.sources PROVE HasRead(q, s)
  <2> SUFFICES ASSUME NEW k \in RowId(s), InOrder(s, k), k \notin Matches(p.opt, p.from, s)
               PROVE  <<s, k>> \in delivered
    BY <1>1 DEF HasRead, Reached, Old
  <2>1. p.from[s] # 0 /\ ~Behind(s, p.from[s], k)
    BY <1>3 DEF Matches, Windowed
  <2>2. /\ k \in Nat /\ p.from[s] \in Nat
        /\ table[s][k] \in Nat /\ table[s][p.from[s]] \in Nat
    BY <1>2, <2>1 DEF TypeOK, RowId
  <2>3. UpTo(s, k, p.from[s])
    BY <2>1, <2>2, SMTT(30) DEF UpTo, Behind
  <2> QED BY <1>3, <2>1, <2>3 DEF BatchInv, Covers
<1>4. ASSUME ~Windowed(p.opt), NEW r \in p.opt.sources \ p.todo, r # s PROVE HasRead(q, r)
  <2>1. \A k : <<r, k>> \in G <=> <<r, k>> \in p.got
    BY <1>4
  <2>2. HasRead(p, r)
    BY <1>4 DEF BatchInv
  <2> HIDE DEF G, q
  <2> QED BY <1>1, <2>1, <2>2 DEF HasRead, Reached
<1>5. \A r \in q.opt.sources : Covers(q.from[r], r)
  BY <1>1 DEF BatchInv
<1>6. ~Windowed(q.opt) => \A r \in q.opt.sources \ q.todo : HasRead(q, r)
  BY <1>1, <1>3, <1>4
<1> HIDE DEF q
<1>7. BatchInv(q)
  BY <1>1, <1>5, <1>6 DEF BatchInv
<1> QED BY <1>7 DEF q

\* The files hold all that a batch has got, unless it is partial.
LEMMA WriteInv ==
  ASSUME TypeOK, Grows, NEW p \in Step, p.at = "reading", p.todo = {}, BatchInv(p),
         delivered' = delivered \cup SourceRows(p.opt, p.got)
  PROVE  BatchInv([p EXCEPT !.at = "listed"])'
<1> DEFINE q == [p EXCEPT !.at = "listed"]
<1>1. /\ q.at = "listed" /\ q.opt = p.opt /\ q.began = p.began /\ q.todo = {} /\ q.got = p.got
  BY DEF Step
<1>2. p.opt.sources \subseteq Source /\ p.got \in SUBSET Row /\ p.opt.limit \in Nat
  BY DEF Step, Option, NoOption
<1>3. Partial(p.opt, p.got) \/ p.got \subseteq delivered'
  BY <1>2, CompleteKeepsAll
<1>4. ASSUME ~Windowed(p.opt), NEW s \in p.opt.sources PROVE HasRead(q, s)'
  <2>1. HasRead(p, s)'
    BY <1>2, <1>4, GrowsHasRead DEF BatchInv
  <2> HIDE DEF q
  <2> QED BY <1>1, <2>1 DEF HasRead
<1> HIDE DEF q
<1>5. BatchInv(q)'
  BY <1>1, <1>3, <1>4 DEF BatchInv
<1> QED BY <1>5 DEF q

\* The row of a batch says what is in its files and those before it.
LEMMA RecordInv ==
  ASSUME TypeOK, NEW p \in Step, p.at = "listed", BatchInv(p)
  PROVE  EntryInv([status |-> "completed", opt |-> p.opt, partial |-> Partial(p.opt, p.got),
                   cursors |-> HighWater(p.opt, p.got)], p.began)
<1>1. p.opt.sources \subseteq Source /\ p.got \subseteq Row /\ p.todo = {}
  BY DEF Step, Option, NoOption, BatchInv
<1> SUFFICES ASSUME ~Windowed(p.opt), NEW s \in p.opt.sources
             PROVE  /\ Covers(HighWater(p.opt, p.got)[s], s)
                    /\ ~Partial(p.opt, p.got) =>
                         \A k \in RowId(s) : Old(s, k, p.began) => <<s, k>> \in delivered
  BY DEF EntryInv
<1>2. HasRead(p, s)
  BY <1>1 DEF BatchInv
<1>3. ~Partial(p.opt, p.got) => p.got \subseteq delivered
  BY DEF BatchInv
<1>4. ASSUME NEW k \in RowId(s), HighWater(p.opt, p.got)[s] # 0, InOrder(s, k),
             UpTo(s, k, HighWater(p.opt, p.got)[s])
      PROVE  <<s, k>> \in delivered
  <2> DEFINE c == HighWater(p.opt, p.got)[s]
  <2>1. ~Partial(p.opt, p.got) /\ <<s, c>> \in p.got
    BY <1>1, <1>4, HighWaterIsTop DEF SourceRows
  <2>2. c \in RowId(s)
    BY <1>1, <2>1 DEF Row
  <2>3. Reached(s, k, p.got)
    BY <1>4, <2>1, <2>2 DEF Reached
  <2> QED BY <1>2, <1>3, <2>1, <2>3 DEF HasRead
<1>5. ASSUME ~Partial(p.opt, p.got), NEW k \in RowId(s), Old(s, k, p.began)
      PROVE  <<s, k>> \in delivered
  BY <1>2, <1>3, <1>5 DEF HasRead
<1> QED BY <1>4, <1>5 DEF Covers

-----------------------------------------------------------------------------
\* The only new row of the ledger that says completed is that of Record.
LEMMA NewEntry ==
  ASSUME TypeOK, [Next]_vars
  PROVE  \/ ledger' = ledger
         \/ \E e \in Entry : e.status # "completed" /\ ledger' = Append(ledger, e)
         \/ \E w \in Worker : Record(w)
<1>1. CASE Maintain
  BY <1>1, PlainType DEF Maintain, AppendOperation
<1>2. ASSUME NEW w \in Worker, Report(w)
      PROVE  ledger' = ledger
             \/ \E e \in Entry : e.status # "completed" /\ ledger' = Append(ledger, e)
  BY <1>2, PlainType DEF Report, AppendOperation
<1>3. ASSUME NEW w \in Worker,
             \/ Request(w) \/ Conflict(w) \/ BusyTimeout(w) \/ Begin(w) \/ LoadCursors(w)
             \/ Read(w) \/ WriteFiles(w) \/ Leave(w) \/ Release(w) \/ Crash(w)
      PROVE  ledger' = ledger
  BY <1>3 DEF Request, Conflict, BusyTimeout, Begin, LoadCursors, Read, WriteFiles, Leave,
              Release, Crash
<1>4. Write \/ Tick \/ UNCHANGED vars => ledger' = ledger
  BY DEF Write, Tick, vars
<1> QED BY <1>1, <1>2, <1>3, <1>4 DEF Next

\* Every step keeps what the ledger says true.
LEMMA StepLedger == TypeOK /\ ExportInv /\ [Next]_vars => LedgerInv'
<1> SUFFICES ASSUME TypeOK, ExportInv, [Next]_vars,
                    NEW i \in DOMAIN ledger', NEW e, e = ledger'[i], NEW b, b = table'[Ops][i]
             PROVE  EntryInv(e, b)'
  BY DEF LedgerInv
<1>1. Grows /\ TypeOK'
  BY StepType
<1>2. /\ ledger \in Seq(Entry) /\ Ops \in Source /\ Len(ledger) = Len(table[Ops])
      /\ table \in [Source -> Seq(0 .. clock)]
  BY DEF TypeOK, Source, Ops
<1>3. CASE i \in DOMAIN ledger
  <2>1. i \in RowId(Ops)
    BY <1>2, <1>3 DEF RowId
  <2>2. e = ledger[i] /\ b = table[Ops][i]
    BY <1>1, <1>2, <1>3, <2>1 DEF Grows
  <2>3. e \in Entry /\ b \in 0 .. clock
    <3>1. ledger[i] \in Entry
      BY <1>2, <1>3
    <3>2. table[Ops] \in Seq(0 .. clock) /\ i \in DOMAIN table[Ops]
      BY <1>2, <2>1 DEF RowId
    <3>3. table[Ops][i] \in 0 .. clock
      <4>1. \A S : \A t \in Seq(S) : \A j \in DOMAIN t : t[j] \in S
        OBVIOUS
      <4> QED BY <3>2, <4>1
    <3> QED BY <2>2, <3>1, <3>3
  <2>4. EntryInv(e, b)
    BY <1>3, <2>2 DEF ExportInv, LedgerInv
  <2> QED BY <1>1, <2>3, <2>4, GrowsLedger
<1>4. CASE i \notin DOMAIN ledger
  <2>1. CASE ledger' = ledger
    BY <1>4, <2>1
  <2>2. ASSUME NEW f \in Entry, f.status # "completed", ledger' = Append(ledger, f)
        PROVE  EntryInv(e, b)'
    <3>1. e = f
      BY <1>2, <1>4, <2>2
    <3> QED BY <2>2, <3>1 DEF EntryInv
  <2>3. ASSUME NEW w \in Worker, Record(w) PROVE EntryInv(e, b)'
    <3>1. PICK p : p = step[w]
      OBVIOUS
    <3>2. p \in Step /\ p.at = "listed" /\ BatchInv(p)
      BY <2>3, <3>1 DEF TypeOK, Record, ExportInv, WorkInv
    <3>f. PICK f : f = [status |-> "completed", opt |-> p.opt,
                        partial |-> Partial(p.opt, p.got), cursors |-> HighWater(p.opt, p.got)]
      OBVIOUS
    <3>3. EntryInv(f, p.began)
      BY <3>2, <3>f, RecordInv
    <3>4. f \in Entry /\ p.began \in 0 .. clock
      BY <3>2, <3>f, HighWaterType DEF Entry, Step, Partial
    <3>5. AppendOperation(p.began, f)
      BY <2>3, <3>1, <3>f DEF Record
    <3>6. e = f /\ b = p.began
      <4>1. ledger' = Append(ledger, f) /\ table' = [table EXCEPT ![Ops] = Append(@, p.began)]
        BY <3>5 DEF AppendOperation, Insert
      <4>2. table'[Ops] = Append(table[Ops], p.began)
        BY <1>2, <4>1
      <4>3. i = Len(ledger) + 1
        BY <1>2, <1>4, <4>1
      <4> QED BY <1>2, <4>1, <4>2, <4>3
    <3>7. EntryInv(f, p.began)'
      BY <1>1, <3>3, <3>4, GrowsLedger
    <3> QED BY <3>6, <3>7
  <2> QED BY <2>1, <2>2, <2>3, NewEntry
<1> QED BY <1>3, <1>4

\* Every step keeps what the batches under way have found.
LEMMA StepWork == TypeOK /\ ExportInv /\ [Next]_vars => WorkInv'
<1> SUFFICES ASSUME TypeOK, ExportInv, [Next]_vars, NEW w \in Worker, NEW q, q = step'[w]
             PROVE  BatchInv(q)'
  BY DEF WorkInv
<1>1. Grows /\ TypeOK'
  BY StepType
<1>2. PICK p : p = step[w]
  OBVIOUS
<1>3. p \in Step /\ BatchInv(p) /\ step \in [Worker -> Step]
  BY <1>2 DEF TypeOK, ExportInv, WorkInv
<1>4. CASE q = p
  BY <1>1, <1>3, <1>4, GrowsBatch
<1>5. CASE q.at \notin {"reading", "listed"}
  BY <1>5 DEF BatchInv
<1>6. CASE LoadCursors(w)
  <2>1. q = [p EXCEPT !.at = "reading", !.from = InForce(p.opt), !.todo = p.opt.sources]
    BY <1>2, <1>3, <1>6 DEF LoadCursors, Goto
  <2>2. q \in Step
    <3>1. InForce(p.opt) \in Cursors
      BY InForceType
    <3>2. p.opt.sources \subseteq Source
      BY <1>3 DEF Step, Option, NoOption
    <3> QED BY <1>3, <2>1, <3>1, <3>2 DEF Step, Stage
  <2>3. BatchInv(q)
    BY <1>3, <2>1, LoadInv DEF ExportInv
  <2> QED BY <1>1, <2>2, <2>3, GrowsBatch
<1>7. CASE Read(w)
  <2>1. PICK s \in p.todo :
          q = [p EXCEPT !.todo = p.todo \ {s},
                        !.got = p.got \cup {<<s, k>> : k \in Matches(p.opt, p.from, s)}]
    BY <1>2, <1>3, <1>7 DEF Read, Goto
  <2>2. BatchInv(q)
    <3>1. p.at = "reading"
      BY <1>2, <1>7 DEF Read
    <3>2. BatchInv([p EXCEPT !.todo = p.todo \ {s},
                             !.got = p.got \cup {<<s, k>> : k \in Matches(p.opt, p.from, s)}])
      BY <1>3, <3>1, ReadInv
    <3> QED BY <2>1, <3>2
  <2>3. s \in Source /\ {<<s, k>> : k \in Matches(p.opt, p.from, s)} \subseteq Row
    <3>1. s \in Source /\ RowId(s) \subseteq Nat
      BY <1>3, <2>1 DEF Step, RowId, TypeOK
    <3> QED BY <3>1 DEF Matches, Row
  <2>4. q \in Step
    BY <1>3, <2>1, <2>3 DEF Step
  <2> QED BY <1>1, <2>2, <2>4, GrowsBatch
<1>8. CASE WriteFiles(w)
  <2>1. q = [p EXCEPT !.at = "listed"] /\ p.at = "reading" /\ p.todo = {}
    BY <1>2, <1>3, <1>8 DEF WriteFiles, Move, Goto
  <2>2. delivered' = delivered \cup SourceRows(p.opt, p.got)
    BY <1>2, <1>8 DEF WriteFiles
  <2> QED BY <1>1, <1>3, <2>1, <2>2, WriteInv
<1>9. ASSUME ~LoadCursors(w), ~Read(w), ~WriteFiles(w)
      PROVE  q = p \/ q.at \notin {"reading", "listed"}
  <2>1. ASSUME NEW v \in Worker, NEW r, Goto(v, r) PROVE (v = w /\ q = r) \/ q = p
    BY <1>2, <1>3, <2>1 DEF Goto
  <2>2. ASSUME NEW v \in Worker, NEW a \in Stage \ {"reading", "listed"}, End(v, a)
        PROVE  q = p \/ q.at = a
    <3>1. [IdleStep EXCEPT !.at = a, !.began = step[v].began].at = a
      BY DEF IdleStep
    <3> QED BY <2>1, <2>2, <3>1 DEF End
  <2>3. IdleStep.at = "idle"
    BY DEF IdleStep
  <2>4. ASSUME NEW v \in Worker, Request(v) PROVE q = p \/ q.at = "asked"
    <3>1. \A o : [IdleStep EXCEPT !.at = "asked", !.opt = o, !.began = clock].at = "asked"
      BY DEF IdleStep
    <3> QED BY <2>1, <2>4, <3>1 DEF Request
  <2>5. ASSUME NEW v \in Worker, Conflict(v) \/ BusyTimeout(v) \/ Record(v) \/ Leave(v)
        PROVE  q = p \/ q.at \notin {"reading", "listed"}
    BY <2>2, <2>5 DEF Conflict, BusyTimeout, Record, Leave, Stage
  <2>6. ASSUME NEW v \in Worker, Begin(v) PROVE q = p \/ q.at = "begin"
    <3>1. [step[v] EXCEPT !.at = "begin"].at = "begin"
      BY <1>3 DEF Step
    <3> QED BY <2>1, <2>6, <3>1 DEF Begin, Move
  <2>7. ASSUME NEW v \in Worker, LoadCursors(v) \/ Read(v) \/ WriteFiles(v) PROVE q = p
    <3>1. v # w
      BY <1>9, <2>7
    <3>2. PICK r : Goto(v, r)
      BY <2>7 DEF LoadCursors, Read, WriteFiles, Move
    <3> QED BY <2>1, <3>1, <3>2
  <2>8. ASSUME NEW v \in Worker, Release(v) \/ Report(v) \/ Crash(v)
        PROVE  q = p \/ q.at \notin {"reading", "listed"}
    BY <1>2, <2>1, <2>2, <2>3, <2>8 DEF Release, Report, Crash, Stage
  <2>9. Write \/ Maintain \/ Tick \/ UNCHANGED vars => q = p
    BY <1>2 DEF Write, Maintain, Tick, vars
  <2> QED BY <2>4, <2>5, <2>6, <2>7, <2>8, <2>9 DEF Next
<1> QED BY <1>4, <1>5, <1>6, <1>7, <1>8, <1>9

\* ExportInv holds always.
LEMMA ExportInvariant == Spec => [](TypeOK /\ ExportInv)
<1>1. Init => TypeOK /\ ExportInv
  <2>1. ASSUME Init PROVE ExportInv
    BY <2>1 DEF Init, ExportInv, LedgerInv, WorkInv, BatchInv, IdleStep
  <2> QED BY <2>1, InitType
<1>2. TypeOK /\ ExportInv /\ [Next]_vars => (TypeOK /\ ExportInv)'
  BY StepType, StepLedger, StepWork DEF ExportInv
<1> QED BY <1>1, <1>2, PTL DEF Spec

\* However batches overlap, fail or stop, and whatever is written between their
\* reads, the next one starts behind no row that no consumer got, unless it was
\* committed after a row with a later stamp (export_batch.py:307-311, 443-495).
THEOREM NoRowIsSkipped == Spec => []NothingSkipped
<1>1. TypeOK /\ ExportInv => NothingSkipped
  <2> SUFFICES ASSUME TypeOK, ExportInv, NEW o \in Options, NEW s \in o.sources, NEW k \in RowId(s),
                      InForce(o)[s] # 0, InOrder(s, k),
                      k = InForce(o)[s] \/ Behind(s, k, InForce(o)[s])
               PROVE  <<s, k>> \in delivered
    BY DEF NothingSkipped
  <2>1. s \in Source
    BY DEF Option
  <2>2. Covers(InForce(o)[s], s)
    BY <2>1, InForceCovers DEF ExportInv
  <2> QED BY <2>2 DEF Covers, UpTo
<1> QED BY <1>1, ExportInvariant, PTL

\* A ledger row that calls a batch complete is evidence: every row stamped long
\* enough before the batch began has been exported (export_batch.py:307-311).
THEOREM CompletedBatchesAreComplete == Spec => []CompleteIsComplete
<1>1. TypeOK /\ ExportInv => CompleteIsComplete
  <2> SUFFICES ASSUME TypeOK, ExportInv, NEW i \in Completed, ~Windowed(ledger[i].opt),
                      ~ledger[i].partial, NEW s \in ledger[i].opt.sources, NEW k \in RowId(s),
                      Stamped(s, k), InOrder(s, k), table[s][k] < table[Ops][i] - Late
               PROVE  <<s, k>> \in delivered
    BY DEF CompleteIsComplete
  <2>1. i \in DOMAIN ledger /\ ledger[i].status = "completed"
    BY DEF Completed
  <2>2. EntryInv(ledger[i], table[Ops][i])
    BY <2>1 DEF ExportInv, LedgerInv
  <2>3. Old(s, k, table[Ops][i])
    BY DEF Old
  <2> QED BY <2>1, <2>2, <2>3 DEF EntryInv
<1> QED BY <1>1, ExportInvariant, PTL

=============================================================================
