------------------------- MODULE MonitorReview_proofs -------------------------
(***************************************************************************)
(* Proofs about OperationLock and about MonitorReview, whose cycles take   *)
(* that lock.  The second are for any number of runs, workers and reviews  *)
(* that fail, and for cycles that overlap because one outlasted the lease  *)
(* of its lock: nothing there needs the lock to exclude.  ReviewInv says   *)
(* who may still review a run, and what a cycle without failures owes: the *)
(* runs it answers for are reviewed, without intent, or still to come.     *)
(***************************************************************************)
EXTENDS MonitorReview, FiniteSetTheorems, WellFoundedInduction, TLAPS

(***************************************************************************)
(* The lock by itself (OperationLock, its Spec), for every set of workers, *)
(* every assignment of owner ids and every lease.  HoldInv is the          *)
(* inductive invariant: the row of a holder outlives what is left of its   *)
(* operation and its release, and there is one holder only.                *)
(***************************************************************************)
USE LockAssumption

\* From the grant to the release the holder's row is in the table, lasts
\* longer than the holder still runs, and nobody else holds the lock.
HoldInv ==
  \A w \in Worker :
    Holding(w) =>
      /\ lock.owner = Owner[w]
      /\ lock.left > job[w].left + (IF Working(w) THEN BusyWait ELSE 0)
      /\ \A v \in Worker : Holding(v) => v = w

-----------------------------------------------------------------------------
\* Only a waiting request, a running operation or a finishing one changes;
\* the passing of time keeps every field of a job in its range.
LEMMA AgedIsJob ==
  ASSUME NEW j \in Job,
         j.pc = "waiting" => j.age < BusyWait,
         j.pc \in {"working", "releasing"} => j.left > 0
  PROVE  Aged(j) \in Job /\ Aged(j).pc = j.pc
         /\ (j.pc \in {"working", "releasing"} => Aged(j).left = j.left - 1)
<1>1. CASE j.pc = "waiting"
  BY <1>1 DEF Aged, Job
<1>2. CASE j.pc \in {"working", "releasing"}
  BY <1>2 DEF Aged, Job
<1>3. CASE j.pc = "idle"
  BY <1>3 DEF Aged, Job
<1> QED BY <1>1, <1>2, <1>3 DEF Job

\* The empty lock table and the idle processes have their types.
LEMMA InitType == Init => TypeOK
BY DEF Init, TypeOK, Lock, NoLock, Job, IdleJob

\* Every step of Next keeps the types, and with them the lease within Ttl and
\* above what any clock reading in use can still tell apart.
LEMMA StepType == TypeOK /\ [Next]_lockVars => TypeOK'
<1> SUFFICES ASSUME TypeOK, [Next]_lockVars PROVE TypeOK'
  OBVIOUS
<1> USE DEF TypeOK
<1>idle. IdleJob \in Job /\ NoLock \in Lock
  BY DEF IdleJob, Job, NoLock, Lock
<1>1. ASSUME NEW w \in Worker, Request(w) PROVE TypeOK'
  BY <1>1, <1>idle DEF Request, Job, IdleJob
<1>2. ASSUME NEW w \in Worker, Acquire(w) PROVE TypeOK'
  <2>1. job[w].age \in 0 .. BusyWait
    BY DEF Job
  <2>2. Ttl - job[w].age \in -BusyWait .. Ttl
    BY <2>1
  <2>3. lock' \in Lock
    BY <1>2, <2>2 DEF Acquire, Lock
  <2>4. [pc |-> "working", age |-> 0, left |-> WorkBound] \in Job
    BY DEF Job
  <2> QED BY <1>2, <2>3, <2>4 DEF Acquire
<1>3. ASSUME NEW w \in Worker, Conflict(w) PROVE TypeOK'
  BY <1>3, <1>idle DEF Conflict
<1>4. ASSUME NEW w \in Worker, BusyTimeout(w) PROVE TypeOK'
  BY <1>4, <1>idle DEF BusyTimeout
<1>5. ASSUME NEW w \in Worker, FinishWork(w) PROVE TypeOK'
  <2>1. [pc |-> "releasing", age |-> 0, left |-> BusyWait] \in Job
    BY DEF Job
  <2> QED BY <1>5, <2>1 DEF FinishWork
<1>6. ASSUME NEW w \in Worker, Release(w) PROVE TypeOK'
  BY <1>6, <1>idle DEF Release
<1>7. ASSUME NEW w \in Worker, Crash(w) PROVE TypeOK'
  BY <1>7, <1>idle DEF Crash
<1>8. ASSUME Tick PROVE TypeOK'
  <2>1. job' \in [Worker -> Job]
    <3>1. \A w \in Worker : Aged(job[w]) \in Job
      BY <1>8, AgedIsJob DEF Tick, Holding
    <3> QED BY <1>8, <3>1 DEF Tick
  <2>2. lock' \in Lock
    <3>1. lock.left \in Int /\ lock.left <= Ttl /\ lock.left >= -BusyWait
      BY DEF Lock
    <3>2. CASE lock.owner # NoOwner /\ lock.left > -BusyWait
      <4>1. lock.left - 1 \in -BusyWait .. Ttl
        BY <3>1, <3>2
      <4> QED BY <1>8, <3>2, <4>1 DEF Tick, Elapsed, Lock
    <3>3. CASE ~(lock.owner # NoOwner /\ lock.left > -BusyWait)
      BY <1>8, <3>3 DEF Tick, Elapsed
    <3> QED BY <3>2, <3>3
  <2> QED BY <1>8, <2>1, <2>2 DEF Tick
<1>9. CASE UNCHANGED lockVars
  BY <1>9 DEF lockVars
<1> QED BY <1>1, <1>2, <1>3, <1>4, <1>5, <1>6, <1>7, <1>8, <1>9 DEF Next

\* The table row, the jobs and the counter of crashes keep their types
\* (event_store.py:2837-2927).
THEOREM LockTypeCorrect == Spec => []TypeOK
<1>1. Init => TypeOK  BY InitType
<1>2. TypeOK /\ [Next]_lockVars => TypeOK'  BY StepType
<1> QED BY <1>1, <1>2, PTL DEF Spec

-----------------------------------------------------------------------------
\* Nobody is granted the lock while there is a holder: its row has time left,
\* and an old clock reading only makes the row look younger.
LEMMA HeldIsNotFree ==
  ASSUME TypeOK, HoldInv, NEW v \in Worker, Holding(v), NEW w \in Worker
  PROVE  ~Free(w)
<1>1. lock.owner = Owner[v] /\ lock.owner # NoOwner
  BY DEF HoldInv
<1>2. lock.left \in Int /\ job[w].age \in Nat /\ job[v].left \in Nat
  BY DEF TypeOK, Lock, Job
<1>3. lock.left > 0
  BY <1>2 DEF HoldInv
<1> QED BY <1>1, <1>2, <1>3 DEF Free

\* Every step keeps the holder's row in the table for longer than the holder runs.
LEMMA StepHold == Timely /\ TypeOK /\ HoldInv /\ [Next]_lockVars => HoldInv'
<1> SUFFICES ASSUME Timely, TypeOK, HoldInv, [Next]_lockVars PROVE HoldInv'
  OBVIOUS
<1>job. job \in [Worker -> Job]
  BY DEF TypeOK
\* Steps that make no new holder and leave the lock alone.
<1>same. ASSUME lock' = lock,
                \A v \in Worker : Holding(v)' => Holding(v) /\ job'[v] = job[v]
         PROVE  HoldInv'
  BY <1>same DEF HoldInv, Working
<1>1. ASSUME NEW w \in Worker, Request(w) PROVE HoldInv'
  BY <1>1, <1>job, <1>same DEF Request, Holding, IdleJob
<1>2. ASSUME NEW w \in Worker, Acquire(w) PROVE HoldInv'
  <2>1. \A v \in Worker : ~Holding(v)
    BY <1>2, HeldIsNotFree DEF Acquire
  <2>2. /\ job'[w] = [pc |-> "working", age |-> 0, left |-> WorkBound]
        /\ \A v \in Worker : v # w => job'[v] = job[v]
    BY <1>2, <1>job DEF Acquire
  <2>3. \A v \in Worker : Holding(v)' => v = w
    BY <2>1, <2>2 DEF Holding
  <2>4. lock'.owner = Owner[w] /\ lock'.left = Ttl - job[w].age
    BY <1>2 DEF Acquire
  <2>5. job[w].age \in 0 .. BusyWait
    BY DEF TypeOK, Job
  <2>6. lock'.left > job'[w].left + BusyWait
    BY <2>2, <2>4, <2>5 DEF Timely
  <2>7. Working(w)'
    BY <2>2 DEF Working
  <2> QED BY <2>3, <2>4, <2>6, <2>7 DEF HoldInv
<1>3. ASSUME NEW w \in Worker, Conflict(w) PROVE HoldInv'
  BY <1>3, <1>job, <1>same DEF Conflict, Holding, IdleJob
<1>4. ASSUME NEW w \in Worker, BusyTimeout(w) PROVE HoldInv'
  BY <1>4, <1>job, <1>same DEF BusyTimeout, Holding, IdleJob
<1>5. ASSUME NEW w \in Worker, FinishWork(w) PROVE HoldInv'
  <2>1. /\ job'[w] = [pc |-> "releasing", age |-> 0, left |-> BusyWait]
        /\ \A v \in Worker : v # w => job'[v] = job[v]
    BY <1>5, <1>job DEF FinishWork
  <2>2. Holding(w) /\ Working(w)
    BY <1>5 DEF FinishWork, Working, Holding
  <2>3. lock.owner = Owner[w] /\ lock.left > job[w].left + BusyWait
    BY <2>2 DEF HoldInv
  <2>4. lock.left \in Int /\ job[w].left \in Nat
    BY DEF TypeOK, Lock, Job
  <2>5. lock'.owner = Owner[w] /\ lock'.left > job'[w].left
    BY <1>5, <2>1, <2>3, <2>4 DEF FinishWork
  <2>6. \A v \in Worker : Holding(v)' => v = w
    BY <2>1, <2>2 DEF HoldInv, Holding
  <2>7. ~Working(w)' /\ job'[w].left = BusyWait
    BY <2>1 DEF Working
  <2> QED BY <2>5, <2>6, <2>7 DEF HoldInv
<1>6. ASSUME NEW w \in Worker, Release(w) PROVE HoldInv'
  <2>1. Holding(w)
    BY <1>6 DEF Release, Holding
  <2>2. job'[w] = IdleJob /\ \A v \in Worker : v # w => job'[v] = job[v]
    BY <1>6, <1>job DEF Release
  <2>3. \A v \in Worker : ~Holding(v)'
    BY <2>1, <2>2 DEF HoldInv, Holding, IdleJob
  <2> QED BY <2>3 DEF HoldInv
<1>7. ASSUME NEW w \in Worker, Crash(w) PROVE HoldInv'
  BY <1>7, <1>job, <1>same DEF Crash, Holding, IdleJob
<1>8. ASSUME Tick PROVE HoldInv'
  <2> SUFFICES ASSUME NEW w \in Worker, Holding(w)'
               PROVE  /\ lock'.owner = Owner[w]
                      /\ lock'.left > job'[w].left + (IF Working(w)' THEN BusyWait ELSE 0)
                      /\ \A v \in Worker : Holding(v)' => v = w
    BY DEF HoldInv
  <2>1. \A v \in Worker : job'[v] = Aged(job[v]) /\ job'[v].pc = job[v].pc
                          /\ (Holding(v) => job'[v].left = job[v].left - 1)
    BY <1>8, <1>job, AgedIsJob DEF Tick, Holding
  <2>2. \A v \in Worker : (Holding(v)' <=> Holding(v)) /\ (Working(v)' <=> Working(v))
    BY <2>1 DEF Holding, Working
  <2>3. /\ lock.owner = Owner[w]
        /\ lock.left > job[w].left + (IF Working(w) THEN BusyWait ELSE 0)
        /\ \A v \in Worker : Holding(v) => v = w
    BY <2>2 DEF HoldInv
  <2>4. lock.left \in Int /\ job[w].left \in Nat
    BY DEF TypeOK, Lock, Job
  <2>5. lock.owner # NoOwner /\ lock.left > 0
    BY <2>3, <2>4
  <2>6. lock'.owner = lock.owner /\ lock'.left = lock.left - 1
    BY <1>8, <2>4, <2>5 DEF Tick, Elapsed, TypeOK, Lock
  <2> QED BY <2>1, <2>2, <2>3, <2>4, <2>6
<1>9. CASE UNCHANGED lockVars
  BY <1>9, <1>same DEF lockVars, Holding
<1> QED BY <1>1, <1>2, <1>3, <1>4, <1>5, <1>6, <1>7, <1>8, <1>9 DEF Next

\* Under Timely the holder is alone and its row outlives it in every behaviour.
LEMMA HoldAlways == Timely => (Spec => []HoldInv)
<1> SUFFICES ASSUME Timely PROVE Spec => []HoldInv
  OBVIOUS
<1>1. Init => HoldInv
  BY DEF Init, HoldInv, Holding, IdleJob
<1>2. TypeOK /\ HoldInv /\ [Next]_lockVars => HoldInv'
  BY StepHold
<1> QED BY <1>1, <1>2, LockTypeCorrect, PTL DEF Spec

\* With a lease longer than the operation and the two waits for SQLite, two
\* operations never run at once, whatever owner ids they pass
\* (event_store.py:2860-2927).
THEOREM LockExcludes == Timely => (Spec => []OneAtATime)
<1> SUFFICES ASSUME Timely PROVE Spec => []OneAtATime
  OBVIOUS
<1>1. HoldInv => OneAtATime
  BY DEF HoldInv, OneAtATime, Holding, Working
<1> QED BY <1>1, HoldAlways, PTL

\* ... and the holder's row stays in the table and unexpired until its release.
THEOREM LockIsKept == Timely => (Spec => []LockCoversWork)
<1> SUFFICES ASSUME Timely PROVE Spec => []LockCoversWork
  OBVIOUS
<1>1. TypeOK /\ HoldInv => LockCoversWork
  <2> SUFFICES ASSUME TypeOK, HoldInv, NEW w \in Worker, Holding(w)
               PROVE  lock.owner = Owner[w] /\ lock.left > 0
    BY DEF LockCoversWork
  <2>1. lock.left \in Int /\ job[w].left \in Nat
    BY DEF TypeOK, Lock, Job
  <2> QED BY <2>1 DEF HoldInv
<1> QED BY <1>1, HoldAlways, LockTypeCorrect, PTL

-----------------------------------------------------------------------------
\* With owner ids that differ no release, however late, and no grant takes a
\* lock with time left away from a running operation; no bound on the length
\* of operations is needed (event_store.py:2884-2900, 2919-2927).
THEOREM LockIsNotStolen ==
  ASSUME \A v, w \in Worker : Owner[v] = Owner[w] => v = w
  PROVE  Spec => NoTheft
<1> DEFINE Kept == \A w \in Worker : /\ Working(w) /\ lock.owner = Owner[w]
                                     /\ lock'.owner # Owner[w]
                                     => lock.left <= 0
<1>1. TypeOK /\ [Next]_lockVars => Kept
  <2> SUFFICES ASSUME TypeOK, [Next]_lockVars, NEW w \in Worker,
                      Working(w), lock.owner = Owner[w], lock'.owner # Owner[w]
               PROVE  lock.left <= 0
    OBVIOUS
  <2>1. lock.owner # NoOwner /\ lock' # lock
    OBVIOUS
  <2>2. ASSUME NEW v \in Worker, Acquire(v) PROVE lock.left <= 0
    <3>1. lock.left \in Int /\ job[v].age \in Nat
      BY DEF TypeOK, Lock, Job
    <3> QED BY <2>1, <2>2, <3>1 DEF Acquire, Free
  <2>3. ASSUME NEW v \in Worker, Release(v) PROVE FALSE
    <3>1. v # w
      BY <2>3 DEF Release, Working
    <3> QED BY <2>1, <2>3, <3>1 DEF Release
  <2>4. ASSUME Tick PROVE FALSE
    BY <2>1, <2>4 DEF Tick, Elapsed, TypeOK, Lock
  <2> QED BY <2>1, <2>2, <2>3, <2>4
       DEF Next, Request, Conflict, BusyTimeout, FinishWork, Crash, lockVars
<1>2. Kept => [Kept]_lockVars
  OBVIOUS
<1> QED BY <1>1, LockTypeCorrect, PTL DEF Spec, NoTheft

-----------------------------------------------------------------------------
(***************************************************************************)
(* The review service.                                                     *)
(***************************************************************************)

\* A cycle that holds runs still to review has an oldest one.
LEMMA OldestIsThere ==
  ASSUME NEW S \in SUBSET Nat, S # {}
  PROVE  Oldest(S) \in S /\ \A q \in S : Oldest(S) <= q
<1> DEFINE R == OpToRel(<, Nat)
<1>1. PICK x \in S : \A y \in S : ~ (<<y, x>> \in R)
  BY NatLessThanWellFounded, WFMin
<1>2. \A y \in S : <<y, x>> \in R <=> y < x
  BY DEF OpToRel
<1> HIDE DEF R
<1>3. ASSUME NEW y \in S PROVE x <= y
  <2>1. ~ (y < x)
    BY <1>1, <1>2
  <2>2. x \in Nat /\ y \in Nat
    OBVIOUS
  <2> QED BY <2>1, <2>2
<1> QED BY <1>3 DEF Oldest

\* When fewer than n are among the first n of a set of runs, that is all of it.
LEMMA FirstIsAll ==
  ASSUME NEW S \in SUBSET Runs, NEW n \in Nat, Cardinality(First(n, S)) < n
  PROVE  First(n, S) = S
<1> DEFINE F == First(n, S)
<1>1. F \subseteq S /\ S \in SUBSET Nat
  BY DEF First, Runs
<1>2. IsFiniteSet(S) /\ IsFiniteSet(F)
  <2>1. IsFiniteSet(Runs)
    BY ReviewAssumption, FS_Interval DEF Runs
  <2> QED BY <2>1, <1>1, FS_Subset
<1>3. ASSUME S \ F # {} PROVE FALSE
  <2> DEFINE r == Oldest(S \ F)  B == {q \in S : q < r}
  <2>1. S \ F \in SUBSET Nat
    BY <1>1
  <2>2. r \in S \ F /\ \A q \in S \ F : r <= q
    BY <2>1, <1>3, OldestIsThere
  <2> HIDE DEF r
  <2>3. B \subseteq F
    <3> SUFFICES ASSUME NEW q \in S, q < r, q \notin F PROVE FALSE
      OBVIOUS
    <3>1. r <= q /\ r \in Nat /\ q \in Nat
      BY <2>2, <1>1
    <3> QED BY <3>1
  <2>4. IsFiniteSet(B) /\ Cardinality(B) <= Cardinality(F) /\ Cardinality(B) \in Nat /\ Cardinality(F) \in Nat
    BY <2>3, <1>2, FS_Subset, FS_CardinalityType
  <2>5. Cardinality(B) < n
    BY <2>4
  <2>6. r \in F
    BY <2>2, <2>5 DEF First
  <2> QED BY <2>2, <2>6
<1> QED BY <1>1, <1>3

-----------------------------------------------------------------------------
\* The lock's own steps are those of OperationLock.
LEMMA LockMoves == [MonitorNext]_monitorVars => [Next]_lockVars
BY DEF MonitorNext, monitorVars, Next, lockVars, StoreRun, ReviewLive, LeaveUnreviewed, StartCycle, Granted,
       SkipCycle, LockIsBusy, List, ReviewNext, ReviewFails, EndCycle, EndReport, CrashWorker, TimePasses

\* The review service keeps the promises of the lock, which are proved above for
\* every use of it.
LEMMA UsesTheLock == MonitorSpec => Spec
<1>1. MonitorInit => Init
  BY DEF MonitorInit
<1> QED BY <1>1, LockMoves, PTL DEF MonitorSpec, Spec

-----------------------------------------------------------------------------
ReviewRecord == [run : Runs, by : {"live", "worker"}]
CycleRecord  == [listed : BOOLEAN, todo : SUBSET Runs, failed : BOOLEAN, covered : SUBSET Runs]

ReviewTypeOK ==
  /\ turn \in [Runs -> {"none", "stored", "done"}]
  /\ reviews \in Seq(ReviewRecord)
  /\ cycle \in [Worker -> CycleRecord]
  /\ failures \in Nat

\* A review is of a stored run, and the turn's own is its last word.
ReviewsAreLate ==
  \A i \in DOMAIN reviews :
    /\ turn[reviews[i].run] # "none"
    /\ reviews[i].by = "live" => turn[reviews[i].run] = "done"

\* What a cycle lists is stored, and without a failure it owes only what it
\* has still to do.
Owes(c) ==
  /\ \A r \in c.todo : turn[r] # "none"
  /\ ~ c.failed => \A r \in c.covered \ NoIntent : IsReviewed(r) \/ r \in c.todo

\* The lock is released when the cycle is through.
Through(w) == job[w].pc = "releasing" => cycle[w].todo = {}

ReviewInv ==
  /\ TypeOK /\ ReviewTypeOK
  /\ ReviewsAreLate /\ ReviewedOnce
  /\ \A w \in Worker : Owes(cycle[w]) /\ Through(w)

\* Sequences: elements, and what appending does.
LEMMA SeqElements ==
  ASSUME NEW S, NEW q \in Seq(S)
  PROVE  DOMAIN q = 1 .. Len(q) /\ Len(q) \in Nat /\ \A k \in DOMAIN q : q[k] \in S
OBVIOUS

\* The same for a sequence and one element more.
LEMMA SeqAppend ==
  ASSUME NEW S, NEW q \in Seq(S), NEW e \in S
  PROVE  /\ Append(q, e) \in Seq(S) /\ DOMAIN Append(q, e) = 1 .. Len(q) + 1
         /\ Append(q, e)[Len(q) + 1] = e
         /\ \A i \in 1 .. Len(q) : Append(q, e)[i] = q[i]
OBVIOUS

\* Reviews are only added, so that what is reviewed stays so; a run whose turn
\* has not yet given its review has none by it; and after an append the
\* reviews of one run are still in order.
LEMMA AppendedReview ==
  ASSUME ReviewInv, NEW r \in Runs, NEW b \in {"live", "worker"}, reviews' = Append(reviews, Review(r, b)),
         turn' \in [Runs -> {"none", "stored", "done"}],
         \A q \in Runs : /\ turn[q] # "none" => turn'[q] # "none"
                         /\ turn[q] = "done" => turn'[q] = "done",
         b = "live" => turn[r] = "stored" /\ turn'[r] = "done",
         b = "worker" => turn[r] # "none" /\ ~ IsReviewed(r)
  PROVE  /\ reviews' \in Seq(ReviewRecord)
         /\ ReviewsAreLate' /\ ReviewedOnce'
         /\ \A q \in Runs : IsReviewed(q) => IsReviewed(q)'
         /\ IsReviewed(r)'
<1> DEFINE e == Review(r, b)
<1>1. e \in ReviewRecord /\ e.run = r /\ e.by = b
  BY DEF Review, ReviewRecord
<1> HIDE DEF e
<1>2. /\ DOMAIN reviews = 1 .. Len(reviews) /\ Len(reviews) \in Nat
      /\ \A k \in DOMAIN reviews : reviews[k].run \in Runs /\ reviews[k].by \in {"live", "worker"}
  <2>1. reviews \in Seq(ReviewRecord)
    BY DEF ReviewInv, ReviewTypeOK
  <2>2. \A k \in DOMAIN reviews : reviews[k] \in ReviewRecord
    BY <2>1, SeqElements
  <2>3. DOMAIN reviews = 1 .. Len(reviews) /\ Len(reviews) \in Nat
    BY <2>1, SeqElements
  <2> QED BY <2>2, <2>3 DEF ReviewRecord
<1>3. /\ reviews' \in Seq(ReviewRecord) /\ DOMAIN reviews' = 1 .. Len(reviews) + 1
      /\ reviews'[Len(reviews) + 1] = e
      /\ \A i \in 1 .. Len(reviews) : reviews'[i] = reviews[i]
  <2>1. reviews \in Seq(ReviewRecord) /\ reviews' = Append(reviews, e)
    BY DEF ReviewInv, ReviewTypeOK, e
  <2> QED BY <1>1, <2>1, SeqAppend
<1>4. ReviewsAreLate'
  <2> SUFFICES ASSUME NEW i \in DOMAIN reviews'
               PROVE  turn'[reviews'[i].run] # "none" /\ (reviews'[i].by = "live" => turn'[reviews'[i].run] = "done")
    BY DEF ReviewsAreLate
  <2>1. CASE i \in 1 .. Len(reviews)
    BY <2>1, <1>2, <1>3 DEF ReviewInv, ReviewsAreLate
  <2>2. CASE i = Len(reviews) + 1
    BY <2>2, <1>1, <1>3
  <2> QED BY <2>1, <2>2, <1>2, <1>3
<1>5. ReviewedOnce'
  <2> SUFFICES ASSUME NEW i \in DOMAIN reviews', NEW j \in DOMAIN reviews', i < j,
                      reviews'[i].run = reviews'[j].run
               PROVE  reviews'[i].by = "worker" /\ reviews'[j].by = "live"
    BY DEF ReviewedOnce
  <2>1. i \in 1 .. Len(reviews) /\ (j \in 1 .. Len(reviews) \/ j = Len(reviews) + 1)
    BY <1>2, <1>3
  <2>2. CASE j \in 1 .. Len(reviews)
    BY <2>1, <2>2, <1>2, <1>3 DEF ReviewInv, ReviewedOnce
  <2>3. CASE j = Len(reviews) + 1
    <3>1. reviews[i].run = r /\ i \in DOMAIN reviews
      BY <2>1, <2>3, <1>1, <1>2, <1>3
    <3>2. b = "live"
      BY <3>1 DEF IsReviewed
    <3>3. reviews[i].by # "live"
      BY <3>1, <3>2 DEF ReviewInv, ReviewsAreLate
    <3> QED BY <2>1, <2>3, <3>1, <3>2, <3>3, <1>1, <1>2, <1>3
  <2> QED BY <2>1, <2>2, <2>3
<1>6. \A q \in Runs : IsReviewed(q) => IsReviewed(q)'
  BY <1>2, <1>3 DEF IsReviewed
<1>7. IsReviewed(r)'
  BY <1>1, <1>2, <1>3 DEF IsReviewed
<1> QED BY <1>3, <1>4, <1>5, <1>6, <1>7

\* The turns of runs move on, and nothing else but a live review changes.
LEMMA TurnInv ==
  ASSUME ReviewInv, NEW r \in Runs, StoreRun(r) \/ ReviewLive(r) \/ LeaveUnreviewed(r)
  PROVE  ReviewInv'
<1>1. /\ turn' \in [Runs -> {"none", "stored", "done"}]
      /\ \A q \in Runs : /\ turn[q] # "none" => turn'[q] # "none"
                         /\ turn[q] = "done" => turn'[q] = "done"
      /\ UNCHANGED <<lockVars, cycle, failures>>
  BY DEF ReviewInv, ReviewTypeOK, StoreRun, ReviewLive, LeaveUnreviewed
<1>2. /\ reviews' \in Seq(ReviewRecord) /\ ReviewsAreLate' /\ ReviewedOnce'
      /\ \A q \in Runs : IsReviewed(q) => IsReviewed(q)'
  <2>1. CASE ReviewLive(r)
    <3>1. reviews' = Append(reviews, Review(r, "live")) /\ turn[r] = "stored" /\ turn'[r] = "done"
      BY <2>1 DEF ReviewLive, ReviewInv, ReviewTypeOK
    <3> QED BY <1>1, <3>1, AppendedReview
  <2>2. CASE UNCHANGED reviews
    <3>1. \A i \in DOMAIN reviews : reviews[i].run \in Runs
      <4>1. reviews \in Seq(ReviewRecord)
        BY DEF ReviewInv, ReviewTypeOK
      <4>2. \A i \in DOMAIN reviews : reviews[i] \in ReviewRecord
        BY <4>1, SeqElements
      <4> QED BY <4>2 DEF ReviewRecord
    <3> QED BY <1>1, <2>2, <3>1 DEF ReviewInv, ReviewTypeOK, ReviewsAreLate, ReviewedOnce, IsReviewed
  <2> QED BY <2>1, <2>2 DEF StoreRun, LeaveUnreviewed
<1>3. \A w \in Worker : Owes(cycle[w])' /\ Through(w)'
  <2> SUFFICES ASSUME NEW w \in Worker PROVE Owes(cycle[w])' /\ Through(w)'
    OBVIOUS
  <2>1. cycle[w] \in CycleRecord /\ Owes(cycle[w]) /\ Through(w)
    BY DEF ReviewInv, ReviewTypeOK
  <2>2. Owes(cycle[w])'
    BY <1>1, <1>2, <2>1 DEF Owes, CycleRecord
  <2> QED BY <1>1, <2>1, <2>2 DEF Through, lockVars
<1> QED BY <1>1, <1>2, <1>3 DEF ReviewInv, ReviewTypeOK, TypeOK, lockVars

\* Where only the lock moves, no worker begins to release.
LEMMA LockInv ==
  ASSUME ReviewInv, TypeOK', UNCHANGED reviewVars,
         \A w \in Worker : job'[w].pc = "releasing" => job[w].pc = "releasing" \/ cycle[w].todo = {}
  PROVE  ReviewInv'
<1>1. UNCHANGED <<turn, reviews, cycle, failures>>
  BY DEF reviewVars
<1>2. ReviewTypeOK' /\ ReviewsAreLate' /\ ReviewedOnce'
  BY <1>1 DEF ReviewInv, ReviewTypeOK, ReviewsAreLate, ReviewedOnce
<1>3. \A w \in Worker : Owes(cycle[w])' /\ Through(w)'
  BY <1>1 DEF ReviewInv, Owes, Through, IsReviewed
<1> QED BY <1>2, <1>3 DEF ReviewInv

\* Where one cycle moves, it has to be said only what that cycle owes then.
LEMMA DoneInv ==
  ASSUME ReviewInv, TypeOK', turn' = turn, failures' \in Nat,
         reviews' \in Seq(ReviewRecord), ReviewsAreLate', ReviewedOnce',
         \A q \in Runs : IsReviewed(q) => IsReviewed(q)',
         NEW w \in Worker, NEW c \in CycleRecord, cycle' = [cycle EXCEPT ![w] = c],
         \A r \in c.todo : turn[r] # "none",
         ~ c.failed => \A r \in c.covered \ NoIntent : IsReviewed(r)' \/ r \in c.todo,
         job'[w].pc # "releasing",
         \A v \in Worker \ {w} : job'[v] = job[v]
  PROVE  ReviewInv'
<1>1. ReviewTypeOK'
  BY DEF ReviewInv, ReviewTypeOK
<1>2. ASSUME NEW v \in Worker PROVE Owes(cycle[v])' /\ Through(v)'
  <2>1. cycle'[v] = IF v = w THEN c ELSE cycle[v]
    BY DEF ReviewInv, ReviewTypeOK
  <2>2. CASE v = w
    <3>1. cycle'[v] = c
      BY <2>1, <2>2
    <3> QED BY <2>2, <3>1 DEF Owes, Through
  <2>3. CASE v # w
    <3>1. cycle'[v] = cycle[v] /\ cycle[v] \in CycleRecord /\ Owes(cycle[v]) /\ Through(v)
      BY <2>1, <2>3 DEF ReviewInv, ReviewTypeOK
    <3>2. \A r \in cycle[v].covered : r \in Runs
      BY <3>1 DEF CycleRecord
    <3> QED BY <2>3, <3>1, <3>2 DEF Owes, Through
  <2> QED BY <2>2, <2>3
<1> QED BY <1>1, <1>2 DEF ReviewInv

\* The same where reviews do not change.
LEMMA CycleInv ==
  ASSUME ReviewInv, TypeOK', UNCHANGED <<turn, reviews>>, failures' \in Nat,
         NEW w \in Worker, NEW c \in CycleRecord, cycle' = [cycle EXCEPT ![w] = c], Owes(c),
         job'[w].pc # "releasing",
         \A v \in Worker \ {w} : job'[v] = job[v]
  PROVE  ReviewInv'
<1>1. reviews' \in Seq(ReviewRecord) /\ ReviewsAreLate' /\ ReviewedOnce' /\ turn' = turn
  BY DEF ReviewInv, ReviewTypeOK, ReviewsAreLate, ReviewedOnce
<1>2. \A q : IsReviewed(q)' <=> IsReviewed(q)
  BY DEF IsReviewed
<1>3. /\ \A r \in c.todo : turn[r] # "none"
      /\ ~ c.failed => \A r \in c.covered \ NoIntent : IsReviewed(r)' \/ r \in c.todo
  BY <1>2 DEF Owes
<1> QED BY <1>1, <1>2, <1>3, DoneInv

\* A listing answers for what it found unreviewed, and for all of it unless
\* the limit is full.
LEMMA ListInv ==
  ASSUME ReviewInv, TypeOK', NEW w \in Worker, List(w)
  PROVE  ReviewInv'
<1> DEFINE todo == First(Limit, Unreviewed)
           c == [NoCycle EXCEPT !.listed = TRUE, !.todo = todo,
                                !.covered = IF Cardinality(todo) < Limit THEN Stored ELSE todo]
<1>1. Unreviewed \in SUBSET Runs /\ Stored \in SUBSET Runs /\ todo \subseteq Unreviewed /\ todo \in SUBSET Runs
  BY DEF Unreviewed, Stored, First
<1>2. NoCycle \in CycleRecord
  BY DEF NoCycle, CycleRecord
<1>3. c \in CycleRecord /\ c.todo = todo /\ c.covered = IF Cardinality(todo) < Limit THEN Stored ELSE todo
  BY <1>1, <1>2 DEF CycleRecord
<1>4. cycle' = [cycle EXCEPT ![w] = c]
  BY DEF List
<1> HIDE DEF c
<1>5. \A r \in todo : turn[r] # "none"
  BY <1>1 DEF Unreviewed, Stored
<1>6. ASSUME NEW r \in c.covered PROVE IsReviewed(r) \/ r \in todo
  <2>1. CASE Cardinality(todo) < Limit
    <3>1. todo = Unreviewed
      BY <2>1, <1>1, FirstIsAll, ReviewAssumption
    <3> QED BY <2>1, <3>1, <1>3 DEF Unreviewed
  <2>2. CASE ~ (Cardinality(todo) < Limit)
    BY <2>2, <1>3
  <2> QED BY <2>1, <2>2
<1>7. Owes(c)
  BY <1>3, <1>5, <1>6 DEF Owes
<1>8. job[w].pc = "working" /\ UNCHANGED <<job, turn, reviews, failures>>
  BY DEF List, Working, lockVars
<1> QED BY <1>3, <1>4, <1>7, <1>8, CycleInv DEF ReviewInv, ReviewTypeOK

\* The run a cycle is at is one it listed.
LEMMA AtRunIsStored ==
  ASSUME ReviewInv, NEW w \in Worker, AtRun(w)
  PROVE  /\ cycle[w] \in CycleRecord /\ Owes(cycle[w])
         /\ NextRun(w) \in cycle[w].todo /\ NextRun(w) \in Runs /\ turn[NextRun(w)] # "none"
         /\ job[w].pc = "working"
<1>1. cycle[w] \in CycleRecord /\ Owes(cycle[w])
  BY DEF ReviewInv, ReviewTypeOK
<1>2. cycle[w].todo \in SUBSET Nat /\ cycle[w].todo # {} /\ cycle[w].todo \subseteq Runs
  BY <1>1 DEF AtRun, CycleRecord, Runs
<1>3. NextRun(w) \in cycle[w].todo
  BY <1>2, OldestIsThere DEF NextRun
<1> QED BY <1>1, <1>2, <1>3 DEF Owes, AtRun, Working

\* A run that is done is reviewed, or has no intent.
LEMMA ReviewNextInv ==
  ASSUME ReviewInv, NEW w \in Worker, ReviewNext(w)
  PROVE  ReviewInv'
<1>run. PICK r : r = NextRun(w)
  OBVIOUS
<1> DEFINE c == [cycle[w] EXCEPT !.todo = @ \ {r}]
<1>1. AtRun(w)
  BY DEF ReviewNext
<1>2. /\ cycle[w] \in CycleRecord /\ Owes(cycle[w])
      /\ r \in cycle[w].todo /\ r \in Runs /\ turn[r] # "none" /\ job[w].pc = "working"
  BY <1>run, <1>1, AtRunIsStored
<1>3. /\ cycle' = [cycle EXCEPT ![w] = c]
      /\ UNCHANGED <<lockVars, turn, failures>>
  BY <1>run DEF ReviewNext, Reviewed, ReviewInv, ReviewTypeOK
<1>4. c \in CycleRecord /\ c.todo = cycle[w].todo \ {r} /\ c.covered = cycle[w].covered /\ c.failed = cycle[w].failed
  BY <1>2 DEF CycleRecord
<1>5. \/ reviews' = reviews /\ (r \in NoIntent \/ IsReviewed(r))
      \/ reviews' = Append(reviews, Review(r, "worker")) /\ ~ IsReviewed(r)
  BY <1>run DEF ReviewNext
<1>6. turn' \in [Runs -> {"none", "stored", "done"}] /\ turn' = turn
  BY <1>3 DEF ReviewInv, ReviewTypeOK
<1> HIDE DEF c
<1>7. /\ reviews' \in Seq(ReviewRecord) /\ ReviewsAreLate' /\ ReviewedOnce'
      /\ \A q \in Runs : IsReviewed(q) => IsReviewed(q)'
      /\ r \notin NoIntent => IsReviewed(r)'
  <2>1. CASE reviews' = reviews /\ (r \in NoIntent \/ IsReviewed(r))
    BY <2>1, <1>6 DEF ReviewInv, ReviewTypeOK, ReviewsAreLate, ReviewedOnce, IsReviewed
  <2>2. CASE reviews' = Append(reviews, Review(r, "worker")) /\ ~ IsReviewed(r)
    <3>1. \A q \in Runs : /\ turn[q] # "none" => turn'[q] # "none"
                          /\ turn[q] = "done" => turn'[q] = "done"
      BY <1>6
    <3>2. r \in Runs /\ turn[r] # "none" /\ "worker" # "live"
      BY <1>2
    <3> QED BY <2>2, <3>1, <3>2, <1>6, AppendedReview
  <2> QED BY <2>1, <2>2, <1>5
<1>8. /\ \A q \in c.todo : turn[q] # "none"
      /\ ~ c.failed => \A q \in c.covered \ NoIntent : IsReviewed(q)' \/ q \in c.todo
  <2>1. \A q \in cycle[w].covered : q \in Runs
    BY <1>2 DEF CycleRecord
  <2> QED BY <2>1, <1>2, <1>4, <1>7 DEF Owes
<1>9. TypeOK' /\ failures' \in Nat /\ job'[w].pc # "releasing" /\ \A v \in Worker \ {w} : job'[v] = job[v]
  BY <1>2, <1>3 DEF ReviewInv, ReviewTypeOK, TypeOK, lockVars
<1> QED BY <1>3, <1>4, <1>6, <1>7, <1>8, <1>9, DoneInv

\* A cycle that failed owes nothing more.
LEMMA ReviewFailsInv ==
  ASSUME ReviewInv, NEW w \in Worker, ReviewFails(w)
  PROVE  ReviewInv'
<1> DEFINE c == [cycle[w] EXCEPT !.todo = @ \ {NextRun(w)}, !.failed = TRUE]
<1>1. AtRun(w)
  BY DEF ReviewFails
<1>2. cycle[w] \in CycleRecord /\ Owes(cycle[w]) /\ job[w].pc = "working"
  BY <1>1, AtRunIsStored
<1>3. cycle' = [cycle EXCEPT ![w] = c]
  BY <1>2 DEF ReviewFails, Reviewed, ReviewInv, ReviewTypeOK
<1>4. c \in CycleRecord /\ c.todo \subseteq cycle[w].todo /\ c.failed
  BY <1>2 DEF CycleRecord
<1> HIDE DEF c
<1>5. Owes(c)
  BY <1>2, <1>4 DEF Owes
<1>6. TypeOK' /\ failures' \in Nat /\ UNCHANGED <<job, turn, reviews>>
  BY DEF ReviewFails, lockVars, TypeOK, ReviewInv, ReviewTypeOK
<1> QED BY <1>2, <1>3, <1>4, <1>5, <1>6, CycleInv

\* A cycle that is over owes nothing.
LEMMA ForgetInv ==
  ASSUME ReviewInv, TypeOK', NEW w \in Worker, EndReport(w) \/ CrashWorker(w)
  PROVE  ReviewInv'
<1>1. NoCycle \in CycleRecord /\ Owes(NoCycle)
  BY DEF NoCycle, CycleRecord, Owes
<1>2. /\ cycle' = [cycle EXCEPT ![w] = NoCycle] /\ UNCHANGED <<turn, reviews, failures>>
      /\ job' = [job EXCEPT ![w] = IdleJob]
  BY DEF EndReport, CrashWorker, Release, Crash
<1>3. job'[w].pc # "releasing" /\ \A v \in Worker \ {w} : job'[v] = job[v]
  BY <1>2 DEF IdleJob, ReviewInv, TypeOK
<1> QED BY <1>1, <1>2, <1>3, CycleInv DEF ReviewInv, ReviewTypeOK

\* Nothing is stored, reviewed or listed at first.
LEMMA ReviewInitInv == MonitorInit => ReviewInv
<1> SUFFICES ASSUME MonitorInit PROVE ReviewInv
  OBVIOUS
<1>1. TypeOK
  BY InitType DEF MonitorInit
<1>2. NoCycle \in CycleRecord /\ NoCycle.todo = {} /\ NoCycle.covered = {}
  BY DEF NoCycle, CycleRecord
<1>3. ReviewTypeOK
  BY <1>2 DEF MonitorInit, ReviewTypeOK
<1>4. ReviewsAreLate /\ ReviewedOnce
  BY DEF MonitorInit, ReviewsAreLate, ReviewedOnce
<1>5. ASSUME NEW w \in Worker PROVE Owes(cycle[w]) /\ Through(w)
  BY <1>2 DEF MonitorInit, Owes, Through
<1> QED BY <1>1, <1>3, <1>4, <1>5 DEF ReviewInv

\* Every step of the turns, the workers and the clock keeps the invariant.
LEMMA ReviewStepInv == ReviewInv /\ [MonitorNext]_monitorVars => ReviewInv'
<1> SUFFICES ASSUME ReviewInv, [MonitorNext]_monitorVars PROVE ReviewInv'
  OBVIOUS
<1>type. TypeOK'
  BY LockMoves, StepType DEF ReviewInv
<1>job. job \in [Worker -> Job]
  BY DEF ReviewInv, TypeOK
<1>1. ASSUME NEW r \in Runs, StoreRun(r) \/ ReviewLive(r) \/ LeaveUnreviewed(r) PROVE ReviewInv'
  BY <1>1, TurnInv
<1>2. ASSUME NEW w \in Worker, StartCycle(w) \/ Granted(w) \/ SkipCycle(w) \/ LockIsBusy(w)
      PROVE  ReviewInv'
  <2>1. UNCHANGED reviewVars
    BY <1>2 DEF StartCycle, Granted, SkipCycle, LockIsBusy
  <2>2. job'[w].pc # "releasing" /\ \A v \in Worker \ {w} : job'[v] = job[v]
    <3>1. IdleJob.pc = "idle" /\ [IdleJob EXCEPT !.pc = "waiting"].pc = "waiting"
      BY DEF IdleJob
    <3>2. \E j : job' = [job EXCEPT ![w] = j] /\ j.pc # "releasing"
      <4>1. CASE StartCycle(w)
        BY <4>1, <3>1 DEF StartCycle, Request
      <4>2. CASE Granted(w)
        <5> DEFINE j == [pc |-> "working", age |-> 0, left |-> WorkBound]
        <5>1. job' = [job EXCEPT ![w] = j] /\ j.pc = "working"
          BY <4>2 DEF Granted, Acquire
        <5> QED BY <5>1
      <4>3. CASE SkipCycle(w) \/ LockIsBusy(w)
        BY <4>3, <3>1 DEF SkipCycle, LockIsBusy, Conflict, BusyTimeout
      <4> QED BY <1>2, <4>1, <4>2, <4>3
    <3> QED BY <3>2, <1>job
  <2> QED BY <1>type, <2>1, <2>2, LockInv
<1>3. ASSUME NEW w \in Worker, List(w) PROVE ReviewInv'
  BY <1>3, <1>type, ListInv
<1>4. ASSUME NEW w \in Worker, ReviewNext(w) PROVE ReviewInv'
  BY <1>4, ReviewNextInv
<1>5. ASSUME NEW w \in Worker, ReviewFails(w) PROVE ReviewInv'
  BY <1>5, ReviewFailsInv
<1>6. ASSUME NEW w \in Worker, EndCycle(w) PROVE ReviewInv'
  <2>1. cycle[w].todo = {} /\ \A v \in Worker \ {w} : job'[v] = job[v]
    BY <1>6, <1>job DEF EndCycle, FinishWork
  <2> QED BY <1>6, <1>type, <2>1, LockInv DEF EndCycle
<1>7. ASSUME NEW w \in Worker, EndReport(w) \/ CrashWorker(w) PROVE ReviewInv'
  BY <1>7, <1>type, ForgetInv
<1>8. CASE TimePasses
  <2>1. \A w \in Worker : Aged(job[w]).pc = job[w].pc
    BY <1>8, <1>job, AgedIsJob DEF TimePasses, Tick, Holding
  <2>2. \A w \in Worker : job'[w].pc = job[w].pc
    BY <1>8, <2>1 DEF TimePasses, Tick
  <2> QED BY <1>8, <1>type, <2>2, LockInv DEF TimePasses
<1>9. CASE UNCHANGED monitorVars
  BY <1>9, <1>type, LockInv DEF monitorVars, lockVars
<1> QED
  BY <1>1, <1>2, <1>3, <1>4, <1>5, <1>6, <1>7, <1>8, <1>9 DEF MonitorNext

\* The invariant holds in every behaviour.
LEMMA ReviewAlways == MonitorSpec => []ReviewInv
BY ReviewInitInv, ReviewStepInv, PTL DEF MonitorSpec

\* The records of the review service keep their types.
THEOREM MonitorTypeCorrect == MonitorSpec => []MonitorTypeOK
<1>1. ReviewInv => MonitorTypeOK
  BY DEF ReviewInv, ReviewTypeOK, MonitorTypeOK, ReviewRecord, CycleRecord
<1> QED BY <1>1, ReviewAlways, PTL

\* A run is reviewed once, or by a worker before its own turn does, however
\* many cycles overlap (event_store.py:544).
THEOREM RunsAreReviewedOnce == MonitorSpec => []ReviewedOnce
<1>1. ReviewInv => ReviewedOnce
  BY DEF ReviewInv
<1> QED BY <1>1, ReviewAlways, PTL

\* A cycle that reports success has left no run that it answers for unreviewed
\* (monitor_review_service.py:106), without any help from the lock.
THEOREM SuccessCanBeRelied == MonitorSpec => SuccessIsReviewed
<1>1. ReviewInv => \A w \in Worker :
        EndReport(w) /\ Outcome(cycle[w]) = "success" => \A r \in cycle[w].covered \ NoIntent : IsReviewed(r)
  BY DEF ReviewInv, Owes, Through, EndReport, Release, Outcome
<1> QED BY <1>1, ReviewAlways, PTL DEF MonitorSpec, SuccessIsReviewed

\* The review workers never take the lock from one another while it has time
\* left, if their owner ids differ: what OperationLock promises its users.
THEOREM ReviewersDoNotSteal ==
  ASSUME \A v, w \in Worker : Owner[v] = Owner[w] => v = w
  PROVE  MonitorSpec => NoTheft
<1>1. Spec => NoTheft
  BY LockIsNotStolen
<1> QED BY <1>1, UsesTheLock, PTL
=============================================================================
