---------------------------- MODULE OperationLock ----------------------------
(***************************************************************************)
(* The lease table event_store_operation_locks (memory/event_store.py) and *)
(* the processes that take one lock name of it: API maintenance requests,  *)
(* event_store_ops.py, the audit export worker, or the monitor review      *)
(* workers.  A lock is never renewed: event_store_operation_lock takes it, *)
(* runs the operation, and releases it in its finally clause.              *)
(*                                                                         *)
(* A process reads its clock first and waits for SQLite's write lock       *)
(* afterwards, for busy_timeout at most, so the clock it compares and      *)
(* stores is up to BusyWait old.  Time is kept as the ticks that remain:   *)
(* lock.left is expires_at minus now, and is negative once it has expired. *)
(***************************************************************************)
EXTENDS Integers, FiniteSets

CONSTANTS
  Worker,     \* processes that take the lock
  Owner,      \* the owner_id each of them passes; need not be distinct
  Periodic,   \* the workers that try again at every cycle
  Ttl,        \* APP_EVENT_STORE_OPERATION_LOCK_TTL_SECONDS
  BusyWait,   \* SQLITE_BUSY_TIMEOUT_MS
  WorkBound,  \* the ticks an operation runs under the lock at most
  MaxCrashes  \* bound: processes killed, or whose release fails

NoOwner == "none"

ASSUME LockAssumption ==
  /\ Periodic \subseteq Worker
  /\ Ttl \in Nat \ {0} /\ BusyWait \in Nat /\ WorkBound \in Nat
  /\ MaxCrashes \in Nat
  /\ NoOwner \notin {Owner[w] : w \in Worker}

VARIABLES
  lock,    \* the row of the lock name; NoLock when there is none
  job,     \* worker -> where its operation is
  crashes  \* crashes so far

lockVars == <<lock, job, crashes>>

\* pc, the age of the clock reading it waits with, the ticks it may still take.
Job  == [pc : {"idle", "waiting", "working", "releasing"},
         age : 0 .. BusyWait, left : Nat]
Lock == [owner : {NoOwner} \cup {Owner[w] : w \in Worker}, left : -BusyWait .. Ttl]

NoLock  == [owner |-> NoOwner, left |-> 0]
IdleJob == [pc |-> "idle", age |-> 0, left |-> 0]

Working(w) == job[w].pc = "working"
Holding(w) == job[w].pc \in {"working", "releasing"}

-----------------------------------------------------------------------------
Init ==
  /\ lock = NoLock
  /\ job = [w \in Worker |-> IdleJob]
  /\ crashes = 0

\* acquire_event_store_operation_lock reads utc_now() and opens its transaction.
Request(w) ==
  /\ job[w].pc = "idle"
  /\ job' = [job EXCEPT ![w] = [IdleJob EXCEPT !.pc = "waiting"]]
  /\ UNCHANGED <<lock, crashes>>

\* Faults a later run plants: no expiry, one before its time, and a lock that
\* its owner_id may take again.
NeverExpires(w) == lock.owner = NoOwner
ExpiresEarly(w) == lock.owner = NoOwner \/ lock.left + job[w].age <= 1
FreeToOwner(w)  == lock.owner \in {NoOwner, Owner[w]} \/ lock.left + job[w].age <= 0

\* No row, or one with expires_at <= the clock reading w came with.
Free(w) == lock.owner = NoOwner \/ lock.left + job[w].age <= 0

\* The transaction deletes the expired row and inserts w's own.
Acquire(w) ==
  /\ job[w].pc = "waiting"
  /\ Free(w)
  /\ lock' = [owner |-> Owner[w], left |-> Ttl - job[w].age]
  /\ job' = [job EXCEPT ![w] = [pc |-> "working", age |-> 0, left |-> WorkBound]]
  /\ UNCHANGED crashes

\* EventStoreOperationLockConflict: the request is rejected, a worker's cycle
\* skipped.
Conflict(w) ==
  /\ job[w].pc = "waiting"
  /\ ~Free(w)
  /\ job' = [job EXCEPT ![w] = IdleJob]
  /\ UNCHANGED <<lock, crashes>>

\* begin immediate gives up with "database is locked".
BusyTimeout(w) ==
  /\ job[w].pc = "waiting"
  /\ job[w].age = BusyWait
  /\ job' = [job EXCEPT ![w] = IdleJob]
  /\ UNCHANGED <<lock, crashes>>

\* The body of the with statement ends, or raises.
FinishWork(w) ==
  /\ Working(w)
  /\ job' = [job EXCEPT ![w] = [pc |-> "releasing", age |-> 0, left |-> BusyWait]]
  /\ UNCHANGED <<lock, crashes>>

\* A fault a later run plants: a delete without owner_id.
ReleaseAny(w) ==
  /\ job[w].pc = "releasing"
  /\ lock' = NoLock
  /\ job' = [job EXCEPT ![w] = IdleJob]
  /\ UNCHANGED crashes

\* release_event_store_operation_lock deletes the row with w's owner_id, if any.
Release(w) ==
  /\ job[w].pc = "releasing"
  /\ lock' = IF lock.owner = Owner[w] THEN NoLock ELSE lock
  /\ job' = [job EXCEPT ![w] = IdleJob]
  /\ UNCHANGED crashes

\* The process is killed, or its release fails: the row stays until it expires.
Crash(w) ==
  /\ job[w].pc # "idle"
  /\ crashes < MaxCrashes
  /\ crashes' = crashes + 1
  /\ job' = [job EXCEPT ![w] = IdleJob]
  /\ UNCHANGED lock

\* A lock this long expired is expired for every clock reading in use.
Elapsed(l) == IF l.owner # NoOwner /\ l.left > -BusyWait
              THEN [l EXCEPT !.left = l.left - 1] ELSE l

Aged(j) == CASE j.pc = "waiting" -> [j EXCEPT !.age = j.age + 1]
             [] j.pc \in {"working", "releasing"} -> [j EXCEPT !.left = j.left - 1]
             [] OTHER -> j

Tick ==
  /\ \A w \in Worker : /\ job[w].pc = "waiting" => job[w].age < BusyWait
                       /\ Holding(w) => job[w].left > 0
  /\ lock' = Elapsed(lock)
  /\ job' = [w \in Worker |-> Aged(job[w])]
  /\ UNCHANGED crashes

Next ==
  \/ \E w \in Worker :
       \/ Request(w) \/ Acquire(w) \/ Conflict(w) \/ BusyTimeout(w)
       \/ FinishWork(w) \/ Release(w) \/ Crash(w)
  \/ Tick

Spec == Init /\ [][Next]_lockVars

\* Time passes, a process goes on with what it has begun, and a periodic
\* worker starts its next cycle; nobody else has to ask for the lock again.
\* SQLite's write lock is held for moments only, so a process does not run into
\* its busy timeout for ever: the grant is strongly fair.
Fairness ==
  /\ WF_lockVars(Tick)
  /\ \A w \in Worker : /\ SF_lockVars(Acquire(w)) /\ WF_lockVars(Conflict(w))
                       /\ WF_lockVars(FinishWork(w)) /\ WF_lockVars(Release(w))
  /\ \A w \in Periodic : WF_lockVars(Request(w))

FairSpec == Spec /\ Fairness

-----------------------------------------------------------------------------
\* The lease outlasts the operation and the waits for SQLite around it.
Timely == Ttl > WorkBound + 2 * BusyWait

TypeOK ==
  /\ lock \in Lock
  /\ job \in [Worker -> Job]
  /\ crashes \in Nat

\* No two processes run an operation under the same lock name
\* (main.py:7128, 7231, 7355; export_batch.py:116; monitor_review_service.py:117).
OneAtATime == \A v, w \in Worker : Working(v) /\ Working(w) => v = w

\* From the insert of its lock to the delete, the row in the table is the
\* holder's and has not expired, so no other request can be granted
\* (event_store.py:2884-2900); processes may share an owner_id.
LockCoversWork ==
  \A w \in Worker : Holding(w) => lock.owner = Owner[w] /\ lock.left > 0

\* Even when operations outlast their lease, no lock that has time left is
\* taken away from a running operation: a late release of one process must not
\* delete the row of the next (event_store.py:2919-2927).
NoTheft ==
  [][\A w \in Worker :
        /\ Working(w) /\ lock.owner = Owner[w]
        /\ lock'.owner # Owner[w]
        => lock.left <= 0]_lockVars

\* A crashed holder does not end maintenance: again and again some operation is
\* granted the lock (event_store.py:2884-2890).
LockIsGrantedAgain == []<>(\E w \in Worker : Working(w))
=============================================================================
