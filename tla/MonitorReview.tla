---------------------------- MODULE MonitorReview ----------------------------
(***************************************************************************)
(* Who reviews a completed run: the turn itself, right after it has stored *)
(* the run (_finalize, agent/orchestrator.py), and the cycles of the       *)
(* review workers (monitoring/monitor_review_service.py,                   *)
(* scripts/monitor_review_worker.py), which look for runs without a review *)
(* under the lock "monitor_review_worker" of OperationLock and report what *)
(* came of it in their heartbeat rows, which nothing here reads.           *)
(*                                                                         *)
(* A cycle may outlast the lease of its lock, and then meets another one.  *)
(* A run is told by its place in the order of created_at; runs may be      *)
(* committed in any order.                                                 *)
(***************************************************************************)
EXTENDS OperationLock, Sequences

CONSTANTS
  MaxRuns,       \* bound: completed runs
  NoIntent,      \* the runs whose trace has no intent
  Limit,         \* --limit
  MaxFailures    \* bound: reviews that raise

Runs == 1 .. MaxRuns
ASSUME ReviewAssumption ==
  MaxRuns \in Nat /\ NoIntent \subseteq Runs /\ Limit \in Nat \ {0} /\ MaxFailures \in Nat

VARIABLES
  turn,      \* run -> where the turn that makes it is
  reviews,   \* the monitor.reviewed rows, in the order of their commits
  cycle,     \* worker -> its cycle; covered: the runs its report answers for
  failures   \* reviews that raised so far

reviewVars == <<turn, reviews, cycle, failures>>
monitorVars == <<lockVars, reviewVars>>

Review(r, b) == [run |-> r, by |-> b]
IsReviewed(r) == \E i \in DOMAIN reviews : reviews[i].run = r
Stored        == {r \in Runs : turn[r] # "none"}
Unreviewed    == {r \in Stored : ~ IsReviewed(r)}

\* order by created_at asc limit ?
First(n, S) == {r \in S : Cardinality({q \in S : q < r}) < n}
Oldest(S)   == CHOOSE r \in S : \A q \in S : r <= q

NoCycle == [listed |-> FALSE, todo |-> {}, failed |-> FALSE, covered |-> {}]

-----------------------------------------------------------------------------
(* The turn: append_agent_run, then monitor.review and append_monitor_event. *)

StoreRun(r) ==
  /\ turn[r] = "none"
  /\ turn' = [turn EXCEPT ![r] = "stored"]
  /\ UNCHANGED <<lockVars, reviews, cycle, failures>>

ReviewLive(r) ==
  /\ turn[r] = "stored" /\ r \notin NoIntent
  /\ turn' = [turn EXCEPT ![r] = "done"]
  /\ reviews' = Append(reviews, Review(r, "live"))
  /\ UNCHANGED <<lockVars, cycle, failures>>

\* No monitor, an append that raises, or a process that dies.
LeaveUnreviewed(r) ==
  /\ turn[r] = "stored"
  /\ turn' = [turn EXCEPT ![r] = "done"]
  /\ UNCHANGED <<lockVars, reviews, cycle, failures>>

-----------------------------------------------------------------------------
(* The cycle of a worker. *)

StartCycle(w) == Request(w)    /\ UNCHANGED reviewVars
Granted(w)    == Acquire(w)    /\ UNCHANGED reviewVars
SkipCycle(w)  == Conflict(w)   /\ UNCHANGED reviewVars
LockIsBusy(w) == BusyTimeout(w) /\ UNCHANGED reviewVars

(***************************************************************************)
(* list_unreviewed_agent_runs.  A cycle that fills its limit answers for   *)
(* the runs it listed, any other for all that were there.                  *)
(***************************************************************************)
List(w) ==
  /\ Working(w) /\ ~ cycle[w].listed
  /\ LET todo == First(Limit, Unreviewed) IN
     cycle' = [cycle EXCEPT ![w] =
       [NoCycle EXCEPT !.listed = TRUE, !.todo = todo,
                       !.covered = IF Cardinality(todo) < Limit THEN Stored ELSE todo]]
  /\ UNCHANGED <<lockVars, turn, reviews, failures>>

NextRun(w) == Oldest(cycle[w].todo)
Reviewed(w) == [cycle EXCEPT ![w].todo = @ \ {NextRun(w)}]
AtRun(w) == Working(w) /\ cycle[w].todo # {}

\* A fault: the listing is trusted.
ReviewAsListed(w) ==
  /\ AtRun(w)
  /\ cycle' = Reviewed(w)
  /\ reviews' = IF NextRun(w) \in NoIntent THEN reviews
                ELSE Append(reviews, Review(NextRun(w), "worker"))
  /\ UNCHANGED <<lockVars, turn, failures>>

\* A fault: a run that cannot be reviewed ends the cycle.
ReviewToFirstOdd(w) ==
  /\ AtRun(w)
  /\ cycle' = IF NextRun(w) \in NoIntent THEN [cycle EXCEPT ![w].todo = {}] ELSE Reviewed(w)
  /\ reviews' = IF NextRun(w) \in NoIntent \/ IsReviewed(NextRun(w)) THEN reviews
                ELSE Append(reviews, Review(NextRun(w), "worker"))
  /\ UNCHANGED <<lockVars, turn, failures>>

\* append_monitor_event_if_absent: the look and the insert are one transaction.
ReviewNext(w) ==
  /\ AtRun(w)
  /\ cycle' = Reviewed(w)
  /\ reviews' = IF NextRun(w) \in NoIntent \/ IsReviewed(NextRun(w)) THEN reviews
                ELSE Append(reviews, Review(NextRun(w), "worker"))
  /\ UNCHANGED <<lockVars, turn, failures>>

\* A fault: the failure is counted and the status stays.
ReviewFailsQuietly(w) ==
  /\ AtRun(w) /\ NextRun(w) \notin NoIntent /\ failures < MaxFailures
  /\ cycle' = Reviewed(w)
  /\ failures' = failures + 1
  /\ UNCHANGED <<lockVars, turn, reviews>>

\* Whatever a run's review raises is counted, and the next one is reviewed.
ReviewFails(w) ==
  /\ AtRun(w) /\ NextRun(w) \notin NoIntent /\ failures < MaxFailures
  /\ cycle' = [Reviewed(w) EXCEPT ![w].failed = TRUE]
  /\ failures' = failures + 1
  /\ UNCHANGED <<lockVars, turn, reviews>>

EndCycle(w) ==
  /\ FinishWork(w) /\ cycle[w].listed /\ cycle[w].todo = {}
  /\ UNCHANGED reviewVars

\* The cycle_status of the heartbeat.
Outcome(c) == IF c.failed THEN "partial_failure" ELSE "success"

\* The lock is released and the cycle reported.
EndReport(w) ==
  /\ Release(w)
  /\ cycle' = [cycle EXCEPT ![w] = NoCycle]
  /\ UNCHANGED <<turn, reviews, failures>>

\* The worker is killed, or its listing or its release raises.
CrashWorker(w) ==
  /\ Crash(w)
  /\ cycle' = [cycle EXCEPT ![w] = NoCycle]
  /\ UNCHANGED <<turn, reviews, failures>>

TimePasses == Tick /\ UNCHANGED reviewVars

MonitorInit ==
  /\ Init
  /\ turn = [r \in Runs |-> "none"] /\ reviews = << >> /\ failures = 0
  /\ cycle = [w \in Worker |-> NoCycle]

MonitorNext ==
  \/ \E r \in Runs : StoreRun(r) \/ ReviewLive(r) \/ LeaveUnreviewed(r)
  \/ \E w \in Worker :
       \/ StartCycle(w) \/ Granted(w) \/ SkipCycle(w) \/ LockIsBusy(w)
       \/ List(w) \/ ReviewNext(w) \/ ReviewFails(w)
       \/ EndCycle(w) \/ EndReport(w) \/ CrashWorker(w)
  \/ TimePasses

MonitorSpec == MonitorInit /\ [][MonitorNext]_monitorVars

(***************************************************************************)
(* Time passes, a cycle goes on, and a worker with --interval-seconds is   *)
(* started again by its supervisor (docker-compose.yml:69) and by its own  *)
(* loop; the grant is strongly fair as in OperationLock.                   *)
(***************************************************************************)
MonitorFairness ==
  /\ WF_monitorVars(TimePasses)
  /\ \A w \in Worker :
       /\ SF_monitorVars(Granted(w)) /\ WF_monitorVars(SkipCycle(w))
       /\ WF_monitorVars(List(w)) /\ WF_monitorVars(ReviewNext(w))
       /\ WF_monitorVars(EndCycle(w)) /\ WF_monitorVars(EndReport(w))
  /\ \A w \in Periodic : WF_monitorVars(StartCycle(w))

FairMonitorSpec == MonitorSpec /\ MonitorFairness

-----------------------------------------------------------------------------
(* Properties *)

MonitorTypeOK ==
  /\ TypeOK
  /\ turn \in [Runs -> {"none", "stored", "done"}]
  /\ reviews \in Seq([run : Runs, by : {"live", "worker"}])
  /\ cycle \in [Worker -> [listed : BOOLEAN, todo : SUBSET Runs, failed : BOOLEAN, covered : SUBSET Runs]]
  /\ failures \in Nat

(***************************************************************************)
(* A run is counted in the alerts once: two cycles that meet because one   *)
(* outlasted its lease never review a run twice, and the only run with two *)
(* reviews is one that a worker found between the two appends of its turn  *)
(* (orchestrator.py:359 and :369); then the worker's review is the first.  *)
(***************************************************************************)
ReviewedOnce ==
  \A i, j \in DOMAIN reviews :
    i < j /\ reviews[i].run = reviews[j].run =>
      reviews[i].by = "worker" /\ reviews[j].by = "live"

(***************************************************************************)
(* A heartbeat that reports a successful cycle can be relied upon: every   *)
(* run the cycle answers for has a review, unless it has no intent, also   *)
(* when other cycles overlapped (event_store.py:1503).                     *)
(***************************************************************************)
SuccessIsReviewed ==
  [][\A w \in Worker :
       EndReport(w) /\ Outcome(cycle[w]) = "success" =>
         \A r \in cycle[w].covered \ NoIntent : IsReviewed(r)]_monitorVars

(***************************************************************************)
(* As long as the runs without intent do not fill the limit, every stored  *)
(* run is reviewed in the end, whatever crashes, however long cycles last  *)
(* and whichever reviews raise.                                            *)
(***************************************************************************)
EveryRunIsReviewed ==
  Cardinality(NoIntent) < Limit =>
    \A r \in Runs \ NoIntent : turn[r] # "none" ~> IsReviewed(r)
=============================================================================
