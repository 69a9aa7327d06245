------------------------------ MODULE EvalGate ------------------------------
(***************************************************************************)
(* The staging eval gate (_run_staging_eval_gate, api/main.py): its suites *)
(* run one after the other, each leaves a record in the event log, and the *)
(* last row of a run is the aggregate of its records, which the promotion  *)
(* gate looks for.  Runs of several admins overlap; a process that stops,  *)
(* or an append that raises, leaves a run without its aggregate.           *)
(***************************************************************************)
EXTENDS Naturals, Sequences, SequencesExt

CONSTANTS
  GateRun,    \* runs of the staging gate
  Suites      \* how many suites a run has

ASSUME EvalAssumption == Suites \in Nat \ {0}

VARIABLES
  suites,      \* run -> the statuses of its records
  dropped,     \* runs that ended without an aggregate
  aggregates   \* the aggregate records, in the order of the log

evalVars == <<suites, dropped, aggregates>>

Outcome == {"passed", "failed", "error"}
NoAggregate == [run |-> "none", status |-> "none"]
Aggregated(g) == \E i \in DOMAIN aggregates : aggregates[i].run = g

\* A fault: only suites that reported count.
AggregateOfReports(records) ==
  IF \E i \in DOMAIN records : records[i] = "failed" THEN "failed" ELSE "passed"

\* The status of _aggregate_eval_gate_record.
AggregateOf(records) ==
  IF \E i \in DOMAIN records : records[i] = "error" THEN "error"
  ELSE IF \E i \in DOMAIN records : records[i] = "failed" THEN "failed" ELSE "passed"

\* A suite passes, fails or raises, which is recorded as an error.
RunSuite(g, status) ==
  /\ g \notin dropped /\ Len(suites[g]) < Suites
  /\ suites' = [suites EXCEPT ![g] = Append(@, status)]
  /\ UNCHANGED <<dropped, aggregates>>

Aggregate(g) ==
  /\ g \notin dropped /\ Len(suites[g]) = Suites /\ ~ Aggregated(g)
  /\ aggregates' = Append(aggregates, [run |-> g, status |-> AggregateOf(suites[g])])
  /\ UNCHANGED <<suites, dropped>>

Drop(g) ==
  /\ g \notin dropped /\ ~ Aggregated(g)
  /\ dropped' = dropped \cup {g}
  /\ UNCHANGED <<suites, aggregates>>

\* _latest_promotion_eval_gate: order by created_at desc, rowid desc limit 1.
LatestAggregate == IF aggregates = << >> THEN NoAggregate ELSE Last(aggregates)

EvalInit ==
  /\ suites = [g \in GateRun |-> << >>]
  /\ dropped = {}
  /\ aggregates = << >>

EvalNext ==
  \E g \in GateRun :
    \/ \E status \in Outcome : RunSuite(g, status)
    \/ Aggregate(g) \/ Drop(g)

EvalSpec == EvalInit /\ [][EvalNext]_evalVars

EvalTypeOK ==
  /\ suites \in [GateRun -> Seq(Outcome)]
  /\ dropped \subseteq GateRun
  /\ aggregates \in Seq([run : GateRun, status : Outcome])

(***************************************************************************)
(* The gate that promotions rely on is passed only by a run all of whose   *)
(* suites ran and passed, and not by one that was cut short or in which a  *)
(* suite raised: the aggregate is made of the records the run collected,   *)
(* after the last of them (main.py:4356-4442, 4589-4607).                  *)
(***************************************************************************)
PassedMeansAllPassed ==
  \A i \in DOMAIN aggregates :
    aggregates[i].status = "passed" =>
      suites[aggregates[i].run] = [j \in 1 .. Suites |-> "passed"]
=============================================================================
