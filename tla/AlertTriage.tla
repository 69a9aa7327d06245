---------------------------- MODULE AlertTriage ----------------------------
(***************************************************************************)
(* One monitor alert: the monitor.reviewed rows that share its key, the    *)
(* triage events of its operators, the state both are folded into          *)
(* (summarize_monitor_events and apply_monitor_triage, monitoring/         *)
(* monitor.py), what is made of it (monitoring/triage.py), and the         *)
(* endpoint triage_monitor_alert of api/main.py, which compares that state *)
(* with what the operator's console showed and appends in a transaction of *)
(* its own.                                                                *)
(*                                                                         *)
(* A row carries the time its run ended at: that of a review worker may be *)
(* committed long after it.  The console reads the newest rows, the        *)
(* endpoint the oldest.                                                    *)
(***************************************************************************)
EXTENDS Naturals, Sequences, FiniteSets, SequencesExt

CONSTANTS
  Operator,    \* admins with monitor:write
  Asked,       \* the statuses they set; "keep": a note or an assignee, and no status
  Window,      \* rows a request reads: 500
  MaxClock,    \* bound: the times there are
  MaxSeen,     \* bound: rows
  MaxTriage    \* bound: triage events

ASSUME TriageAssumption ==
  Asked \subseteq {"keep", "acknowledged", "investigating", "resolved", "silenced", "open"} /\
  Window \in Nat \ {0} /\ MaxClock \in Nat /\ MaxSeen \in Nat /\ MaxTriage \in Nat

VARIABLES
  clock,    \* utc_now
  seen,     \* the times of the alert's rows, in the order of list_monitor_events
  triage,   \* its triage events, in the order of their times
  screen,   \* operator -> the alert as the console shows it, and the rows and
            \* events there were when it was read
  request   \* operator -> its triage_monitor_alert request

triageVars == <<clock, seen, triage, screen, request>>

Triage == [status : Asked, at : 0 .. MaxClock, id : 1 .. MaxTriage]

Latest(rows) == CHOOSE t \in Range(rows) : \A u \in Range(rows) : u <= t
Head500(rows) == SubSeq(rows, 1, IF Len(rows) < Window THEN Len(rows) ELSE Window)
Tail500(rows) == SubSeq(rows, IF Len(rows) < Window THEN 1 ELSE Len(rows) - Window + 1, Len(rows))

NoAlert == [status |-> "none", count |-> 0, last |-> 0, id |-> 0, news |-> FALSE]

\* The loop body of apply_monitor_triage.
Applied(alert, e) ==
  LET status == IF e.status = "keep" THEN alert.status ELSE e.status
      news   == alert.last > e.at
  IN [alert EXCEPT !.id = e.id, !.news = news,
                   !.status = IF news /\ status = "resolved" THEN "open" ELSE status]

OpenAlert(rows) ==
  [status |-> "open", count |-> Len(rows), last |-> Latest(rows), id |-> 0, news |-> FALSE]

\* A fault: only the last event is held against the rows.
AlertOfLastOnly(rows, acts) ==
  LET SetStatus(alert, e) == IF e.status = "keep" THEN alert ELSE [alert EXCEPT !.status = e.status]
  IN CASE rows = << >> -> NoAlert
       [] rows # << >> /\ acts = << >> -> OpenAlert(rows)
       [] OTHER -> Applied(FoldLeft(SetStatus, OpenAlert(rows), acts), Last(acts))

\* alert: after the first n events of acts.
AlertOf(rows, acts) ==
  LET alert[n \in 0 .. Len(acts)] ==
        IF n = 0 THEN OpenAlert(rows) ELSE Applied(alert[n - 1], acts[n])
  IN IF rows = << >> THEN NoAlert ELSE alert[Len(acts)]

Active(alert)    == alert.status \in {"open", "acknowledged", "investigating"}
\* _ops_alert_requires_attention, and health_status of the triage metrics.
Attention(alert) == Active(alert) \/ alert.news
Health(alert, p0) == IF alert = NoAlert \/ ~ Attention(alert) THEN "ok"
                     ELSE IF p0 THEN "critical" ELSE "degraded"

\* A fault: what was done to the alert is not compared.
MatchesFacts(expected, alert) ==
  expected.status = alert.status /\ expected.count = alert.count /\ expected.last = alert.last

\* _assert_expected_monitor_alert_state.
Matches(expected, alert) == expected = alert

NoScreen  == [alert |-> NoAlert, rows |-> 0, events |-> 0]
\* mark: the rows there were at the first read, and the events at the second.
NoRequest == [pc |-> "none", rows |-> << >>, status |-> "keep", careful |-> FALSE,
              at |-> 0, mark |-> <<0, 0>>]

-----------------------------------------------------------------------------
Pass == /\ clock < MaxClock /\ clock' = clock + 1
        /\ UNCHANGED <<seen, triage, screen, request>>

\* A run that ended at t is reviewed now, by its turn or by a worker.
Observe(t) ==
  /\ Len(seen) < MaxSeen /\ t <= clock
  /\ seen' = Append(seen, t)
  /\ UNCHANGED <<clock, triage, screen, request>>

Look(o) ==
  /\ request[o].pc = "none" /\ seen # << >>
  /\ screen' = [screen EXCEPT ![o] = [alert |-> AlertOf(Tail500(seen), triage),
                                     rows |-> Len(seen), events |-> Len(triage)]]
  /\ UNCHANGED <<clock, seen, triage, request>>

\* The first read of the request, with expected_alert or without.
SubmitTriage(o, s, careful) ==
  /\ request[o].pc = "none" /\ screen[o] # NoScreen /\ Len(triage) < MaxTriage
  /\ request' = [request EXCEPT ![o] =
       [pc |-> "reading", rows |-> Head500(seen), status |-> s, careful |-> careful,
        at |-> 0, mark |-> <<Len(seen), 0>>]]
  /\ UNCHANGED <<clock, seen, triage, screen>>

\* The second read, and 409 or the event with its time.
Decide(o) ==
  /\ request[o].pc = "reading"
  /\ IF request[o].careful => Matches(screen[o].alert, AlertOf(request[o].rows, triage))
     THEN /\ request' = [request EXCEPT ![o].pc = "writing", ![o].at = clock,
                                        ![o].mark = <<request[o].mark[1], Len(triage)>>]
          /\ UNCHANGED screen
     ELSE /\ request' = [request EXCEPT ![o] = NoRequest]
          /\ screen' = [screen EXCEPT ![o] = NoScreen]
  /\ UNCHANGED <<clock, seen, triage>>

\* sorted(triage_events, key=created_at) is stable.
Placed(e) == InsertAt(triage, Cardinality({i \in DOMAIN triage : triage[i].at <= e.at}) + 1, e)

WriteTriage(o) ==
  /\ request[o].pc = "writing" /\ Len(triage) < MaxTriage
  /\ triage' = Placed([status |-> request[o].status, at |-> request[o].at, id |-> Len(triage) + 1])
  /\ request' = [request EXCEPT ![o] = NoRequest]
  /\ screen' = [screen EXCEPT ![o] = NoScreen]
  /\ UNCHANGED <<clock, seen>>

TriageInit ==
  /\ clock = 0 /\ seen = << >> /\ triage = << >>
  /\ screen = [o \in Operator |-> NoScreen]
  /\ request = [o \in Operator |-> NoRequest]

TriageNext ==
  \/ Pass
  \/ \E t \in 0 .. MaxClock : Observe(t)
  \/ \E o \in Operator :
       \/ Look(o) \/ Decide(o) \/ WriteTriage(o)
       \/ \E s \in Asked, careful \in BOOLEAN : SubmitTriage(o, s, careful)

TriageSpec == TriageInit /\ [][TriageNext]_triageVars

-----------------------------------------------------------------------------
(* Properties *)

Shown == AlertOf(Tail500(seen), triage)

(***************************************************************************)
(* Whatever is noted on an alert in whatever order, the console shows it   *)
(* as resolved only if somebody resolved it after every row it counts, and *)
(* rows newer than all that was done keep it on the operators' list and    *)
(* the triage health off "ok".                                             *)
(***************************************************************************)
NothingNewIsHidden ==
  seen # << >> =>
    /\ Shown.status = "resolved" =>
         \E i \in DOMAIN triage : triage[i].status = "resolved" /\ triage[i].at >= Shown.last
    /\ (\A i \in DOMAIN triage : triage[i].at < Shown.last) =>
         Attention(Shown) /\ Health(Shown, TRUE) = "critical"

(***************************************************************************)
(* An operator who sends what the console showed does not act behind the   *)
(* back of the others: while the alert's rows fit the window, no row came  *)
(* between the console's read and the request's, and an event that came in *)
(* between is dated before one the operator has seen.  The console and the *)
(* endpoint fold different ends of the rows at different moments and       *)
(* compare some fields of the results; rows and events come late and out   *)
(* of order (main.py:6775-6797).  What is committed after the endpoint's   *)
(* reads is not compared with anything: of two requests that overlap, the  *)
(* second may be written on the state from before the first.               *)
(***************************************************************************)
NoBlindTriage ==
  [][\A o \in Operator :
       WriteTriage(o) /\ request[o].careful /\ request[o].mark[1] <= Window =>
         /\ request[o].mark[1] = screen[o].rows
         /\ \A i \in DOMAIN triage :
              triage[i].id \in screen[o].events + 1 .. request[o].mark[2] =>
                \E k \in DOMAIN triage : k > i /\ triage[k].id <= screen[o].events]_triageVars
=============================================================================
