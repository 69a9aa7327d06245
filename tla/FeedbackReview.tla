--------------------------- MODULE FeedbackReview ---------------------------
(***************************************************************************)
(* Feedback on runs and its reviews: submit_agent_feedback and             *)
(* record_feedback_review of api/main.py, and the queue that               *)
(* feedback_review_queue (memory/event_store.py) makes of the log.         *)
(*                                                                         *)
(* Reviews are only ever appended, with a time that was read before the    *)
(* commit: a slow one comes to stand before a quick one that is already    *)
(* there.  The endpoint reads the latest review, then counts them, then    *)
(* appends, in three transactions.                                         *)
(***************************************************************************)
EXTENDS Naturals, Sequences, FiniteSets, SequencesExt

CONSTANTS
  Author,       \* customers; each made one run
  Reviewer,     \* admins with feedback:read and feedback:write
  MaxReviews    \* bound: reviews of one feedback

ASSUME FeedbackAssumption == MaxReviews \in Nat /\ Author \cap Reviewer = {}

VARIABLES
  feedback,   \* author's run -> the source of the latest feedback on it
  trail,      \* the reviews of one of them, in the order of list_feedback_review_events
  console,    \* reviewer -> the queue item the console shows
  reviewing   \* reviewer -> its record_feedback_review request

feedbackVars == <<feedback, trail, console, reviewing>>

Source     == {"user", "operator", "qa"}
Unresolved == {"unreviewed", "acknowledged", "investigating"}
Judgement  == {"acknowledged", "resolved"}

Item(status, count, id) == [status |-> status, count |-> count, id |-> id]
NoItem == Item("none", 0, 0)

\* A queue item, and _current_feedback_review_state of a trail and a count.
ItemOf(reviews, count) ==
  IF reviews = << >> THEN Item("unreviewed", count, 0)
  ELSE Item(Last(reviews).status, count, Last(reviews).id)

\* A fault: the count is not compared.
ExpectsLatest(expected, current) ==
  expected.status = current.status /\ expected.id = current.id

\* _assert_expected_feedback_review_state
Expects(expected, current) == expected = current

NoReview == [pc |-> "none", status |-> "none", careful |-> FALSE,
             read |-> << >>, behind |-> 0, mark |-> 0]

-----------------------------------------------------------------------------
\* The checks of submit_agent_feedback.
MaySubmit(actor, owner, source) ==
  /\ source # "user" => actor \in Reviewer
  /\ actor # owner => actor \in Reviewer /\ source # "user"

GiveFeedback(actor, owner, source) ==
  /\ MaySubmit(actor, owner, source)
  /\ feedback' = [feedback EXCEPT ![owner] = source]
  /\ UNCHANGED <<trail, console, reviewing>>

HasFeedback == \E a \in Author : feedback[a] # "none"

\* One select: the console's queue.
ShowQueue(v) ==
  /\ HasFeedback /\ reviewing[v].pc = "none"
  /\ console' = [console EXCEPT ![v] = ItemOf(trail, Len(trail))]
  /\ UNCHANGED <<feedback, trail, reviewing>>

\* The latest review is read ...
StartReview(v, s, careful) ==
  /\ reviewing[v].pc = "none" /\ console[v] # NoItem /\ Len(trail) < MaxReviews
  /\ reviewing' = [reviewing EXCEPT ![v] =
       [NoReview EXCEPT !.pc = "counting", !.status = s, !.careful = careful,
                        !.read = trail, !.mark = Len(trail)]]
  /\ UNCHANGED <<feedback, trail, console>>

(***************************************************************************)
(* ... then all are counted: 409, or a review that has its time; those     *)
(* whose requests have theirs by now and are committed later may come to   *)
(* stand before it, and it before those (behind: how far back it may).     *)
(***************************************************************************)
CompareReview(v) ==
  /\ reviewing[v].pc = "counting"
  /\ IF reviewing[v].careful => Expects(console[v], ItemOf(reviewing[v].read, Len(trail)))
     THEN /\ reviewing' = [reviewing EXCEPT ![v].pc = "writing", ![v].read = << >>,
                                            ![v].behind = Len(trail)]
          /\ UNCHANGED console
     ELSE /\ reviewing' = [reviewing EXCEPT ![v] = NoReview]
          /\ console' = [console EXCEPT ![v] = NoItem]
  /\ UNCHANGED <<feedback, trail>>

\* Nothing that was there when it took its time comes to stand behind it.
AppendReview(v) ==
  /\ reviewing[v].pc = "writing" /\ Len(trail) < MaxReviews
  /\ \E i \in 0 .. Len(trail) :
       /\ \A j \in i + 1 .. Len(trail) : trail[j].id > reviewing[v].behind
       /\ trail' = InsertAt(trail, i + 1, [status |-> reviewing[v].status, id |-> Len(trail) + 1])
  /\ reviewing' = [reviewing EXCEPT ![v] = NoReview]
  /\ console' = [console EXCEPT ![v] = NoItem]
  /\ UNCHANGED feedback

FeedbackInit ==
  /\ feedback = [a \in Author |-> "none"]
  /\ trail = << >>
  /\ console = [v \in Reviewer |-> NoItem]
  /\ reviewing = [v \in Reviewer |-> NoReview]

FeedbackNext ==
  \/ \E actor \in Author \cup Reviewer, owner \in Author, source \in Source :
       GiveFeedback(actor, owner, source)
  \/ \E v \in Reviewer :
       \/ ShowQueue(v) \/ CompareReview(v) \/ AppendReview(v)
       \/ \E s \in Judgement, careful \in BOOLEAN : StartReview(v, s, careful)

FeedbackSpec == FeedbackInit /\ [][FeedbackNext]_feedbackVars

-----------------------------------------------------------------------------
(* Properties *)

(***************************************************************************)
(* A review that was sent with what the console showed was made in the     *)
(* knowledge of every review committed before its request began, also of   *)
(* those that were slow to commit and stand before the latest one: the     *)
(* count tells what the latest review does not (main.py:2005-2055).        *)
(***************************************************************************)
CommittedReviewsAreSeen ==
  [][\A v \in Reviewer :
       AppendReview(v) /\ reviewing[v].careful => console[v].count >= reviewing[v].mark]_feedbackVars
=============================================================================
