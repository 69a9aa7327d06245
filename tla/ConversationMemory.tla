------------------------- MODULE ConversationMemory -------------------------
(***************************************************************************)
(* One conversation: what each API process keeps of it in memory           *)
(* (memory/store.py), the rows of it in the event log, and the turns and   *)
(* listings that bring the two together (agent/orchestrator.py,            *)
(* memory/replay.py, the endpoints chat and list_messages of api/main.py). *)
(*                                                                         *)
(* The turns of a process are coroutines of one thread: between two awaits *)
(* nothing of the process runs beside them but the threads of listings,    *)
(* while other processes may commit between any two of their transactions. *)
(* The log is read in the order of created_at, which is read before the    *)
(* commit: a row may come to stand before rows of others that were         *)
(* committed since, but not before one that was there already.             *)
(***************************************************************************)
EXTENDS Naturals, Sequences, FiniteSets, SequencesExt

CONSTANTS
  Process,     \* API processes
  User,        \* users that know the conversation's id
  MaxTurns,    \* bound: turns taken
  MaxFaults    \* bound: failed appends and crashes

ASSUME MemoryAssumption ==
  /\ MaxTurns \in Nat /\ MaxFaults \in Nat
  /\ Process # {} /\ IsFiniteSet(Process) /\ User # {} /\ "none" \notin User

VARIABLES
  deployed,  \* the processes of this deployment
  log,       \* rows of the conversation, in the order of list_conversation_memory_events
  memory,    \* process -> its states[conversation_id]
  taken,     \* turn -> where it is
  listing,   \* process -> what a thread of list_messages has read
  faults,    \* failures so far
  lost,      \* messages whose append failed
  clobbered  \* history: processes where a listing replaced a state in use

conversationVars == <<deployed, log, memory, taken, listing, faults, lost, clobbered>>

Turns   == 1 .. MaxTurns

\* A turn's question, reply and run carry its number.
Event(k, n, u, p) == [kind |-> k, turn |-> n, user |-> u, by |-> p]
Says(k, n) == [kind |-> k, turn |-> n]
AsMessage(e) == Says(e.kind, e.turn)

NotLoaded == [user |-> "none", messages |-> << >>]
NoRow     == [kind |-> "none", turn |-> 0, user |-> "none", by |-> "none"]
Idle      == [pc |-> "new", process |-> "none", user |-> "none", tip |-> NoRow]
Tip(rows) == IF rows = << >> THEN NoRow ELSE Last(rows)

Loaded(p)  == memory[p] # NotLoaded
IsSaid(e)  == e.kind # "run"
\* said: by the first n rows.
Said(rows) ==
  LET said[n \in 0 .. Len(rows)] ==
        IF n = 0 THEN << >>
        ELSE IF IsSaid(rows[n]) THEN Append(said[n - 1], AsMessage(rows[n])) ELSE said[n - 1]
  IN said[Len(rows)]
Authors(rows) == {rows[i].user : i \in {j \in DOMAIN rows : IsSaid(rows[j])}}

\* replay_conversation_memory: the facts and the summary follow from the messages.
Replay(rows) == [user |-> CHOOSE u \in Authors(rows) : TRUE, messages |-> Said(rows)]

\* add_message refuses a second user during the replay, hydrate a different one after it.
Replays(rows, u) == Authors(rows) = {u}

\* A fault: what was said before a restart is not read back.
HydratedEmpty(p, u) ==
  IF Loaded(p) THEN memory[p] ELSE [NotLoaded EXCEPT !.user = u]

\* hydrate_memory_from_events and get_or_create for user u: the state a turn finds.
Hydrated(p, u) ==
  IF Loaded(p) THEN memory[p]
  ELSE IF log = << >> THEN [NotLoaded EXCEPT !.user = u] ELSE Replay(log)

\* A fault: the owner is only known from memory.
AdmitsAnyoneAnew(p, u) ==
  IF Loaded(p) THEN memory[p].user = u ELSE TRUE

Admits(p, u) ==
  IF Loaded(p) THEN memory[p].user = u ELSE log = << >> \/ Replays(log, u)

\* add_message
Remember(s, k, n) == [s EXCEPT !.messages = Append(@, Says(k, n))]

\* The row of turn n comes to stand somewhere behind the tip its append began at.
Place(k, n) ==
  \E i \in 0 .. Len(log) :
    /\ \A j \in i + 1 .. Len(log) : log[j] # taken[n].tip
    /\ log' = InsertAt(log, i + 1, Event(k, n, taken[n].user, taken[n].process))

-----------------------------------------------------------------------------
(* Turns *)

Here(p)  == {n \in Turns : taken[n].process = p}
Busy(p)  == \E n \in Here(p) : taken[n].pc \in {"asking", "replying", "recording"}
Goto(n, a, rows) == taken' = [taken EXCEPT ![n].pc = a, ![n].tip = Tip(rows)]
Finish(n)  == taken' = [taken EXCEPT ![n].pc = "done", ![n].tip = NoRow]

(***************************************************************************)
(* handle_message up to append_message(user_msg): hydrate, add_message.    *)
(* A user the conversation does not admit gets 403 and nothing changes.    *)
(***************************************************************************)
Ask(n, p, u) ==
  /\ taken[n].pc = "new" /\ \A m \in 1 .. n - 1 : taken[m].pc # "new"
  /\ ~ Busy(p) /\ Admits(p, u)
  /\ memory' = [memory EXCEPT ![p] = Remember(Hydrated(p, u), "question", n)]
  /\ taken' = [taken EXCEPT ![n] = [pc |-> "asking", process |-> p, user |-> u, tip |-> Tip(log)]]
  /\ UNCHANGED <<deployed, log, listing, faults, lost, clobbered>>

(***************************************************************************)
(* The append of the question.  From then on the turn awaits retrieval,    *)
(* tools and the model (a question asked back is answered at once).        *)
(***************************************************************************)
LogQuestion(n) ==
  /\ taken[n].pc = "asking"
  /\ Place("question", n)
  /\ taken' = [taken EXCEPT ![n].pc = "awaiting", ![n].tip = NoRow]
  /\ UNCHANGED <<deployed, memory, listing, faults, lost, clobbered>>

\* _finalize: add_message ...
Reply(n) ==
  LET p == taken[n].process IN
  /\ taken[n].pc = "awaiting" /\ ~ Busy(p)
  /\ memory' = [memory EXCEPT ![p] = Remember(@, "reply", n)]
  /\ Goto(n, "replying", log)
  /\ UNCHANGED <<deployed, log, listing, faults, lost, clobbered>>

\* ... append_message ...
LogReply(n) ==
  /\ taken[n].pc = "replying"
  /\ Place("reply", n)
  /\ Goto(n, "recording", log')
  /\ UNCHANGED <<deployed, memory, listing, faults, lost, clobbered>>

\* ... and append_agent_run.
LogRun(n) ==
  /\ taken[n].pc = "recording"
  /\ Place("run", n)
  /\ Finish(n)
  /\ UNCHANGED <<deployed, memory, listing, faults, lost, clobbered>>

\* An append that raises ends the turn; the message stays in memory.
AppendFails(n) ==
  /\ taken[n].pc \in {"asking", "replying", "recording"} /\ faults < MaxFaults
  /\ faults' = faults + 1
  /\ lost' = lost \cup {Says(k, n) : k \in {x \in {"question", "reply"} :
                          taken[n].pc = (IF x = "question" THEN "asking" ELSE "replying")}}
  /\ Finish(n)
  /\ UNCHANGED <<deployed, log, memory, listing, clobbered>>

\* Retrieval raises, or the client goes away: the coroutine ends.
GiveUp(n) ==
  /\ taken[n].pc = "awaiting"
  /\ Finish(n)
  /\ UNCHANGED <<deployed, log, memory, listing, faults, lost, clobbered>>

-----------------------------------------------------------------------------
(* Listings and crashes *)

\* list_messages runs in a thread: it finds nothing in memory and reads the log.
StartListing(p, u) ==
  /\ p \in deployed /\ ~ Loaded(p) /\ listing[p] = NotLoaded
  /\ log # << >> /\ Replays(log, u)
  /\ listing' = [listing EXCEPT ![p] = Replay(log)]
  /\ UNCHANGED <<deployed, log, memory, taken, faults, lost, clobbered>>

\* memory.states[conversation_id] = replay.state, whatever is there by now.
Install(p) ==
  /\ listing[p] # NotLoaded
  /\ memory' = [memory EXCEPT ![p] = listing[p]]
  /\ clobbered' = IF Loaded(p) THEN clobbered \cup {p} ELSE clobbered
  /\ listing' = [listing EXCEPT ![p] = NotLoaded]
  /\ UNCHANGED <<deployed, log, taken, faults, lost>>

CrashProcess(p) ==
  /\ p \in deployed /\ faults < MaxFaults
  /\ faults' = faults + 1
  /\ memory' = [memory EXCEPT ![p] = NotLoaded]
  /\ taken' = [n \in Turns |-> IF n \in Here(p) THEN [taken[n] EXCEPT !.pc = "done", !.tip = NoRow] ELSE taken[n]]
  /\ listing' = [listing EXCEPT ![p] = NotLoaded]
  /\ clobbered' = clobbered \ {p}
  /\ UNCHANGED <<deployed, log, lost>>

ConversationInit ==
  /\ deployed \in SUBSET Process \ {{}}
  /\ log = << >> /\ lost = {} /\ clobbered = {} /\ faults = 0
  /\ memory = [p \in Process |-> NotLoaded]
  /\ listing = [p \in Process |-> NotLoaded]
  /\ taken = [n \in Turns |-> Idle]

ConversationNext ==
  \/ \E n \in Turns :
       \/ \E p \in deployed, u \in User : Ask(n, p, u)
       \/ LogQuestion(n) \/ Reply(n) \/ LogReply(n) \/ LogRun(n)
       \/ AppendFails(n) \/ GiveUp(n)
  \/ \E p \in deployed :
       \/ \E u \in User : StartListing(p, u)
       \/ Install(p) \/ CrashProcess(p)

ConversationSpec == ConversationInit /\ [][ConversationNext]_conversationVars

-----------------------------------------------------------------------------
(* Properties *)

InLog(m)        == \E i \in DOMAIN log : AsMessage(log[i]) = m
InOrder(m1, m2) == \E i, j \in DOMAIN log : i < j /\ AsMessage(log[i]) = m1 /\ AsMessage(log[j]) = m2

Pending(p) == {Says("question", n) : n \in {m \in Here(p) : taken[m].pc = "asking"}}
                \cup {Says("reply", n) : n \in {m \in Here(p) : taken[m].pc = "replying"}}

\* The places in memory of the messages that p appended, or read.
Kept(p) == {i \in DOMAIN memory[p].messages : memory[p].messages[i] \notin lost \cup Pending(p)}

(***************************************************************************)
(* What a process remembers and did not fail to append is in the log, in   *)
(* the order it remembers it in: turns that overlap in one process, late   *)
(* commits of others and hydration never turn a conversation around.       *)
(***************************************************************************)
MemoryFollowsLog ==
  \A p \in deployed :
    LET messages == memory[p].messages IN
    /\ \A i \in Kept(p) : InLog(messages[i])
    /\ \A i, j \in Kept(p) : i < j => InOrder(messages[i], messages[j])

(***************************************************************************)
(* With one process, a restart changes nothing: every message the replay   *)
(* of the log would find the process has, unless a listing replaced a      *)
(* state in use.                                                           *)
(***************************************************************************)
ReplayIsLive ==
  \A p \in deployed :
    deployed = {p} /\ Loaded(p) /\ p \notin clobbered =>
      \A i \in DOMAIN log : IsSaid(log[i]) =>
        \E j \in Kept(p) : memory[p].messages[j] = AsMessage(log[i])

\* Nothing stands in the log twice.
LoggedOnce == \A i, j \in DOMAIN log : i # j => AsMessage(log[i]) # AsMessage(log[j])

(***************************************************************************)
(* With one process a conversation never has messages of two users, in     *)
(* whatever order they come and whatever was forgotten in between.         *)
(***************************************************************************)
OneOwner == Cardinality(deployed) = 1 => Cardinality(Authors(log)) <= 1

(***************************************************************************)
(* A run in the log has its question and its reply before it: reviews,     *)
(* regression drafts and replays that start from a run find the messages.  *)
(***************************************************************************)
RunsAreComplete ==
  \A i \in DOMAIN log :
    log[i].kind = "run" =>
      \E q, r \in 1 .. i - 1 :
        /\ q < r
        /\ AsMessage(log[q]) = Says("question", log[i].turn)
        /\ AsMessage(log[r]) = Says("reply", log[i].turn)

(***************************************************************************)
(* Memory and log tell one conversation: what a process remembers is the   *)
(* log as far as it got, a restart brings it back, and a run is never      *)
(* there without its messages (orchestrator.py:117-119, 354-357).          *)
(***************************************************************************)
MemoryMeetsLog == LoggedOnce /\ MemoryFollowsLog /\ ReplayIsLive /\ RunsAreComplete
=============================================================================
