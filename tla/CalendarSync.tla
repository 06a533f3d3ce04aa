---------------------------- MODULE CalendarSync ----------------------------
(***************************************************************************)
(* The diary of one agent, kept in step with a Google calendar: the office *)
(* schedules, moves and cancels appointments (CalendarService), the agent  *)
(* moves and deletes events at Google, and rounds of synchronisation pull  *)
(* what changed there and push what waits here (CalendarSyncService).  A   *)
(* round runs in every API replica and whenever the agent asks for one.    *)
(*                                                                         *)
(* Google is asked between transactions.  Each transaction runs at READ    *)
(* COMMITTED: that of a pull reads the rows its events belong to and       *)
(* writes them by id when it commits.  No index makes an event id unique.  *)
(* Google answers with one page; the code asks for no second one.          *)
(* All appointments lie inside the windows of the scans; the tasks that    *)
(* the same round pushes live in another table and are left out.           *)
(***************************************************************************)
EXTENDS Naturals, FiniteSetsExt

CONSTANTS
  Meetings,  \* identifiers of rows of appointments
  Events,    \* identifiers Google may hand out
  Times,     \* the times appointments start at
  Rounds,    \* processes that run syncAll or syncOne
  PageSize,  \* maxResults of a list of events
  MaxEdits,  \* bounds what the office changes
  MaxMoves,  \* bounds what the agent changes at Google
  MaxFaults, \* bounds the rounds that are killed or get no answer
  None       \* SQL NULL

ASSUME CalendarAssumption ==
  /\ PageSize \in Nat \ {0} /\ MaxEdits \in Nat /\ MaxMoves \in Nat /\ MaxFaults \in Nat
  /\ None \notin Meetings \cup Events \cup Times

VARIABLES
  meeting,   \* table appointments
  calendar,  \* the events at Google
  link,      \* google_calendar_links: whether it has no syncToken, and what Google would list for it
  round,     \* where each round stands
  edits,     \* what the office has changed so far
  moves,     \* what the agent has changed at Google so far
  faults     \* rounds broken off so far

google       == <<calendar, link>>
calendarVars == <<meeting, google, round, edits, moves, faults>>

NoMeeting == [status |-> "absent", start |-> None, source |-> "system", event |-> None,
              synced |-> FALSE, reminded |-> FALSE, reply |-> None]
NoEvent   == [status |-> "absent", start |-> None]
IdleRound == [pc |-> "idle", full |-> FALSE, unseen |-> {}, events |-> <<>>, found |-> <<>>,
              pending |-> <<>>, pushed |-> None, result |-> None]

CalendarInit ==
  /\ meeting = [m \in Meetings |-> NoMeeting]
  /\ calendar = [e \in Events |-> NoEvent]
  /\ link = [full |-> TRUE, unseen |-> {}]
  /\ round = [r \in Rounds |-> IdleRound]
  /\ edits = 0 /\ moves = 0 /\ faults = 0

-----------------------------------------------------------------------------
(***************************************************************************)
(* The office.  A row without a stamp of synchronisation waits to be       *)
(* pushed.                                                                 *)
(***************************************************************************)
Schedule(m, t) ==
  /\ meeting[m].status = "absent"
  /\ edits < MaxEdits
  /\ meeting' = [meeting EXCEPT ![m] = [NoMeeting EXCEPT !.status = "scheduled", !.start = t]]
  /\ edits' = edits + 1
  /\ UNCHANGED <<google, round, moves, faults>>

\* The new time gets a reminder of its own, and the answer goes with the old one.
Reschedule(m, t) ==
  /\ meeting[m].status \notin {"absent", "completed"}
  /\ edits < MaxEdits
  /\ meeting' = [meeting EXCEPT ![m] = [@ EXCEPT !.start = t, !.status = "scheduled",
                                                 !.reminded = FALSE, !.reply = None,
                                                 !.synced = FALSE]]
  /\ edits' = edits + 1
  /\ UNCHANGED <<google, round, moves, faults>>

Update(m, status) ==
  /\ meeting[m].status # "absent"
  /\ edits < MaxEdits
  /\ meeting' = [meeting EXCEPT ![m] = [@ EXCEPT !.status = status, !.synced = FALSE]]
  /\ edits' = edits + 1
  /\ UNCHANGED <<google, round, moves, faults>>

\* "Push everything again".
ResetSyncMarks ==
  /\ edits < MaxEdits
  /\ meeting' = [m \in Meetings |-> IF meeting[m].source = "system"
                                      THEN [meeting[m] EXCEPT !.synced = FALSE] ELSE meeting[m]]
  /\ edits' = edits + 1
  /\ UNCHANGED <<google, round, moves, faults>>

Reconnect ==
  /\ edits < MaxEdits
  /\ link' = [full |-> TRUE, unseen |-> {}]
  /\ edits' = edits + 1
  /\ UNCHANGED <<meeting, calendar, round, moves, faults>>

-----------------------------------------------------------------------------
(***************************************************************************)
(* Google lists an event to everybody whose token is older than its last   *)
(* change.                                                                 *)
(***************************************************************************)
Noticed(e) ==
  /\ link' = [link EXCEPT !.unseen = @ \cup {e}]
  /\ round' = [r \in Rounds |-> IF round[r].pc = "idle" THEN round[r]
                                ELSE [round[r] EXCEPT !.unseen = @ \cup {e}]]

AgentChanges(e, event) ==
  /\ moves < MaxMoves
  /\ calendar' = [calendar EXCEPT ![e] = event]
  /\ Noticed(e)
  /\ moves' = moves + 1
  /\ UNCHANGED <<meeting, edits, faults>>

AgentAdds(e, t) ==
  calendar[e].status = "absent" /\ AgentChanges(e, [status |-> "confirmed", start |-> t])

AgentMoves(e, t) ==
  /\ calendar[e].status = "confirmed" /\ calendar[e].start # t
  /\ AgentChanges(e, [calendar[e] EXCEPT !.start = t])

AgentDeletes(e) ==
  calendar[e].status = "confirmed" /\ AgentChanges(e, [calendar[e] EXCEPT !.status = "cancelled"])

-----------------------------------------------------------------------------
(***************************************************************************)
(* pull: the link is read, Google is asked, one transaction writes.        *)
(***************************************************************************)
ReadLink(r) ==
  /\ round[r].pc = "idle"
  /\ round' = [round EXCEPT ![r] = [IdleRound EXCEPT !.pc = "ask", !.full = link.full,
                                                     !.unseen = link.unseen]]
  /\ UNCHANGED <<meeting, google, edits, moves, faults>>

Confirmed == {e \in Events : calendar[e].status = "confirmed"}

\* The first page of a list, in an order of Google's.
Pages(list) == IF Cardinality(list) <= PageSize THEN {list} ELSE kSubset(PageSize, list)

\* What changed since the token, or, without a token or with one that has
\* expired (410), every event that is not deleted.  A deleted event may come
\* without its times, and such events are skipped.  A list of more than a page
\* comes without the next token.
AskChanges(r) ==
  /\ round[r].pc = "ask"
  /\ \E list \in {Confirmed} \cup IF round[r].full THEN {} ELSE {round[r].unseen} :
       \E page \in Pages(list) : \E timed \in SUBSET (page \ Confirmed) :
         round' = [round EXCEPT ![r] = [@ EXCEPT !.pc = "read", !.full = (page # list), !.unseen = {},
                     !.events = [e \in (page \cap Confirmed) \cup timed |-> calendar[e]]]]
  /\ UNCHANGED <<meeting, google, edits, moves, faults>>

\* The transaction looks every event up, and compares the time of the row.
PullRead(r) ==
  LET listed == round[r].events
      RowsOf(e) == {m \in Meetings : meeting[m].event = e}
  IN
  /\ round[r].pc = "read"
  /\ \E found \in [DOMAIN listed -> Meetings \cup {None}] :
       /\ \A e \in DOMAIN listed :
            IF RowsOf(e) = {} THEN found[e] = None ELSE found[e] \in RowsOf(e)
       /\ round' = [round EXCEPT ![r] = [@ EXCEPT !.pc = "write", !.found =
            [e \in DOMAIN listed |->
               [row |-> found[e],
                moved |-> found[e] # None /\ meeting[found[e]].start # listed[e].start]]]]
  /\ UNCHANGED <<meeting, google, edits, moves, faults>>

\* Mutant of Pulled: the marks of the reminder go in every round.
PulledAnew(row, event, moved) ==
  IF event.status = "cancelled" THEN [row EXCEPT !.status = "cancelled", !.synced = TRUE]
  ELSE [row EXCEPT !.start = event.start, !.reminded = FALSE, !.reply = None, !.synced = TRUE]

\* Mutant of Pulled: the row takes over what Google calls the state of the event.
PulledStatus(row, event, moved) ==
  [row EXCEPT !.status = event.status, !.start = event.start, !.synced = TRUE,
              !.reminded = @ /\ ~moved, !.reply = IF moved THEN None ELSE @]

\* Only the time is taken over; the marks of the reminder go if it moved.
Pulled(row, event, moved) ==
  IF event.status = "cancelled" THEN [row EXCEPT !.status = "cancelled", !.synced = TRUE]
  ELSE [row EXCEPT !.start = event.start, !.synced = TRUE,
                   !.reminded = @ /\ ~moved, !.reply = IF moved THEN None ELSE @]

\* Mutant of NextToken: the token of the moment the transaction commits.
TokenOfNow(r) == [full |-> round[r].full, unseen |-> {}]

\* The token that came with the list, or none.
NextToken(r) == [full |-> round[r].full, unseen |-> round[r].unseen]

PullWrite(r) ==
  LET listed == round[r].events
      found  == round[r].found
      fresh  == {e \in DOMAIN listed : found[e].row = None /\ listed[e].status = "confirmed"}
  IN
  /\ round[r].pc = "write"
  /\ \E row \in [fresh -> {m \in Meetings : meeting[m].status = "absent"}] :
       /\ \A d, e \in fresh : row[d] = row[e] => d = e
       /\ meeting' = [m \in Meetings |->
            IF \E e \in fresh : row[e] = m
              THEN LET e == CHOOSE e \in fresh : row[e] = m
                   IN [NoMeeting EXCEPT !.status = "scheduled", !.start = listed[e].start,
                                        !.source = "google", !.event = e, !.synced = TRUE]
            ELSE IF \E e \in DOMAIN listed : found[e].row = m
              THEN LET e == CHOOSE e \in DOMAIN listed : found[e].row = m
                   IN Pulled(meeting[m], listed[e], found[e].moved)
            ELSE meeting[m]]
  /\ link' = NextToken(r)
  /\ round' = [round EXCEPT ![r] = [IdleRound EXCEPT !.pc = "list"]]
  /\ UNCHANGED <<calendar, edits, moves, faults>>

-----------------------------------------------------------------------------
(***************************************************************************)
(* push: the rows that wait are read once; each is sent and then stamped.  *)
(***************************************************************************)
ListPending(r) ==
  LET waiting == {m \in Meetings : /\ meeting[m].status # "absent"
                                   /\ meeting[m].source = "system" /\ ~meeting[m].synced}
  IN
  /\ round[r].pc = "list"
  /\ round' = [round EXCEPT ![r] = [@ EXCEPT !.pc = "push", !.unseen = {},
                                             !.pending = [m \in waiting |-> meeting[m]]]]
  /\ UNCHANGED <<meeting, google, edits, moves, faults>>

\* The event a copy of a row ends as: deleted, updated, or, when it is not
\* there any more, created again.
Target(copy) ==
  IF copy.status = "cancelled" THEN {copy.event}
  ELSE IF copy.event # None /\ calendar[copy.event].status = "confirmed" THEN {copy.event}
  ELSE {e \in Events : calendar[e].status = "absent"}

Sent(copy) ==
  IF copy.status = "cancelled" THEN [status |-> "cancelled", start |-> copy.start]
                               ELSE [status |-> "confirmed", start |-> copy.start]

UpsertEvent(r) ==
  /\ round[r].pc = "push"
  /\ \E m \in DOMAIN round[r].pending :
       LET copy == round[r].pending[m]
           rest == [x \in DOMAIN round[r].pending \ {m} |-> round[r].pending[x]]
           After(e) == [round[r] EXCEPT !.pc = "stamp", !.pushed = m, !.pending = rest,
                          !.result = IF copy.status = "cancelled" THEN None ELSE e]
       IN \E e \in Target(copy) :
            IF e = None
              THEN round' = [round EXCEPT ![r] = After(None)] /\ UNCHANGED google
              ELSE /\ calendar' = [calendar EXCEPT ![e] = Sent(copy)]
                   /\ link' = [link EXCEPT !.unseen = @ \cup {e}]
                   /\ round' = [x \in Rounds |->
                        IF x = r THEN After(e)
                        ELSE IF round[x].pc \in {"ask", "read", "write"}
                          THEN [round[x] EXCEPT !.unseen = @ \cup {e}]
                        ELSE round[x]]
  /\ UNCHANGED <<meeting, edits, moves, faults>>

\* By id, whatever the office has done to the row meanwhile.
Stamp(r) ==
  LET m == round[r].pushed IN
  /\ round[r].pc = "stamp"
  /\ meeting' = [meeting EXCEPT ![m] = [@ EXCEPT !.event = round[r].result, !.synced = TRUE]]
  /\ round' = [round EXCEPT ![r] = [@ EXCEPT !.pc = "push", !.pushed = None, !.result = None]]
  /\ UNCHANGED <<google, edits, moves, faults>>

EndRound(r) ==
  /\ round[r].pc = "push" /\ DOMAIN round[r].pending = {}
  /\ round' = [round EXCEPT ![r] = IdleRound]
  /\ UNCHANGED <<meeting, google, edits, moves, faults>>

\* Google does not answer, or the process is killed: the round is over.
BreakOff(r) ==
  /\ round[r].pc # "idle"
  /\ faults < MaxFaults
  /\ faults' = faults + 1
  /\ round' = [round EXCEPT ![r] = IdleRound]
  /\ UNCHANGED <<meeting, google, edits, moves>>

Sync(r) ==
  \/ ReadLink(r) \/ AskChanges(r) \/ PullRead(r) \/ PullWrite(r)
  \/ ListPending(r) \/ UpsertEvent(r) \/ Stamp(r) \/ EndRound(r)

CalendarNext ==
  \/ \E m \in Meetings, t \in Times : Schedule(m, t) \/ Reschedule(m, t)
  \/ \E m \in Meetings : Update(m, "cancelled") \/ Update(m, "completed")
  \/ ResetSyncMarks \/ Reconnect
  \/ \E e \in Events, t \in Times : AgentAdds(e, t) \/ AgentMoves(e, t)
  \/ \E e \in Events : AgentDeletes(e)
  \/ \E r \in Rounds : Sync(r) \/ BreakOff(r)

CalendarFairness == \A r \in Rounds : WF_calendarVars(Sync(r))

CalendarSpec == CalendarInit /\ [][CalendarNext]_calendarVars /\ CalendarFairness

-----------------------------------------------------------------------------
(***************************************************************************)
(* What the synchronisation promises.                                      *)
(***************************************************************************)

\* Nobody loses an edit to the echo of an earlier one: as long as the agent
\* touches nothing at Google, an appointment that waits to be pushed keeps the
\* time the office gave it ("resetting the stamp = has to be pushed again").
EditKept ==
  [][\A m \in Meetings :
       moves = 0 /\ meeting[m].status # "absent" /\ ~meeting[m].synced /\ meeting'[m].synced
         => meeting'[m].start = meeting[m].start]_calendarVars
=============================================================================
