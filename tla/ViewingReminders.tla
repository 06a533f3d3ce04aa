-------------------------- MODULE ViewingReminders --------------------------
(***************************************************************************)
(* Reminders before a viewing: every quarter of an hour a sweep lists the  *)
(* viewings that start soon, tells whoever lives there and whoever comes,  *)
(* opens a task for the agent about whom nobody reached, and stamps the    *)
(* row (ViewingReminderService); a customer answers with a button that     *)
(* carries the appointment and its time (ViewingReplyService).             *)
(*                                                                         *)
(* Delivery is a call to a provider, so the row may be moved meanwhile, by *)
(* the office or by CalendarSync.  Appointments made here are viewings     *)
(* with somebody to tell; those pulled from Google are meetings.           *)
(***************************************************************************)
EXTENDS CalendarSync

CONSTANTS
  Sweeps,   \* replicas running tick()
  Phones,   \* deliveries of a customer's answer by the webhook
  Notice,   \* hoursBefore, in ticks
  MaxTime,  \* bounds the clock; the last instant lasts for ever
  MaxTaps   \* bounds the answers delivered

ASSUME ReminderAssumption ==
  /\ Times \subseteq Nat /\ Notice \in Nat /\ MaxTime \in Nat /\ MaxTaps \in Nat

VARIABLES
  now,       \* the clock
  sweep,     \* where each sweep stands
  phone,     \* where each delivery of an answer stands
  tasks,     \* source keys of the tasks opened
  taps,      \* answers delivered so far
  notices,   \* history: what came of each attempt to remind, by appointment and time
  answered,  \* history: what customers answered, by appointment and time
  sent,      \* history: reminders of the time it has, since the appointment was placed
  crossed,   \* history: rows that changed between the read and the write of a pull
  overtaken  \* history: rows whose push did not know of a change by the office, and no echo will tell

reminderVars == <<now, sweep, phone, tasks, taps, notices, answered, sent, crossed, overtaken>>
diaryVars    == <<calendarVars, reminderVars>>

IdleSweep == [pc |-> "idle", due |-> <<>>, meeting |-> None, start |-> None]
IdlePhone == [pc |-> "idle", meeting |-> None, start |-> None, reply |-> None]

RemindersInit ==
  /\ now = 0
  /\ sweep = [s \in Sweeps |-> IdleSweep]
  /\ phone = [p \in Phones |-> IdlePhone]
  /\ tasks = {} /\ taps = 0
  /\ notices = {} /\ answered = {}
  /\ sent = [m \in Meetings |-> 0]
  /\ crossed = {} /\ overtaken = {}

DiaryInit == CalendarInit /\ RemindersInit

\* viewingReminderDue: ahead of us, and not by more than the notice.
InWindow(start) == now < start /\ start <= now + Notice

Due(m) ==
  /\ meeting[m].status = "scheduled" /\ meeting[m].source = "system"
  /\ ~meeting[m].reminded
  /\ InWindow(meeting[m].start)

-----------------------------------------------------------------------------
ListDue(s) ==
  /\ sweep[s].pc = "idle"
  /\ sweep' = [sweep EXCEPT ![s] = [IdleSweep EXCEPT !.pc = "next", !.due =
                 [m \in {x \in Meetings : Due(x)} |-> meeting[m].start]]]
  /\ UNCHANGED <<calendarVars, now, phone, tasks, taps, notices, answered, sent, crossed, overtaken>>

\* deliver, to both sides: some are told, some cannot be reached.
Deliver(s) ==
  /\ sweep[s].pc = "next"
  /\ \E m \in DOMAIN sweep[s].due, told, missed \in BOOLEAN :
       LET start == sweep[s].due[m]
           rest  == [x \in DOMAIN sweep[s].due \ {m} |-> sweep[s].due[x]]
       IN IF InWindow(start)
            THEN /\ told \/ missed
                 /\ notices' = notices \cup {<<m, start, IF told THEN "told" ELSE "missed">>}
                 /\ sent' = [sent EXCEPT ![m] = IF told /\ meeting[m].start = start THEN @ + 1 ELSE @]
                 /\ sweep' = [sweep EXCEPT ![s] = [pc |-> IF missed THEN "task" ELSE "stamp",
                                                   due |-> rest, meeting |-> m, start |-> start]]
            ELSE /\ sweep' = [sweep EXCEPT ![s].due = rest]
                 /\ UNCHANGED <<notices, sent>>
  /\ UNCHANGED <<calendarVars, now, phone, tasks, taps, answered, crossed, overtaken>>

\* One task for each appointment: the key does not name the time.
OpenTask(s) ==
  LET m == sweep[s].meeting IN
  /\ sweep[s].pc = "task"
  /\ IF <<"viewing-reminder", m>> \in tasks
       THEN UNCHANGED <<tasks, notices>>
       ELSE /\ tasks' = tasks \cup {<<"viewing-reminder", m>>}
            /\ notices' = notices \cup {<<m, sweep[s].start, "task">>}
  /\ sweep' = [sweep EXCEPT ![s].pc = "stamp"]
  /\ UNCHANGED <<calendarVars, now, phone, taps, answered, sent, crossed, overtaken>>

\* Mutant of SameAppointment: the row is stamped by its id.
SameId(m, start) == meeting[m].status = "scheduled"

\* "This is still the appointment I read."
SameAppointment(m, start) == meeting[m].start = start /\ meeting[m].status = "scheduled"

StampReminder(s) ==
  LET m == sweep[s].meeting IN
  /\ sweep[s].pc = "stamp"
  /\ meeting' = IF SameAppointment(m, sweep[s].start)
                  THEN [meeting EXCEPT ![m].reminded = TRUE] ELSE meeting
  /\ sweep' = [sweep EXCEPT ![s] = [@ EXCEPT !.pc = "next", !.meeting = None, !.start = None]]
  /\ UNCHANGED <<google, round, edits, moves, faults, now, phone, tasks, taps, notices, answered,
                 sent, crossed, overtaken>>

EndSweep(s) ==
  /\ sweep[s].pc = "next" /\ DOMAIN sweep[s].due = {}
  /\ sweep' = [sweep EXCEPT ![s] = IdleSweep]
  /\ UNCHANGED <<calendarVars, now, phone, tasks, taps, notices, answered, sent, crossed, overtaken>>

\* The replica is killed and starts again.
KillSweep(s) ==
  /\ sweep[s].pc # "idle"
  /\ faults < MaxFaults
  /\ faults' = faults + 1
  /\ sweep' = [sweep EXCEPT ![s] = IdleSweep]
  /\ UNCHANGED <<meeting, google, round, edits, moves, now, phone, tasks, taps, notices, answered,
                 sent, crossed, overtaken>>

-----------------------------------------------------------------------------
(***************************************************************************)
(* record: a button of a reminder that reached the customer, pressed at    *)
(* any later time, and again.                                              *)
(***************************************************************************)
Tap(p) ==
  /\ phone[p].pc = "idle"
  /\ taps < MaxTaps
  /\ \E m \in Meetings, t \in Times, reply \in {"confirmed", "reschedule"} :
       /\ <<m, t, "told">> \in notices
       /\ answered' = answered \cup {<<m, t, reply>>}
       /\ phone' = IF meeting[m].start # t THEN phone
                   ELSE [phone EXCEPT ![p] = [pc |-> "record", meeting |-> m, start |-> t,
                                              reply |-> reply]]
  /\ taps' = taps + 1
  /\ UNCHANGED <<calendarVars, now, sweep, tasks, notices, sent, crossed, overtaken>>

\* Mutant of Recordable: the time is not compared again.
RecordableById(p) == meeting[phone[p].meeting].reply # phone[p].reply

\* The update is the lock: of two equal answers one finds nothing to change.
Recordable(p) ==
  LET row == meeting[phone[p].meeting]
  IN row.start = phone[p].start /\ row.reply # phone[p].reply

RecordReply(p) ==
  LET m == phone[p].meeting IN
  /\ phone[p].pc = "record"
  /\ IF Recordable(p)
       THEN /\ meeting' = [meeting EXCEPT ![m].reply = phone[p].reply]
            /\ tasks' = IF phone[p].reply = "reschedule"
                          THEN tasks \cup {<<"viewing-reschedule", m, phone[p].start>>} ELSE tasks
       ELSE UNCHANGED <<meeting, tasks>>
  /\ phone' = [phone EXCEPT ![p] = IdlePhone]
  /\ UNCHANGED <<google, round, edits, moves, faults, now, sweep, taps, notices, answered, sent, crossed, overtaken>>

Pass ==
  /\ now < MaxTime
  /\ now' = now + 1
  /\ UNCHANGED <<calendarVars, sweep, phone, tasks, taps, notices, answered, sent, crossed, overtaken>>

Sweep(s) == ListDue(s) \/ Deliver(s) \/ OpenTask(s) \/ StampReminder(s) \/ EndSweep(s)

\* The office or Google gives the appointment a time, the old one perhaps.
Placed(m) ==
  \/ meeting'[m].start # meeting[m].start
  \/ edits' # edits /\ meeting'[m] # meeting[m] /\ meeting'[m].status = "scheduled"

\* A transaction of a pull commits what it no longer knows to be true.
Crossed(r) ==
  LET found == round[r].found
      listed == round[r].events
  IN IF round[r].pc # "write" \/ round'[r].pc # "list" THEN {}
     ELSE {m \in Meetings : \E e \in DOMAIN listed :
             found[e].row = m /\ found[e].moved # (meeting[m].start # listed[e].start)}

\* The push of a row knows no longer what the row is: it sends its deletion, or
\* is about to stamp it, and no list will bring the event that was sent.
PushedBlindly(m) ==
  \E r \in Rounds :
    \/ m \in DOMAIN round[r].pending /\ round[r].pending[m].status = "cancelled"
    \/ /\ round[r].pc = "stamp" /\ round[r].pushed = m
       /\ round[r].result = None \/ (~link.full /\ round[r].result \notin link.unseen)

\* Round r is about to store a token for which event e is no news, without having
\* listed it.
PassesOver(r, e) ==
  /\ ~round[r].full /\ e \notin round[r].unseen
  /\ \/ round[r].pc = "ask"
     \/ round[r].pc \in {"read", "write"} /\ e \notin DOMAIN round[r].events

\* Row m is written from a list that is older than its event, or that shows an
\* event it belonged to before, and nothing will list its event again: it has none,
\* or the token that would is about to be replaced.
PulledBlindly(m) ==
  \E r, x \in Rounds :
    /\ round[r].pc = "write" /\ round'[r].pc = "list"
    /\ \E e \in DOMAIN round[r].events :
         /\ round[r].found[e].row = m
         /\ e # meeting[m].event \/ e \in round[r].unseen
         /\ meeting[m].event # None => PassesOver(x, meeting[m].event)

Overtaken ==
  {m \in Meetings : PulledBlindly(m) \/ (edits' # edits /\ meeting'[m] # meeting[m] /\ PushedBlindly(m))}

\* A step of the office, of the agent or of a round of synchronisation.
Noted(step) ==
  /\ step
  /\ sent' = [m \in Meetings |-> IF Placed(m) THEN 0 ELSE sent[m]]
  /\ crossed' = crossed \cup UNION {Crossed(r) : r \in Rounds}
  /\ overtaken' = overtaken \cup Overtaken
  /\ UNCHANGED <<now, sweep, phone, tasks, taps, notices, answered>>

DiaryNext ==
  \/ Noted(CalendarNext)
  \/ \E s \in Sweeps : Sweep(s) \/ KillSweep(s)
  \/ \E p \in Phones : Tap(p) \/ RecordReply(p)
  \/ Pass

\* The timer of the synchronisation keeps ticking.
DiaryFairness == \A r \in Rounds : WF_diaryVars(Noted(Sync(r)))

DiarySpec == DiaryInit /\ [][DiaryNext]_diaryVars /\ DiaryFairness

-----------------------------------------------------------------------------
(***************************************************************************)
(* What the diary promises.                                                *)
(***************************************************************************)

\* Every column keeps to its type.
DiaryTypeOK ==
  /\ meeting \in [Meetings -> [status : {"absent", "scheduled", "completed", "cancelled"},
                               start : Times \cup {None}, source : {"system", "google"},
                               event : Events \cup {None}, synced : BOOLEAN, reminded : BOOLEAN,
                               reply : {"confirmed", "reschedule", None}]]
  /\ calendar \in [Events -> [status : {"absent", "confirmed", "cancelled"},
                              start : Times \cup {None}]]
  /\ link \in [full : BOOLEAN, unseen : SUBSET Events]
  /\ edits \in 0 .. MaxEdits /\ moves \in 0 .. MaxMoves /\ faults \in 0 .. MaxFaults
  /\ now \in 0 .. MaxTime /\ taps \in 0 .. MaxTaps

\* A stamp stands for the time the appointment has now: however often it is
\* moved here or at Google while a reminder is on its way, its people were
\* reminded of this time (the conditional stamp of remindOne).
RemindedOfThisTime ==
  \A m \in Meetings \ crossed : meeting[m].reminded =>
    \E n \in notices : n[1] = m /\ n[2] = meeting[m].start

\* An answer shown to the agent was given about the time the appointment has
\* now: not about one it was moved away from while the answer came in.
AnsweredAboutThisTime ==
  \A m \in Meetings \ crossed : meeting[m].reply # None =>
    <<m, meeting[m].start, meeting[m].reply>> \in answered

\* Unless a replica is killed, one sweep sends one reminder for each placement,
\* although every round of synchronisation writes the row ("a repeated
\* reminder in a loop" is what the condition of the pull is for).
RemindedOnce ==
  faults = 0 /\ (\A s, w \in Sweeps : s = w) => \A m \in Meetings \ crossed : sent[m] <= 1

\* When nobody changes anything any more, an appointment made here that was not
\* cancelled is in the calendar, at the time it has here, however many rounds
\* run at once or break off between asking, writing, sending and stamping.  The
\* calendar has to fit in a page.  Left out are rows changed while a push had lost
\* sight of them, rows whose event a pull took for a foreign one before its id was
\* stored, and events that the agent has deleted.
SidesAgree ==
  LET Agreed(m) ==
        LET row == meeting[m] IN
        row.source = "system" /\ row.status \in {"scheduled", "completed"} =>
          /\ row.event # None
          /\ calendar[row.event].status = "confirmed"
               /\ (\A x \in Meetings \ {m} : meeting[x].event # row.event)
             => calendar[row.event].start = row.start
  IN <>[](Cardinality(Confirmed) <= PageSize) => <>[](\A m \in Meetings \ overtaken : Agreed(m))

\* "The task already ensures that nobody was forgotten": of a viewing that is
\* stamped, somebody was told of its time, or the agent has a task about it.
NobodyForgotten ==
  \A m \in Meetings : meeting[m].reminded =>
    \E what \in {"told", "task"} : <<m, meeting[m].start, what>> \in notices
=============================================================================
