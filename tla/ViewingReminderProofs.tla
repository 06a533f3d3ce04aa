----------------------- MODULE ViewingReminderProofs -----------------------
(***************************************************************************)
(* The marks of a reminder and the answer of a customer stand for the time *)
(* the appointment has, for any number of appointments, rounds, sweeps and *)
(* deliveries; and the columns keep to their types.                        *)
(***************************************************************************)
EXTENDS ViewingReminders, TLAPS

Partial(S, T) == UNION {[D -> T] : D \in SUBSET S}

MeetingRow ==
  [status : {"absent", "scheduled", "completed", "cancelled"}, start : Times \cup {None},
   source : {"system", "google"}, event : Events \cup {None}, synced : BOOLEAN,
   reminded : BOOLEAN, reply : {"confirmed", "reschedule", None}]

GoogleEvent == [status : {"absent", "confirmed", "cancelled"}, start : Times \cup {None}]

RoundRecord ==
  [pc : {"idle", "ask", "read", "write", "list", "push", "stamp"}, full : BOOLEAN,
   unseen : SUBSET Events, events : Partial(Events, GoogleEvent),
   found : Partial(Events, [row : Meetings \cup {None}, moved : BOOLEAN]),
   pending : Partial(Meetings, MeetingRow), pushed : Meetings \cup {None},
   result : Events \cup {None}]

RoundTypes ==
  /\ round \in [Rounds -> RoundRecord]
  /\ \A r \in Rounds : round[r].pc = "write" => DOMAIN round[r].found = DOMAIN round[r].events

SweepRecord ==
  [pc : {"idle", "next", "task", "stamp"}, due : Partial(Meetings, Times \cup {None}),
   meeting : Meetings \cup {None}, start : Times \cup {None}]

PhoneRecord ==
  [pc : {"idle", "record"}, meeting : Meetings \cup {None}, start : Times \cup {None},
   reply : {"confirmed", "reschedule", None}]

DiaryTypes ==
  /\ DiaryTypeOK
  /\ RoundTypes
  /\ sweep \in [Sweeps -> SweepRecord]
  /\ phone \in [Phones -> PhoneRecord]

\* What a sweep is about to stamp, it has tried to remind of.
SweepsHaveTried ==
  \A s \in Sweeps :
    sweep[s].pc \in {"task", "stamp"} =>
      \E n \in notices : n[1] = sweep[s].meeting /\ n[2] = sweep[s].start

\* What a delivery is about to record, a customer has answered.
PhonesHaveHeard ==
  \A p \in Phones :
    phone[p].pc = "record" => <<phone[p].meeting, phone[p].start, phone[p].reply>> \in answered

MarksInv ==
  /\ DiaryTypes
  /\ SweepsHaveTried
  /\ PhonesHaveHeard
  /\ RemindedOfThisTime
  /\ AnsweredAboutThisTime

-----------------------------------------------------------------------------
\* A round that changes its own record leaves the others as they are.
LEMMA RoundUpdate ==
  ASSUME RoundTypes, NEW r \in Rounds, NEW new \in RoundRecord,
         new.pc = "write" => DOMAIN new.found = DOMAIN new.events,
         round' = [round EXCEPT ![r] = new]
  PROVE  RoundTypes'
BY DEF RoundTypes

LEMMA IdleRoundType == IdleRound \in RoundRecord
<1>1. <<>> \in Partial(Events, GoogleEvent)
  BY DEF Partial
<1>2. <<>> \in Partial(Events, [row : Meetings \cup {None}, moved : BOOLEAN])
  BY DEF Partial
<1>3. <<>> \in Partial(Meetings, MeetingRow)
  BY DEF Partial
<1> QED
  BY <1>1, <1>2, <1>3 DEF IdleRound, RoundRecord

\* The rows and events, apart from the counters.
RowTypes == meeting \in [Meetings -> MeetingRow] /\ calendar \in [Events -> GoogleEvent]

CounterTypes ==
  /\ link \in [full : BOOLEAN, unseen : SUBSET Events]
  /\ edits \in 0 .. MaxEdits /\ moves \in 0 .. MaxMoves /\ faults \in 0 .. MaxFaults
  /\ now \in 0 .. MaxTime /\ taps \in 0 .. MaxTaps

LEMMA TypeParts == DiaryTypeOK <=> RowTypes /\ CounterTypes
BY DEF DiaryTypeOK, RowTypes, CounterTypes, MeetingRow, GoogleEvent

LEMMA TypePartsNext == DiaryTypeOK' <=> RowTypes' /\ CounterTypes'
BY DEF DiaryTypeOK, RowTypes, CounterTypes, MeetingRow, GoogleEvent

LEMMA RowUpdate ==
  ASSUME RowTypes, NEW m \in Meetings, NEW row \in MeetingRow,
         meeting' = [meeting EXCEPT ![m] = row], calendar' = calendar
  PROVE  RowTypes'
BY DEF RowTypes

-----------------------------------------------------------------------------
\* The office and the agent: no round gets anywhere.
LEMMA OfficeTypes ==
  ASSUME DiaryTypeOK, RoundTypes,
         \/ \E m \in Meetings, t \in Times : Schedule(m, t) \/ Reschedule(m, t)
         \/ \E m \in Meetings : Update(m, "cancelled") \/ Update(m, "completed")
         \/ ResetSyncMarks \/ Reconnect,
         UNCHANGED <<now, taps>>
  PROVE  DiaryTypeOK' /\ RoundTypes'
<1> USE CalendarAssumption DEF google
<1>0. RowTypes /\ CounterTypes
  BY TypeParts
<1>1. ASSUME NEW m \in Meetings, NEW t \in Times, Schedule(m, t) PROVE RowTypes'
  <2>1. [NoMeeting EXCEPT !.status = "scheduled", !.start = t] \in MeetingRow
    BY DEF NoMeeting, MeetingRow
  <2> QED
    BY <1>0, <1>1, <2>1, RowUpdate DEF Schedule
<1>2. ASSUME NEW m \in Meetings, NEW t \in Times, Reschedule(m, t) PROVE RowTypes'
  <2> DEFINE row == [meeting[m] EXCEPT !.start = t, !.status = "scheduled", !.reminded = FALSE,
                                       !.reply = None, !.synced = FALSE]
  <2>1. row \in MeetingRow
    BY ZenonT(60), <1>0 DEF RowTypes, MeetingRow
  <2> QED
    BY <1>0, <1>2, <2>1, RowUpdate DEF Reschedule
<1>3. ASSUME NEW m \in Meetings, NEW status \in {"cancelled", "completed"}, Update(m, status)
      PROVE  RowTypes'
  <2> DEFINE row == [meeting[m] EXCEPT !.status = status, !.synced = FALSE]
  <2>1. row \in MeetingRow
    BY ZenonT(60), <1>0 DEF RowTypes, MeetingRow
  <2> QED
    BY <1>0, <1>3, <2>1, RowUpdate DEF Update
<1>4. ASSUME ResetSyncMarks PROVE RowTypes'
  <2>1. \A m \in Meetings : [meeting[m] EXCEPT !.synced = FALSE] \in MeetingRow
    BY ZenonT(60), <1>0 DEF RowTypes, MeetingRow
  <2> QED
    BY <1>0, <1>4, <2>1 DEF ResetSyncMarks, RowTypes
<1>5. ASSUME Reconnect PROVE RowTypes'
  BY <1>0, <1>5 DEF Reconnect, RowTypes
<1>6. RoundTypes'
  BY DEF RoundTypes, Schedule, Reschedule, Update, ResetSyncMarks, Reconnect
<1>7. CounterTypes'
  <2>1. edits < MaxEdits /\ edits' = edits + 1 /\ UNCHANGED <<moves, faults>>
    BY DEF Schedule, Reschedule, Update, ResetSyncMarks, Reconnect
  <2>2. link' = link \/ link' = [full |-> TRUE, unseen |-> {}]
    BY DEF Schedule, Reschedule, Update, ResetSyncMarks, Reconnect
  <2>3. link' \in [full : BOOLEAN, unseen : SUBSET Events]
    <3>1. [full |-> TRUE, unseen |-> {}] \in [full : BOOLEAN, unseen : SUBSET Events]
      OBVIOUS
    <3>2. link \in [full : BOOLEAN, unseen : SUBSET Events]
      BY <1>0 DEF CounterTypes
    <3> QED
      BY <2>2, <3>1, <3>2
  <2>4. edits' \in 0 .. MaxEdits /\ moves' \in 0 .. MaxMoves /\ faults' \in 0 .. MaxFaults
    BY <1>0, <2>1 DEF CounterTypes
  <2> QED
    BY <1>0, <2>3, <2>4 DEF CounterTypes
<1> QED
  BY <1>1, <1>2, <1>3, <1>4, <1>5, <1>6, <1>7, TypePartsNext

LEMMA AgentTypes ==
  ASSUME DiaryTypeOK, RoundTypes, NEW e \in Events, NEW event \in GoogleEvent,
         AgentChanges(e, event), UNCHANGED <<now, taps>>
  PROVE  DiaryTypeOK' /\ RoundTypes'
<1>1. RoundTypes'
  <2>1. \A r \in Rounds : [round[r] EXCEPT !.unseen = @ \cup {e}] \in RoundRecord
    BY ZenonT(60) DEF RoundTypes, RoundRecord
  <2> QED
    BY <2>1 DEF RoundTypes, RoundRecord, AgentChanges, Noticed
<1>2. RowTypes'
  BY TypeParts DEF RowTypes, AgentChanges
<1>3. CounterTypes'
  BY TypeParts, CalendarAssumption DEF CounterTypes, AgentChanges, Noticed
<1> QED
  BY <1>1, <1>2, <1>3, TypePartsNext

\* A round that only reads.
LEMMA ReadingTypes ==
  ASSUME DiaryTypeOK, RoundTypes, NEW r \in Rounds,
         ReadLink(r) \/ AskChanges(r) \/ PullRead(r) \/ ListPending(r) \/ EndRound(r) \/ BreakOff(r),
         UNCHANGED <<now, taps>>
  PROVE  DiaryTypeOK' /\ RoundTypes'
<1> USE DEF google
<1>1. DiaryTypeOK'
  <2>1. RowTypes'
    BY TypeParts DEF RowTypes, ReadLink, AskChanges, PullRead, ListPending, EndRound, BreakOff
  <2>2. CounterTypes'
    <3>1. UNCHANGED <<link, edits, moves>>
      BY DEF ReadLink, AskChanges, PullRead, ListPending, EndRound, BreakOff
    <3>2. faults' = faults \/ (faults < MaxFaults /\ faults' = faults + 1)
      <4>1. CASE BreakOff(r)
        BY <4>1 DEF BreakOff
      <4>2. CASE ~BreakOff(r)
        BY <4>2 DEF ReadLink, AskChanges, PullRead, ListPending, EndRound
      <4> QED
        BY <4>1, <4>2
    <3>3. CounterTypes
      BY TypeParts
    <3>4. faults' \in 0 .. MaxFaults
      BY <3>2, <3>3, CalendarAssumption DEF CounterTypes
    <3> QED
      BY <3>1, <3>3, <3>4 DEF CounterTypes
  <2> QED
    BY <2>1, <2>2, TypePartsNext
<1>2. CASE ReadLink(r)
  <2> DEFINE new == [IdleRound EXCEPT !.pc = "ask", !.full = link.full, !.unseen = link.unseen]
  <2>1. new \in RoundRecord /\ new.pc # "write"
    BY IdleRoundType DEF RoundRecord, DiaryTypeOK
  <2> QED
    BY <1>1, <1>2, <2>1, RoundUpdate DEF ReadLink
<1>3. CASE AskChanges(r)
  <2>1. PICK listed \in SUBSET Events, full \in BOOLEAN :
          round' = [round EXCEPT ![r] = [@ EXCEPT !.pc = "read", !.full = full, !.unseen = {},
                                                  !.events = [e \in listed |-> calendar[e]]]]
    <3>1. PICK list \in {Confirmed} \cup IF round[r].full THEN {} ELSE {round[r].unseen} :
            \E page \in Pages(list) : \E timed \in SUBSET (page \ Confirmed) :
              round' = [round EXCEPT ![r] = [@ EXCEPT !.pc = "read", !.full = (page # list),
                          !.unseen = {},
                          !.events = [e \in (page \cap Confirmed) \cup timed |-> calendar[e]]]]
      BY <1>3 DEF AskChanges
    <3>2. list \subseteq Events
      BY <3>1 DEF RoundTypes, RoundRecord, Confirmed
    <3>3. PICK page \in Pages(list) : \E timed \in SUBSET (page \ Confirmed) :
            round' = [round EXCEPT ![r] = [@ EXCEPT !.pc = "read", !.full = (page # list),
                        !.unseen = {},
                        !.events = [e \in (page \cap Confirmed) \cup timed |-> calendar[e]]]]
      BY <3>1
    <3>4. page \subseteq Events
      BY <3>2, <3>3 DEF Pages, kSubset
    <3>5. PICK timed \in SUBSET (page \ Confirmed) :
            round' = [round EXCEPT ![r] = [@ EXCEPT !.pc = "read", !.full = (page # list),
                        !.unseen = {},
                        !.events = [e \in (page \cap Confirmed) \cup timed |-> calendar[e]]]]
      BY <3>3
    <3> DEFINE mentioned == (page \cap Confirmed) \cup timed
               more      == page # list
    <3>6. mentioned \in SUBSET Events /\ more \in BOOLEAN
      BY <3>4, <3>5
    <3>7. round' = [round EXCEPT ![r] = [@ EXCEPT !.pc = "read", !.full = more, !.unseen = {},
                                                  !.events = [e \in mentioned |-> calendar[e]]]]
      BY <3>5
    <3> HIDE DEF mentioned, more
    <3> QED
      BY <3>6, <3>7
  <2> DEFINE new == [round[r] EXCEPT !.pc = "read", !.full = full, !.unseen = {},
                                     !.events = [e \in listed |-> calendar[e]]]
  <2>2. [e \in listed |-> calendar[e]] \in Partial(Events, GoogleEvent)
    BY DEF Partial, DiaryTypeOK, GoogleEvent
  <2>3. new \in RoundRecord /\ new.pc # "write"
    <3> DEFINE events == [e \in listed |-> calendar[e]]
    <3> HIDE DEF events
    <3> SUFFICES [round[r] EXCEPT !.pc = "read", !.full = full, !.unseen = {}, !.events = events]
                   \in RoundRecord
      BY DEF RoundTypes, RoundRecord, events
    <3> QED
      BY ZenonT(60), <2>2 DEF RoundRecord, RoundTypes, events
  <2> QED
    BY <1>1, <2>1, <2>3, RoundUpdate
<1>4. CASE PullRead(r)
  <2> DEFINE listed == round[r].events
             Looked(found) == [e \in DOMAIN listed |->
               [row |-> found[e], moved |-> found[e] # None /\ meeting[found[e]].start # listed[e].start]]
  <2>1. PICK found \in [DOMAIN listed -> Meetings \cup {None}] :
          round' = [round EXCEPT ![r] = [@ EXCEPT !.pc = "write", !.found = Looked(found)]]
    BY <1>4 DEF PullRead
  <2>2. listed \in Partial(Events, GoogleEvent) /\ DOMAIN listed \subseteq Events
    BY DEF RoundTypes, RoundRecord, Partial
  <2>3. Looked(found) \in Partial(Events, [row : Meetings \cup {None}, moved : BOOLEAN])
    BY <2>2 DEF Partial
  <2> DEFINE new == [round[r] EXCEPT !.pc = "write", !.found = Looked(found)]
  <2>4. new \in RoundRecord /\ DOMAIN new.found = DOMAIN new.events
    <3> HIDE DEF Looked
    <3>1. DOMAIN Looked(found) = DOMAIN listed
      BY DEF Looked
    <3> QED
      BY ZenonT(60), <2>3, <3>1 DEF RoundRecord, RoundTypes
  <2> QED
    BY <1>1, <2>1, <2>4, RoundUpdate
<1>5. CASE ListPending(r)
  <2>1. PICK waiting \in SUBSET Meetings :
          round' = [round EXCEPT ![r] = [@ EXCEPT !.pc = "push", !.unseen = {},
                                                  !.pending = [m \in waiting |-> meeting[m]]]]
    BY <1>5 DEF ListPending
  <2> DEFINE new == [round[r] EXCEPT !.pc = "push", !.unseen = {},
                                     !.pending = [m \in waiting |-> meeting[m]]]
  <2>2. [m \in waiting |-> meeting[m]] \in Partial(Meetings, MeetingRow)
    BY DEF Partial, DiaryTypeOK, MeetingRow
  <2>3. new \in RoundRecord /\ new.pc # "write"
    BY ZenonT(60), <2>2 DEF RoundRecord, RoundTypes
  <2> QED
    BY <1>1, <2>1, <2>3, RoundUpdate
<1>6. CASE EndRound(r) \/ BreakOff(r)
  <2>1. IdleRound.pc # "write"
    BY DEF IdleRound
  <2> QED
    BY <1>1, <1>6, <2>1, IdleRoundType, RoundUpdate DEF EndRound, BreakOff
<1> QED
  BY <1>2, <1>3, <1>4, <1>5, <1>6

\* What a pull makes of a row is a row.
LEMMA PulledType ==
  ASSUME NEW row \in MeetingRow, NEW event \in GoogleEvent, NEW moved \in BOOLEAN
  PROVE  Pulled(row, event, moved) \in MeetingRow
BY DEF Pulled, MeetingRow, GoogleEvent

LEMMA PullWriteTypes ==
  ASSUME DiaryTypeOK, RoundTypes, NEW r \in Rounds, PullWrite(r), UNCHANGED <<now, taps>>
  PROVE  DiaryTypeOK' /\ RoundTypes'
<1> DEFINE listed == round[r].events
           found  == round[r].found
           fresh  == {e \in DOMAIN listed : found[e].row = None /\ listed[e].status = "confirmed"}
           Anew(e) == [NoMeeting EXCEPT !.status = "scheduled", !.start = listed[e].start,
                                        !.source = "google", !.event = e, !.synced = TRUE]
<1>0. RowTypes /\ CounterTypes
  BY TypeParts
<1>1. /\ DOMAIN listed \subseteq Events /\ DOMAIN found = DOMAIN listed
      /\ \A e \in DOMAIN listed : listed[e] \in GoogleEvent
      /\ \A e \in DOMAIN listed : found[e].moved \in BOOLEAN
  <2>1. listed \in Partial(Events, GoogleEvent)
    BY DEF RoundTypes, RoundRecord
  <2>2. found \in Partial(Events, [row : Meetings \cup {None}, moved : BOOLEAN])
    BY DEF RoundTypes, RoundRecord
  <2>3. DOMAIN found = DOMAIN listed
    BY DEF RoundTypes, PullWrite
  <2> QED
    BY <2>1, <2>2, <2>3 DEF Partial
<1>2. \A e \in DOMAIN listed : Anew(e) \in MeetingRow
  BY <1>1 DEF NoMeeting, MeetingRow, GoogleEvent
<1>3. \A m \in Meetings, e \in DOMAIN listed : Pulled(meeting[m], listed[e], found[e].moved) \in MeetingRow
  BY <1>0, <1>1, PulledType DEF RowTypes
<1>4. RowTypes'
  <2>1. PICK row \in [fresh -> {m \in Meetings : meeting[m].status = "absent"}] :
          meeting' = [m \in Meetings |->
            IF \E e \in fresh : row[e] = m
              THEN LET e == CHOOSE e \in fresh : row[e] = m IN Anew(e)
            ELSE IF \E e \in DOMAIN listed : found[e].row = m
              THEN LET e == CHOOSE e \in DOMAIN listed : found[e].row = m
                   IN Pulled(meeting[m], listed[e], found[e].moved)
            ELSE meeting[m]]
    BY DEF PullWrite
  <2>2. ASSUME NEW m \in Meetings PROVE meeting'[m] \in MeetingRow
    <3>1. CASE \E e \in fresh : row[e] = m
      <4>1. (CHOOSE e \in fresh : row[e] = m) \in DOMAIN listed
        BY <3>1
      <4> QED
        BY <1>2, <2>1, <3>1, <4>1
    <3>2. CASE ~(\E e \in fresh : row[e] = m) /\ \E e \in DOMAIN listed : found[e].row = m
      <4>1. (CHOOSE e \in DOMAIN listed : found[e].row = m) \in DOMAIN listed
        BY <3>2
      <4> QED
        BY <1>3, <2>1, <3>2, <4>1
    <3>3. CASE ~(\E e \in fresh : row[e] = m) /\ ~(\E e \in DOMAIN listed : found[e].row = m)
      BY <1>0, <2>1, <3>3 DEF RowTypes
    <3> QED
      BY <3>1, <3>2, <3>3
  <2>3. calendar' = calendar /\ meeting' = [m \in Meetings |-> meeting'[m]]
    BY <2>1 DEF PullWrite
  <2> QED
    BY <1>0, <2>2, <2>3 DEF RowTypes
<1>5. CounterTypes'
  <2>1. NextToken(r) \in [full : BOOLEAN, unseen : SUBSET Events]
    BY DEF NextToken, RoundTypes, RoundRecord
  <2> QED
    BY <1>0, <2>1 DEF CounterTypes, PullWrite
<1>6. RoundTypes'
  <2>1. [IdleRound EXCEPT !.pc = "list"] \in RoundRecord
    BY IdleRoundType DEF RoundRecord
  <2>2. [IdleRound EXCEPT !.pc = "list"].pc # "write"
    BY DEF IdleRound
  <2> QED
    BY <2>1, <2>2, RoundUpdate DEF PullWrite
<1> QED
  BY <1>4, <1>5, <1>6, TypePartsNext

LEMMA UpsertTypes ==
  ASSUME DiaryTypeOK, RoundTypes, NEW r \in Rounds, UpsertEvent(r), UNCHANGED <<now, taps>>
  PROVE  DiaryTypeOK' /\ RoundTypes'
<1> DEFINE pending == round[r].pending
           rest(m) == [x \in DOMAIN pending \ {m} |-> pending[x]]
           After(m, e) == [round[r] EXCEPT !.pc = "stamp", !.pushed = m, !.pending = rest(m),
                             !.result = IF pending[m].status = "cancelled" THEN None ELSE e]
           Heard(x, e) == [round[x] EXCEPT !.unseen = @ \cup {e}]
<1>0. RowTypes /\ CounterTypes
  BY TypeParts
<1>1. /\ DOMAIN pending \subseteq Meetings
      /\ \A m \in DOMAIN pending : pending[m] \in MeetingRow
  <2>1. pending \in Partial(Meetings, MeetingRow)
    BY DEF RoundTypes, RoundRecord
  <2> QED
    BY <2>1 DEF Partial
<1>a. PICK m \in DOMAIN pending : \E e \in Target(pending[m]) :
        IF e = None
          THEN round' = [round EXCEPT ![r] = After(m, None)] /\ UNCHANGED google
          ELSE /\ calendar' = [calendar EXCEPT ![e] = Sent(pending[m])]
               /\ link' = [link EXCEPT !.unseen = @ \cup {e}]
               /\ round' = [x \in Rounds |->
                    IF x = r THEN After(m, e)
                    ELSE IF round[x].pc \in {"ask", "read", "write"} THEN Heard(x, e)
                    ELSE round[x]]
  BY DEF UpsertEvent
<1>2. PICK e \in Target(pending[m]) :
        IF e = None
          THEN round' = [round EXCEPT ![r] = After(m, None)] /\ UNCHANGED google
          ELSE /\ calendar' = [calendar EXCEPT ![e] = Sent(pending[m])]
               /\ link' = [link EXCEPT !.unseen = @ \cup {e}]
               /\ round' = [x \in Rounds |->
                    IF x = r THEN After(m, e)
                    ELSE IF round[x].pc \in {"ask", "read", "write"} THEN Heard(x, e)
                    ELSE round[x]]
  BY <1>a
<1>3. e \in Events \cup {None}
  BY <1>1, <1>2 DEF Target, MeetingRow
<1>4. Sent(pending[m]) \in GoogleEvent
  BY <1>1, <1>2 DEF Sent, MeetingRow, GoogleEvent
<1>5. \A d \in Events \cup {None} : After(m, d) \in RoundRecord /\ After(m, d).pc = "stamp"
  <2>1. rest(m) \in Partial(Meetings, MeetingRow)
    <3>1. rest(m) \in [DOMAIN pending \ {m} -> MeetingRow]
      <4> HIDE DEF pending
      <4> QED
        BY <1>1
    <3>2. DOMAIN pending \ {m} \in SUBSET Meetings
      BY <1>1
    <3> HIDE DEF rest, pending
    <3> QED
      BY <3>1, <3>2 DEF Partial
  <2>2. round[r] \in RoundRecord /\ m \in Meetings
    BY <1>1, <1>a DEF RoundTypes
  <2>3. \A d \in Events \cup {None} :
          (IF pending[m].status = "cancelled" THEN None ELSE d) \in Events \cup {None}
    OBVIOUS
  <2> HIDE DEF rest, pending
  <2> QED
    BY <2>1, <2>2, <2>3 DEF RoundRecord
<1>6. RowTypes'
  <2>1. meeting' = meeting
    BY DEF UpsertEvent
  <2>2. \/ calendar' = calendar
        \/ e \in Events /\ calendar' = [calendar EXCEPT ![e] = Sent(pending[m])]
    BY <1>2, <1>3 DEF google
  <2> HIDE DEF pending
  <2> QED
    BY <1>0, <1>4, <2>1, <2>2 DEF RowTypes
<1>7. CounterTypes'
  <2>1. link' \in [full : BOOLEAN, unseen : SUBSET Events]
    <3> HIDE DEF pending, After, Heard
    <3>1. CASE e # None
      <4>1. e \in Events /\ link' = [link EXCEPT !.unseen = @ \cup {e}]
        BY <1>2, <1>3, <3>1, Zenon
      <4> QED
        BY <1>0, <4>1 DEF CounterTypes
    <3>2. CASE e = None
      <4>1. UNCHANGED google
        BY <1>2, <3>2, Zenon
      <4> QED
        BY <1>0, <4>1 DEF CounterTypes, google
    <3> QED
      BY <3>1, <3>2
  <2> QED
    BY <1>0, <2>1 DEF CounterTypes, UpsertEvent
<1>8. CASE e = None
  BY <1>2, <1>5, <1>6, <1>7, <1>8, RoundUpdate, TypePartsNext
<1>9. CASE e # None
  <2>1. \A x \in Rounds : Heard(x, e) \in RoundRecord
    BY ZenonT(60), <1>3, <1>9 DEF RoundTypes, RoundRecord
  <2>2. \A x \in Rounds : /\ Heard(x, e).pc = round[x].pc
                           /\ Heard(x, e).found = round[x].found
                           /\ Heard(x, e).events = round[x].events
    BY DEF RoundTypes, RoundRecord
  <2> HIDE DEF After, Heard
  <2>3. RoundTypes'
    BY <1>2, <1>3, <1>5, <1>9, <2>1, <2>2 DEF RoundTypes
  <2> QED
    BY <1>6, <1>7, <2>3, TypePartsNext
<1> QED
  BY <1>8, <1>9

LEMMA StampTypes ==
  ASSUME DiaryTypeOK, RoundTypes, NEW r \in Rounds, Stamp(r), UNCHANGED <<now, taps>>
  PROVE  DiaryTypeOK' /\ RoundTypes'
<1> DEFINE m == round[r].pushed
           row == [meeting[m] EXCEPT !.event = round[r].result, !.synced = TRUE]
           new == [round[r] EXCEPT !.pc = "push", !.pushed = None, !.result = None]
<1>0. RowTypes /\ CounterTypes
  BY TypeParts
<1>1. RowTypes'
  <2>1. CASE m \in Meetings
    <3>1. meeting[m] \in MeetingRow /\ round[r].result \in Events \cup {None}
      BY <1>0, <2>1 DEF RowTypes, RoundTypes, RoundRecord
    <3>2. row \in MeetingRow
      <4> HIDE DEF m
      <4> QED
        BY <3>1 DEF MeetingRow
    <3> QED
      BY <1>0, <2>1, <3>2, RowUpdate DEF Stamp, google
  <2>2. CASE m \notin Meetings
    BY <1>0, <2>2 DEF RowTypes, Stamp, google
  <2> QED
    BY <2>1, <2>2
<1>2. CounterTypes'
  BY <1>0 DEF CounterTypes, Stamp, google
<1>3. new \in RoundRecord /\ new.pc # "write"
  BY ZenonT(60) DEF RoundTypes, RoundRecord
<1>4. RoundTypes'
  BY <1>3, RoundUpdate DEF Stamp
<1> QED
  BY <1>1, <1>2, <1>4, TypePartsNext

LEMMA CalendarTypes ==
  ASSUME DiaryTypes, Noted(CalendarNext)
  PROVE  DiaryTypes'
<1> SUFFICES DiaryTypeOK' /\ RoundTypes'
  BY DEF DiaryTypes, Noted
<1>1. DiaryTypeOK /\ RoundTypes /\ CalendarNext /\ UNCHANGED <<now, taps>>
  BY DEF DiaryTypes, Noted
<1>2. CASE \/ \E m \in Meetings, t \in Times : Schedule(m, t) \/ Reschedule(m, t)
           \/ \E m \in Meetings : Update(m, "cancelled") \/ Update(m, "completed")
           \/ ResetSyncMarks \/ Reconnect
  BY <1>1, <1>2, OfficeTypes
<1>3. ASSUME NEW e \in Events, NEW t \in Times, AgentAdds(e, t) \/ AgentMoves(e, t)
      PROVE  DiaryTypeOK' /\ RoundTypes'
  <2>1. PICK event \in GoogleEvent : AgentChanges(e, event)
    BY <1>1, <1>3, TypeParts DEF AgentAdds, AgentMoves, RowTypes, GoogleEvent
  <2> QED
    BY <1>1, <2>1, AgentTypes
<1>4. ASSUME NEW e \in Events, AgentDeletes(e)
      PROVE  DiaryTypeOK' /\ RoundTypes'
  <2>1. PICK event \in GoogleEvent : AgentChanges(e, event)
    BY <1>1, <1>4, TypeParts DEF AgentDeletes, RowTypes, GoogleEvent
  <2> QED
    BY <1>1, <2>1, AgentTypes
<1>5. ASSUME NEW r \in Rounds, Sync(r) \/ BreakOff(r)
      PROVE  DiaryTypeOK' /\ RoundTypes'
  BY <1>1, <1>5, ReadingTypes, PullWriteTypes, UpsertTypes, StampTypes DEF Sync
<1> QED
  BY <1>1, <1>2, <1>3, <1>4, <1>5 DEF CalendarNext

-----------------------------------------------------------------------------
\* What a step of a sweep, of a delivery or of the clock does to the types.
LEMMA ReminderTypes ==
  ASSUME DiaryTypes,
         \/ \E s \in Sweeps : Sweep(s) \/ KillSweep(s)
         \/ \E p \in Phones : Tap(p) \/ RecordReply(p)
         \/ Pass
  PROVE  DiaryTypes'
<1> USE DEF calendarVars, google
<1>0. RowTypes /\ CounterTypes /\ RoundTypes
  BY TypeParts DEF DiaryTypes
<1>1. RoundTypes' /\ CounterTypes'
  <2>1. UNCHANGED <<link, round, edits, moves>>
    BY DEF Sweep, ListDue, Deliver, OpenTask, StampReminder, EndSweep, KillSweep, Tap, RecordReply, Pass
  <2>2. /\ faults' = faults \/ (faults < MaxFaults /\ faults' = faults + 1)
        /\ taps' = taps \/ (taps < MaxTaps /\ taps' = taps + 1)
        /\ now' = now \/ (now < MaxTime /\ now' = now + 1)
    BY DEF Sweep, ListDue, Deliver, OpenTask, StampReminder, EndSweep, KillSweep, Tap, RecordReply, Pass
  <2>3. faults' \in 0 .. MaxFaults /\ taps' \in 0 .. MaxTaps /\ now' \in 0 .. MaxTime
    BY <1>0, <2>2, CalendarAssumption, ReminderAssumption DEF CounterTypes
  <2> QED
    BY <1>0, <2>1, <2>3 DEF RoundTypes, CounterTypes
<1>2. ASSUME NEW m \in Meetings, NEW row \in MeetingRow, meeting' = [meeting EXCEPT ![m] = row],
             calendar' = calendar
      PROVE  DiaryTypeOK'
  BY <1>0, <1>1, <1>2, RowUpdate, TypePartsNext
<1>3. UNCHANGED <<meeting, calendar>> => DiaryTypeOK'
  BY <1>0, <1>1, TypePartsNext DEF RowTypes
<1>4. sweep \in [Sweeps -> SweepRecord] /\ phone \in [Phones -> PhoneRecord]
  BY DEF DiaryTypes
<1>5. ASSUME NEW s \in Sweeps, ListDue(s) PROVE DiaryTypes'
  <2> DEFINE due == [m \in {x \in Meetings : Due(x)} |-> meeting[m].start]
             new == [IdleSweep EXCEPT !.pc = "next", !.due = due]
  <2>1. due \in [{x \in Meetings : Due(x)} -> Times \cup {None}]
    BY <1>0 DEF RowTypes, MeetingRow
  <2>2. due \in Partial(Meetings, Times \cup {None})
    <3> HIDE DEF due
    <3> QED
      BY <2>1 DEF Partial
  <2>3. new \in SweepRecord
    <3> HIDE DEF due
    <3> QED
      BY <2>2 DEF IdleSweep, SweepRecord
  <2> QED
    BY <1>1, <1>3, <1>4, <1>5, <2>3 DEF ListDue, DiaryTypes
<1>6. ASSUME NEW s \in Sweeps, Deliver(s) PROVE DiaryTypes'
  <2> DEFINE due == sweep[s].due
             rest(m) == [x \in DOMAIN due \ {m} |-> due[x]]
  <2>1. DOMAIN due \subseteq Meetings /\ \A m \in DOMAIN due : due[m] \in Times \cup {None}
    <3>1. due \in Partial(Meetings, Times \cup {None})
      BY <1>4 DEF SweepRecord
    <3> QED
      BY <3>1 DEF Partial
  <2>2. PICK m \in DOMAIN due, told \in BOOLEAN, missed \in BOOLEAN :
          \/ sweep' = [sweep EXCEPT ![s] = [pc |-> IF missed THEN "task" ELSE "stamp", due |-> rest(m),
                                            meeting |-> m, start |-> due[m]]]
          \/ sweep' = [sweep EXCEPT ![s].due = rest(m)]
    BY <1>6 DEF Deliver
  <2>3. rest(m) \in Partial(Meetings, Times \cup {None})
    <3>1. rest(m) \in [DOMAIN due \ {m} -> Times \cup {None}]
      BY <2>1
    <3> HIDE DEF rest
    <3> QED
      BY <2>1, <3>1 DEF Partial
  <2>4. sweep' \in [Sweeps -> SweepRecord]
    <3>1. m \in Meetings /\ due[m] \in Times \cup {None}
      BY <2>1
    <3>2. ASSUME NEW pc \in {"task", "stamp"}
          PROVE  [pc |-> pc, due |-> rest(m), meeting |-> m, start |-> due[m]] \in SweepRecord
      <4> HIDE DEF rest, due
      <4> QED
        BY <2>3, <3>1 DEF SweepRecord
    <3>3. [sweep[s] EXCEPT !.due = rest(m)] \in SweepRecord
      <4> HIDE DEF rest
      <4> QED
        BY <1>4, <2>3 DEF SweepRecord
    <3> HIDE DEF rest, due
    <3> QED
      BY <1>4, <2>2, <3>2, <3>3
  <2> QED
    BY <1>1, <1>3, <1>4, <1>6, <2>4 DEF Deliver, DiaryTypes
<1>7. ASSUME NEW s \in Sweeps, OpenTask(s) PROVE DiaryTypes'
  <2>1. sweep' \in [Sweeps -> SweepRecord]
    BY <1>4, <1>7 DEF OpenTask, SweepRecord
  <2> QED
    BY <1>1, <1>3, <1>4, <1>7, <2>1 DEF OpenTask, DiaryTypes
<1>8. ASSUME NEW s \in Sweeps, StampReminder(s) PROVE DiaryTypes'
  <2>1. sweep' \in [Sweeps -> SweepRecord]
    BY <1>4, <1>8 DEF StampReminder, SweepRecord
  <2>2. DiaryTypeOK'
    <3> DEFINE m == sweep[s].meeting
               row == [meeting[m] EXCEPT !.reminded = TRUE]
    <3>1. meeting' = meeting \/ meeting' = [meeting EXCEPT ![m] = row]
      BY <1>8 DEF StampReminder
    <3>2. CASE m \in Meetings
      <4>1. meeting[m] \in MeetingRow
        BY <1>0, <3>2 DEF RowTypes
      <4>2. row \in MeetingRow
        <5> HIDE DEF m
        <5> QED
          BY <4>1 DEF MeetingRow
      <4> QED
        BY <1>2, <1>3, <1>8, <3>1, <3>2, <4>2 DEF StampReminder
    <3>3. CASE m \notin Meetings
      <4>1. meeting' = meeting
        BY <1>0, <3>1, <3>3 DEF RowTypes
      <4> QED
        BY <1>3, <1>8, <4>1 DEF StampReminder
    <3> QED
      BY <3>2, <3>3
  <2> QED
    BY <1>1, <1>4, <1>8, <2>1, <2>2 DEF StampReminder, DiaryTypes
<1>9. ASSUME NEW s \in Sweeps, EndSweep(s) \/ KillSweep(s) PROVE DiaryTypes'
  <2>1. <<>> \in Partial(Meetings, Times \cup {None})
    BY DEF Partial
  <2>2. IdleSweep \in SweepRecord
    BY <2>1 DEF IdleSweep, SweepRecord
  <2> QED
    BY <1>1, <1>3, <1>4, <1>9, <2>2 DEF EndSweep, KillSweep, DiaryTypes
<1>10. ASSUME NEW p \in Phones, Tap(p) PROVE DiaryTypes'
  <2>1. phone' \in [Phones -> PhoneRecord]
    BY <1>4, <1>10 DEF Tap, PhoneRecord
  <2> QED
    BY <1>1, <1>3, <1>4, <1>10, <2>1 DEF Tap, DiaryTypes
<1>11. ASSUME NEW p \in Phones, RecordReply(p) PROVE DiaryTypes'
  <2>1. phone' \in [Phones -> PhoneRecord]
    BY <1>4, <1>11 DEF RecordReply, IdlePhone, PhoneRecord
  <2>2. DiaryTypeOK'
    <3> DEFINE m == phone[p].meeting
               row == [meeting[m] EXCEPT !.reply = phone[p].reply]
    <3>1. meeting' = meeting \/ meeting' = [meeting EXCEPT ![m] = row]
      BY <1>11 DEF RecordReply
    <3>2. CASE m \in Meetings
      <4>1. phone[p].reply \in {"confirmed", "reschedule", None}
        BY <1>4 DEF PhoneRecord
      <4>2. meeting[m] \in MeetingRow
        BY <1>0, <3>2 DEF RowTypes
      <4>3. row \in MeetingRow
        <5> HIDE DEF m
        <5> QED
          BY <4>1, <4>2 DEF MeetingRow
      <4> QED
        BY <1>2, <1>3, <1>11, <3>1, <3>2, <4>3 DEF RecordReply
    <3>3. CASE m \notin Meetings
      <4>1. meeting' = meeting
        BY <1>0, <3>1, <3>3 DEF RowTypes
      <4> QED
        BY <1>3, <1>11, <4>1 DEF RecordReply
    <3> QED
      BY <3>2, <3>3
  <2> QED
    BY <1>1, <1>4, <1>11, <2>1, <2>2 DEF RecordReply, DiaryTypes
<1>12. CASE Pass
  BY <1>1, <1>3, <1>4, <1>12 DEF Pass, DiaryTypes
<1> QED
  BY <1>5, <1>6, <1>7, <1>8, <1>9, <1>10, <1>11, <1>12 DEF Sweep

-----------------------------------------------------------------------------
\* What a step of the office or of the synchronisation leaves of a row whose
\* transactions did not cross: a mark survives only with its time, and a row
\* that gets no new place keeps what its reminder rests on.
MarksKept(m) ==
  /\ meeting'[m].reminded => meeting[m].reminded /\ meeting'[m].start = meeting[m].start
  /\ meeting'[m].reply # None =>
       meeting'[m].reply = meeting[m].reply /\ meeting'[m].start = meeting[m].start
  /\ \/ Placed(m)
     \/ meeting[m].status = "absent"
     \/ /\ meeting'[m].start = meeting[m].start
        /\ meeting[m].status # "scheduled" => meeting'[m].status # "scheduled"
        /\ meeting[m].reminded => meeting'[m].reminded \/ meeting'[m].status # "scheduled"
  /\ meeting'[m].status = "absent" => meeting[m].status = "absent"

LEMMA UnchangedRowKeepsMarks ==
  ASSUME NEW m \in Meetings, meeting'[m] = meeting[m]
  PROVE  MarksKept(m)
BY DEF MarksKept

LEMMA OfficeKeepsMarks ==
  ASSUME RowTypes, edits \in Nat, NEW m \in Meetings,
         \/ \E x \in Meetings, t \in Times : Schedule(x, t) \/ Reschedule(x, t)
         \/ \E x \in Meetings : Update(x, "cancelled") \/ Update(x, "completed")
         \/ ResetSyncMarks
  PROVE  MarksKept(m)
<1>0. meeting[m] \in MeetingRow /\ edits' # edits
  <2>1. edits' = edits + 1
    BY DEF Schedule, Reschedule, Update, ResetSyncMarks
  <2> QED
    BY <2>1 DEF RowTypes
<1>1. ASSUME NEW x \in Meetings, NEW t \in Times, Schedule(x, t) PROVE MarksKept(m)
  <2>1. CASE x = m
    <3>1. meeting'[m] = [NoMeeting EXCEPT !.status = "scheduled", !.start = t]
      BY <1>1, <2>1 DEF Schedule, RowTypes
    <3> QED
      BY ZenonT(60), <1>1, <2>1, <3>1 DEF Schedule, NoMeeting, MarksKept
  <2>2. CASE x # m
    BY <1>1, <2>2, UnchangedRowKeepsMarks DEF Schedule, RowTypes
  <2> QED
    BY <2>1, <2>2
<1>2. ASSUME NEW x \in Meetings, NEW t \in Times, Reschedule(x, t) PROVE MarksKept(m)
  <2>1. CASE x = m
    <3>1. meeting'[m] = [meeting[m] EXCEPT !.start = t, !.status = "scheduled", !.reminded = FALSE,
                                           !.reply = None, !.synced = FALSE]
      BY <1>2, <2>1 DEF Reschedule, RowTypes
    <3>2. /\ meeting'[m].reminded = FALSE /\ meeting'[m].reply = None
          /\ meeting'[m].status = "scheduled"
      BY <1>0, <3>1 DEF MeetingRow
    <3>3. CASE meeting'[m] = meeting[m]
      BY <3>3, UnchangedRowKeepsMarks
    <3>4. CASE meeting'[m] # meeting[m]
      BY <1>0, <3>2, <3>4 DEF Placed, MarksKept
    <3> QED
      BY <3>3, <3>4
  <2>2. CASE x # m
    BY <1>2, <2>2, UnchangedRowKeepsMarks DEF Reschedule, RowTypes
  <2> QED
    BY <2>1, <2>2
<1>3. ASSUME NEW x \in Meetings, NEW status \in {"cancelled", "completed"}, Update(x, status)
      PROVE  MarksKept(m)
  <2>1. CASE x = m
    <3>1. meeting'[m] = [meeting[m] EXCEPT !.status = status, !.synced = FALSE]
      BY <1>3, <2>1 DEF Update, RowTypes
    <3>2. /\ meeting'[m].status = status /\ meeting'[m].start = meeting[m].start
          /\ meeting'[m].reminded = meeting[m].reminded /\ meeting'[m].reply = meeting[m].reply
      BY <1>0, <3>1 DEF MeetingRow
    <3> QED
      BY <1>3, <2>1, <3>2 DEF Update, MarksKept
  <2>2. CASE x # m
    BY <1>3, <2>2, UnchangedRowKeepsMarks DEF Update, RowTypes
  <2> QED
    BY <2>1, <2>2
<1>4. CASE ResetSyncMarks
  <2>1. meeting'[m] = meeting[m] \/ meeting'[m] = [meeting[m] EXCEPT !.synced = FALSE]
    BY <1>4 DEF ResetSyncMarks
  <2>2. /\ meeting'[m].status = meeting[m].status /\ meeting'[m].start = meeting[m].start
        /\ meeting'[m].reminded = meeting[m].reminded /\ meeting'[m].reply = meeting[m].reply
    BY <1>0, <2>1 DEF MeetingRow
  <2> QED
    BY <2>2 DEF MarksKept
<1> QED
  BY <1>1, <1>2, <1>3, <1>4

LEMMA PullKeepsMarks ==
  ASSUME RowTypes, RoundTypes, NEW r \in Rounds, PullWrite(r), NEW m \in Meetings, m \notin Crossed(r)
  PROVE  MarksKept(m)
<1> DEFINE listed == round[r].events
           found  == round[r].found
           fresh  == {e \in DOMAIN listed : found[e].row = None /\ listed[e].status = "confirmed"}
           Anew(e) == [NoMeeting EXCEPT !.status = "scheduled", !.start = listed[e].start,
                                        !.source = "google", !.event = e, !.synced = TRUE]
<1>0. meeting[m] \in MeetingRow
  BY DEF RowTypes
<1>1. \A e \in DOMAIN listed :
        found[e].row = m => found[e].moved = (meeting[m].start # listed[e].start)
  <2>1. round'[r].pc = "list" /\ round[r].pc = "write"
    BY DEF PullWrite, RoundTypes, IdleRound
  <2> QED
    BY <2>1 DEF Crossed
<1>2. PICK row \in [fresh -> {x \in Meetings : meeting[x].status = "absent"}] :
        meeting' = [x \in Meetings |->
          IF \E e \in fresh : row[e] = x
            THEN LET e == CHOOSE e \in fresh : row[e] = x IN Anew(e)
          ELSE IF \E e \in DOMAIN listed : found[e].row = x
            THEN LET e == CHOOSE e \in DOMAIN listed : found[e].row = x
                 IN Pulled(meeting[x], listed[e], found[e].moved)
          ELSE meeting[x]]
  BY DEF PullWrite
<1>3. CASE \E e \in fresh : row[e] = m
  <2>1. meeting[m].status = "absent"
    BY <1>2, <1>3
  <2>2. PICK e \in fresh : meeting'[m] = Anew(e)
    BY <1>2, <1>3
  <2> QED
    BY <2>1, <2>2 DEF NoMeeting, MarksKept
<1>4. CASE ~(\E e \in fresh : row[e] = m) /\ \E e \in DOMAIN listed : found[e].row = m
  <2>1. PICK e \in DOMAIN listed :
          found[e].row = m /\ meeting'[m] = Pulled(meeting[m], listed[e], found[e].moved)
    BY <1>2, <1>4
  <2>2. found[e].moved = (meeting[m].start # listed[e].start)
    BY <1>1, <2>1
  <2>3. CASE listed[e].status = "cancelled"
    <3>1. meeting'[m] = [meeting[m] EXCEPT !.status = "cancelled", !.synced = TRUE]
      BY <2>1, <2>3 DEF Pulled
    <3>2. /\ meeting'[m].status = "cancelled" /\ meeting'[m].start = meeting[m].start
          /\ meeting'[m].reminded = meeting[m].reminded /\ meeting'[m].reply = meeting[m].reply
      BY <1>0, <3>1 DEF MeetingRow
    <3> QED
      BY <3>2 DEF MarksKept
  <2>4. CASE listed[e].status # "cancelled" /\ meeting[m].start = listed[e].start
    <3>1. /\ meeting'[m].status = meeting[m].status /\ meeting'[m].start = meeting[m].start
          /\ meeting'[m].reminded = meeting[m].reminded /\ meeting'[m].reply = meeting[m].reply
      BY ZenonT(60), <1>0, <2>1, <2>2, <2>4 DEF Pulled, MeetingRow
    <3> QED
      BY <3>1 DEF MarksKept
  <2>5. CASE listed[e].status # "cancelled" /\ meeting[m].start # listed[e].start
    <3>1. /\ meeting'[m].status = meeting[m].status /\ meeting'[m].start # meeting[m].start
          /\ ~meeting'[m].reminded /\ meeting'[m].reply = None
      BY ZenonT(60), <1>0, <2>1, <2>2, <2>5 DEF Pulled, MeetingRow
    <3> QED
      BY <3>1 DEF MarksKept, Placed
  <2> QED
    BY <2>3, <2>4, <2>5
<1>5. CASE ~(\E e \in fresh : row[e] = m) /\ ~(\E e \in DOMAIN listed : found[e].row = m)
  BY <1>2, <1>5, UnchangedRowKeepsMarks
<1> QED
  BY <1>3, <1>4, <1>5

LEMMA StampKeepsMarks ==
  ASSUME RowTypes, RoundTypes, NEW r \in Rounds, Stamp(r), NEW m \in Meetings
  PROVE  MarksKept(m)
<1>0. meeting[m] \in MeetingRow
  BY DEF RowTypes
<1>1. \/ meeting'[m] = meeting[m]
      \/ meeting'[m] = [meeting[m] EXCEPT !.event = round[r].result, !.synced = TRUE]
  BY DEF Stamp, RowTypes
<1>2. /\ meeting'[m].status = meeting[m].status /\ meeting'[m].start = meeting[m].start
      /\ meeting'[m].reminded = meeting[m].reminded /\ meeting'[m].reply = meeting[m].reply
  BY <1>0, <1>1 DEF MeetingRow
<1> QED
  BY <1>2 DEF MarksKept

LEMMA CalendarKeepsMarks ==
  ASSUME DiaryTypes, Noted(CalendarNext), NEW m \in Meetings, m \notin crossed'
  PROVE  m \notin crossed /\ MarksKept(m)
<1>1. RowTypes /\ RoundTypes /\ edits \in Nat
  BY TypeParts, CalendarAssumption DEF DiaryTypes, CounterTypes
<1>2. m \notin crossed /\ \A r \in Rounds : m \notin Crossed(r)
  BY DEF Noted
<1>3. CASE \/ \E x \in Meetings, t \in Times : Schedule(x, t) \/ Reschedule(x, t)
           \/ \E x \in Meetings : Update(x, "cancelled") \/ Update(x, "completed")
           \/ ResetSyncMarks
  BY <1>1, <1>2, <1>3, OfficeKeepsMarks
<1>4. CASE meeting' = meeting
  BY <1>2, <1>4, UnchangedRowKeepsMarks
<1>5. CASE \E r \in Rounds : PullWrite(r)
  BY <1>1, <1>2, <1>5, PullKeepsMarks
<1>6. CASE \E r \in Rounds : Stamp(r)
  BY <1>1, <1>2, <1>6, StampKeepsMarks
<1>7. Reconnect \/ (\E e \in Events, t \in Times : AgentAdds(e, t) \/ AgentMoves(e, t))
        \/ (\E e \in Events : AgentDeletes(e)) => meeting' = meeting
  BY DEF Reconnect, AgentAdds, AgentMoves, AgentDeletes, AgentChanges
<1>8. ASSUME NEW r \in Rounds, Sync(r) \/ BreakOff(r)
      PROVE  PullWrite(r) \/ Stamp(r) \/ meeting' = meeting
  BY <1>8 DEF Sync, ReadLink, AskChanges, PullRead, ListPending, UpsertEvent, EndRound, BreakOff
<1> QED
  BY <1>3, <1>4, <1>5, <1>6, <1>7, <1>8 DEF Noted, CalendarNext

-----------------------------------------------------------------------------
\* The first state.
LEMMA MarksInit == DiaryInit => MarksInv
<1> SUFFICES ASSUME DiaryInit PROVE MarksInv
  OBVIOUS
<1>1. RowTypes /\ CounterTypes
  BY CalendarAssumption, ReminderAssumption
  DEF DiaryInit, RemindersInit, CalendarInit, RowTypes, CounterTypes, NoMeeting, NoEvent, MeetingRow, GoogleEvent
<1>2. RoundTypes
  BY IdleRoundType DEF DiaryInit, RemindersInit, CalendarInit, RoundTypes, IdleRound
<1>3. sweep \in [Sweeps -> SweepRecord] /\ phone \in [Phones -> PhoneRecord]
  <2>1. <<>> \in Partial(Meetings, Times \cup {None})
    BY DEF Partial
  <2> QED
    BY <2>1 DEF DiaryInit, RemindersInit, IdleSweep, IdlePhone, SweepRecord, PhoneRecord
<1>4. SweepsHaveTried /\ PhonesHaveHeard
  BY DEF DiaryInit, RemindersInit, SweepsHaveTried, PhonesHaveHeard, IdleSweep, IdlePhone
<1>5. RemindedOfThisTime /\ AnsweredAboutThisTime
  BY DEF DiaryInit, RemindersInit, CalendarInit, NoMeeting, RemindedOfThisTime, AnsweredAboutThisTime
<1> QED
  BY <1>1, <1>2, <1>3, <1>4, <1>5, TypeParts DEF MarksInv, DiaryTypes

LEMMA CalendarMarks ==
  ASSUME MarksInv, Noted(CalendarNext)
  PROVE  MarksInv'
<1>1. DiaryTypes /\ DiaryTypes'
  BY CalendarTypes DEF MarksInv
<1>2. UNCHANGED <<sweep, phone, notices, answered>>
  BY DEF Noted
<1>3. SweepsHaveTried' /\ PhonesHaveHeard'
  BY <1>2 DEF MarksInv, SweepsHaveTried, PhonesHaveHeard
<1>4. RemindedOfThisTime'
  BY <1>1, <1>2, CalendarKeepsMarks DEF MarksInv, RemindedOfThisTime, MarksKept
<1>5. AnsweredAboutThisTime'
  BY <1>1, <1>2, CalendarKeepsMarks DEF MarksInv, AnsweredAboutThisTime, MarksKept
<1> QED
  BY <1>1, <1>3, <1>4, <1>5 DEF MarksInv

\* One step of a sweep: it reminds before it stamps, and stamps what it read.
LEMMA SweepMarks ==
  ASSUME MarksInv, NEW s \in Sweeps, Sweep(s) \/ KillSweep(s)
  PROVE  MarksInv'
<1> USE DEF calendarVars, google
<1>0. /\ DiaryTypes' /\ RowTypes /\ sweep \in [Sweeps -> SweepRecord]
      /\ SweepsHaveTried /\ PhonesHaveHeard /\ RemindedOfThisTime /\ AnsweredAboutThisTime
  BY ReminderTypes, TypeParts DEF MarksInv, DiaryTypes
<1>1. notices \subseteq notices' /\ UNCHANGED <<phone, answered, crossed>>
  BY DEF Sweep, ListDue, Deliver, OpenTask, StampReminder, EndSweep, KillSweep
<1>2. PhonesHaveHeard'
  BY <1>0, <1>1 DEF PhonesHaveHeard
<1>3. CASE StampReminder(s)
  <2>1. SweepsHaveTried'
    BY <1>0, <1>1, <1>3 DEF SweepsHaveTried, StampReminder, SweepRecord
  <2>2. ASSUME NEW m \in Meetings
        PROVE  /\ meeting'[m].start = meeting[m].start /\ meeting'[m].reply = meeting[m].reply
               /\ \/ meeting'[m].reminded = meeting[m].reminded
                  \/ m = sweep[s].meeting /\ meeting[m].start = sweep[s].start
    <3>1. meeting[m] \in MeetingRow
      BY <1>0 DEF RowTypes
    <3>2. \/ meeting'[m] = meeting[m]
          \/ /\ meeting'[m] = [meeting[m] EXCEPT !.reminded = TRUE]
             /\ m = sweep[s].meeting /\ meeting[m].start = sweep[s].start
      BY <1>0, <1>3 DEF StampReminder, SameAppointment, RowTypes
    <3> QED
      BY <3>1, <3>2 DEF MeetingRow
  <2>3. \E n \in notices : n[1] = sweep[s].meeting /\ n[2] = sweep[s].start
    BY <1>0, <1>3 DEF SweepsHaveTried, StampReminder
  <2>4. RemindedOfThisTime'
    BY <1>0, <1>1, <2>2, <2>3 DEF RemindedOfThisTime
  <2>5. AnsweredAboutThisTime'
    BY <1>0, <1>1, <2>2 DEF AnsweredAboutThisTime
  <2> QED
    BY <1>0, <1>2, <2>1, <2>4, <2>5 DEF MarksInv
<1>4. CASE ~StampReminder(s)
  <2>1. meeting' = meeting
    BY <1>4 DEF Sweep, ListDue, Deliver, OpenTask, EndSweep, KillSweep
  <2>2. RemindedOfThisTime' /\ AnsweredAboutThisTime'
    BY <1>0, <1>1, <2>1 DEF RemindedOfThisTime, AnsweredAboutThisTime
  <2>3. CASE ListDue(s) \/ EndSweep(s) \/ KillSweep(s)
    <3>1. PICK new : sweep' = [sweep EXCEPT ![s] = new] /\ new.pc \in {"next", "idle"}
      <4>1. CASE ListDue(s)
        <5> DEFINE due == [m \in {x \in Meetings : Due(x)} |-> meeting[m].start]
                   new == [IdleSweep EXCEPT !.pc = "next", !.due = due]
        <5>1. sweep' = [sweep EXCEPT ![s] = new]
          BY <4>1 DEF ListDue
        <5>2. new.pc = "next"
          <6> HIDE DEF due
          <6> QED
            BY DEF IdleSweep
        <5> QED
          BY <5>1, <5>2
      <4>2. CASE EndSweep(s) \/ KillSweep(s)
        <5>1. sweep' = [sweep EXCEPT ![s] = IdleSweep]
          BY <4>2 DEF EndSweep, KillSweep
        <5>2. IdleSweep.pc = "idle"
          BY DEF IdleSweep
        <5> QED
          BY <5>1, <5>2
      <4> QED
        BY <2>3, <4>1, <4>2
    <3>2. (\A x \in Sweeps \ {s} : sweep'[x] = sweep[x]) /\ sweep'[s].pc \in {"next", "idle"}
      BY <1>0, <3>1
    <3> QED
      BY <1>0, <1>1, <1>2, <2>2, <3>2 DEF SweepsHaveTried, MarksInv
  <2>4. CASE OpenTask(s)
    <3>1. /\ \A x \in Sweeps \ {s} : sweep'[x] = sweep[x]
          /\ sweep'[s].meeting = sweep[s].meeting /\ sweep'[s].start = sweep[s].start
          /\ sweep[s].pc = "task"
      BY <1>0, <2>4 DEF OpenTask, SweepRecord
    <3> QED
      BY <1>0, <1>1, <1>2, <2>2, <3>1 DEF SweepsHaveTried, MarksInv
  <2>5. CASE Deliver(s)
    <3>1. \A x \in Sweeps \ {s} : sweep'[x] = sweep[x]
      BY <1>0, <2>5 DEF Deliver
    <3>2. sweep'[s].pc \in {"task", "stamp"} =>
            \E n \in notices' : n[1] = sweep'[s].meeting /\ n[2] = sweep'[s].start
      <4> DEFINE due == sweep[s].due
                 rest(m) == [x \in DOMAIN due \ {m} |-> due[x]]
      <4>1. PICK m \in DOMAIN due, told \in BOOLEAN, missed \in BOOLEAN :
              \/ /\ notices' = notices \cup {<<m, due[m], IF told THEN "told" ELSE "missed">>}
                 /\ sweep' = [sweep EXCEPT ![s] = [pc |-> IF missed THEN "task" ELSE "stamp",
                                                   due |-> rest(m), meeting |-> m, start |-> due[m]]]
              \/ sweep' = [sweep EXCEPT ![s].due = rest(m)]
        BY <2>5 DEF Deliver
      <4> HIDE DEF rest
      <4>2. CASE sweep' = [sweep EXCEPT ![s].due = rest(m)]
        <5>1. sweep'[s].pc = "next"
          BY <1>0, <2>5, <4>2 DEF Deliver, SweepRecord
        <5> QED
          BY <5>1
      <4>3. CASE sweep' # [sweep EXCEPT ![s].due = rest(m)]
        <5>1. <<m, due[m], IF told THEN "told" ELSE "missed">> \in notices'
          BY <4>1, <4>3
        <5>2. sweep'[s].meeting = m /\ sweep'[s].start = due[m]
          BY <1>0, <4>1, <4>3
        <5> QED
          BY <5>1, <5>2
      <4> QED
        BY <4>2, <4>3
    <3>3. SweepsHaveTried'
      BY <1>0, <1>1, <3>1, <3>2 DEF SweepsHaveTried
    <3> QED
      BY <1>0, <1>2, <2>2, <3>3 DEF MarksInv
  <2> QED
    BY <1>4, <2>3, <2>4, <2>5 DEF Sweep
<1> QED
  BY <1>3, <1>4

\* One step of a delivery: what it records was said, and about this time.
LEMMA PhoneMarks ==
  ASSUME MarksInv, NEW p \in Phones, Tap(p) \/ RecordReply(p)
  PROVE  MarksInv'
<1> USE DEF calendarVars, google
<1>0. /\ DiaryTypes' /\ RowTypes /\ phone \in [Phones -> PhoneRecord]
      /\ SweepsHaveTried /\ PhonesHaveHeard /\ RemindedOfThisTime /\ AnsweredAboutThisTime
  BY ReminderTypes, TypeParts DEF MarksInv, DiaryTypes
<1>1. answered \subseteq answered' /\ UNCHANGED <<sweep, notices, crossed>>
  BY DEF Tap, RecordReply
<1>2. SweepsHaveTried'
  BY <1>0, <1>1 DEF SweepsHaveTried
<1>3. CASE Tap(p)
  <2>1. meeting' = meeting
    BY <1>3 DEF Tap
  <2>2. RemindedOfThisTime' /\ AnsweredAboutThisTime'
    BY <1>0, <1>1, <2>1 DEF RemindedOfThisTime, AnsweredAboutThisTime
  <2>3. PhonesHaveHeard'
    BY <1>0, <1>1, <1>3 DEF PhonesHaveHeard, Tap
  <2> QED
    BY <1>0, <1>2, <2>2, <2>3 DEF MarksInv
<1>4. CASE RecordReply(p)
  <2>1. PhonesHaveHeard'
    BY <1>0, <1>1, <1>4 DEF PhonesHaveHeard, RecordReply, IdlePhone
  <2>2. ASSUME NEW m \in Meetings
        PROVE  /\ meeting'[m].start = meeting[m].start /\ meeting'[m].reminded = meeting[m].reminded
               /\ \/ meeting'[m].reply = meeting[m].reply
                  \/ <<m, meeting[m].start, meeting'[m].reply>> \in answered
    <3>1. meeting[m] \in MeetingRow
      BY <1>0 DEF RowTypes
    <3>2. <<phone[p].meeting, phone[p].start, phone[p].reply>> \in answered
      BY <1>0, <1>4 DEF PhonesHaveHeard, RecordReply
    <3>3. \/ meeting'[m] = meeting[m]
          \/ /\ meeting'[m] = [meeting[m] EXCEPT !.reply = phone[p].reply]
             /\ m = phone[p].meeting /\ meeting[m].start = phone[p].start
      BY <1>0, <1>4 DEF RecordReply, Recordable, RowTypes
    <3>4. \/ meeting'[m] = meeting[m]
          \/ /\ meeting'[m].start = meeting[m].start /\ meeting'[m].reminded = meeting[m].reminded
             /\ meeting'[m].reply = phone[p].reply
             /\ m = phone[p].meeting /\ meeting[m].start = phone[p].start
      BY <3>1, <3>3 DEF MeetingRow
    <3> QED
      BY <3>2, <3>4
  <2>3. ASSUME NEW m \in Meetings, m \notin crossed', meeting'[m].reminded
        PROVE  \E n \in notices' : n[1] = m /\ n[2] = meeting'[m].start
    <3>1. m \notin crossed /\ meeting[m].reminded
      BY <1>1, <2>2, <2>3
    <3>2. \E n \in notices : n[1] = m /\ n[2] = meeting[m].start
      BY <1>0, <3>1 DEF RemindedOfThisTime
    <3> QED
      BY <1>1, <2>2, <3>2
  <2>4. RemindedOfThisTime'
    BY <2>3 DEF RemindedOfThisTime
  <2>5. ASSUME NEW m \in Meetings, m \notin crossed', meeting'[m].reply # None
        PROVE  <<m, meeting'[m].start, meeting'[m].reply>> \in answered'
    <3>1. m \notin crossed /\ meeting'[m].start = meeting[m].start
      BY <1>1, <2>2, <2>5
    <3>2. CASE meeting'[m].reply = meeting[m].reply
      BY <1>0, <1>1, <2>5, <3>1, <3>2 DEF AnsweredAboutThisTime
    <3>3. CASE <<m, meeting[m].start, meeting'[m].reply>> \in answered
      BY <1>1, <3>1, <3>3
    <3> QED
      BY <2>2, <3>2, <3>3
  <2>6. AnsweredAboutThisTime'
    BY <2>5 DEF AnsweredAboutThisTime
  <2> QED
    BY <1>0, <1>2, <2>1, <2>4, <2>6 DEF MarksInv
<1> QED
  BY <1>3, <1>4

LEMMA MarksStep ==
  ASSUME MarksInv, [DiaryNext]_diaryVars
  PROVE  MarksInv'
<1>1. CASE UNCHANGED diaryVars
  <2>1. DiaryTypes'
    BY <1>1 DEF MarksInv, DiaryTypes, DiaryTypeOK, RoundTypes, diaryVars, calendarVars, reminderVars, google
  <2> QED
    BY <1>1, <2>1 DEF MarksInv, SweepsHaveTried, PhonesHaveHeard, RemindedOfThisTime,
                      AnsweredAboutThisTime, diaryVars, calendarVars, reminderVars
<1>2. CASE Pass
  <2>1. DiaryTypes'
    BY <1>2, ReminderTypes DEF MarksInv
  <2> QED
    BY <1>2, <2>1 DEF Pass, MarksInv, SweepsHaveTried, PhonesHaveHeard, RemindedOfThisTime,
                      AnsweredAboutThisTime, calendarVars
<1> QED
  BY <1>1, <1>2, CalendarMarks, SweepMarks, PhoneMarks DEF DiaryNext

\* The columns of the diary keep to their types, and what a sweep or a delivery
\* is about to write has happened: the invariant behind the others.
THEOREM MarksInvariant == DiarySpec => []MarksInv
BY MarksInit, MarksStep, PTL DEF DiarySpec

\* Every column keeps to its type.
THEOREM DiaryTypeCorrect == DiarySpec => []DiaryTypeOK
<1>1. MarksInv => DiaryTypeOK
  BY DEF MarksInv, DiaryTypes
<1> QED
  BY <1>1, MarksInvariant, PTL

\* However many sweeps and rounds move and stamp an appointment, its stamp
\* stands for the time it has, unless a pull wrote over a row it no longer knew.
THEOREM StampFitsTime == DiarySpec => []RemindedOfThisTime
<1>1. MarksInv => RemindedOfThisTime
  BY DEF MarksInv
<1> QED
  BY <1>1, MarksInvariant, PTL

\* However late a customer's answer is recorded, it stands for the time it was
\* given about, with the same exception.
THEOREM AnswerFitsTime == DiarySpec => []AnsweredAboutThisTime
<1>1. MarksInv => AnsweredAboutThisTime
  BY DEF MarksInv
<1> QED
  BY <1>1, MarksInvariant, PTL

-----------------------------------------------------------------------------
\* A sweep is about to stamp the time the appointment has.
AtStamp(m) ==
  \E s \in Sweeps : /\ sweep[s].pc \in {"task", "stamp"}
                    /\ sweep[s].meeting = m /\ sweep[s].start = meeting[m].start

\* An appointment whose people were reminded of its time is stamped, called
\* off, or about to be stamped, and is not on a sweep's list with that time.
SettledRow(m) ==
  /\ meeting[m].status = "absent" => sent[m] = 0 /\ \A s \in Sweeps : m \notin DOMAIN sweep[s].due
  /\ sent[m] # 0 =>
       /\ sent[m] = 1
       /\ meeting[m].reminded \/ meeting[m].status # "scheduled" \/ AtStamp(m)
       /\ \A s \in Sweeps : m \in DOMAIN sweep[s].due => sweep[s].due[m] # meeting[m].start

\* So it is while one sweep runs undisturbed.
RemindedIsSettled ==
  /\ sent \in [Meetings -> Nat]
  /\ faults = 0 /\ (\A s, w \in Sweeps : s = w) => \A m \in Meetings \ crossed : SettledRow(m)

LEMMA CalendarSettles ==
  ASSUME MarksInv, RemindedIsSettled, Noted(CalendarNext)
  PROVE  RemindedIsSettled'
<1>1. faults' = 0 => faults = 0
  <2>1. faults' = faults \/ faults' = faults + 1
    BY DEF Noted, CalendarNext, Schedule, Reschedule, Update, ResetSyncMarks,
           Reconnect, AgentAdds, AgentMoves, AgentDeletes, AgentChanges, Sync, ReadLink, AskChanges,
           PullRead, PullWrite, ListPending, UpsertEvent, Stamp, EndRound, BreakOff
  <2>2. faults \in Nat
    BY TypeParts, CalendarAssumption DEF MarksInv, DiaryTypes, CounterTypes
  <2> QED
    BY <2>1, <2>2
<1>0. sent' \in [Meetings -> Nat]
  BY DEF Noted, RemindedIsSettled
<1>2. SUFFICES ASSUME faults = 0, \A s, w \in Sweeps : s = w,
                      NEW m \in Meetings, m \notin crossed'
               PROVE  SettledRow(m)'
  BY <1>0, <1>1 DEF RemindedIsSettled
<1>3. m \notin crossed /\ MarksKept(m)
  BY <1>2, CalendarKeepsMarks DEF MarksInv
<1>4. SettledRow(m)
  BY <1>2, <1>3 DEF RemindedIsSettled
<1>5. sweep' = sweep /\ sent'[m] = IF Placed(m) THEN 0 ELSE sent[m]
  BY DEF Noted
<1>6. CASE Placed(m) \/ meeting[m].status = "absent"
  BY <1>3, <1>4, <1>5, <1>6 DEF SettledRow, MarksKept
<1>7. CASE ~Placed(m) /\ meeting[m].status # "absent"
  <2>1. AtStamp(m) => AtStamp(m)'
    BY <1>3, <1>5, <1>7 DEF AtStamp, MarksKept
  <2> QED
    BY <1>3, <1>4, <1>5, <1>7, <2>1 DEF SettledRow, MarksKept
<1> QED
  BY <1>6, <1>7

LEMMA SweepSettles ==
  ASSUME MarksInv, RemindedIsSettled, NEW s \in Sweeps, Sweep(s) \/ KillSweep(s)
  PROVE  RemindedIsSettled'
<1> USE DEF calendarVars, google
<1>1. CASE KillSweep(s)
  <2>1. faults' # 0
    BY <1>1, TypeParts, CalendarAssumption DEF KillSweep, MarksInv, DiaryTypes, CounterTypes
  <2> QED
    BY <1>1, <2>1 DEF RemindedIsSettled, KillSweep
<1>2. CASE Sweep(s)
  <2>0. sent \in [Meetings -> Nat] /\ sent' \in [Meetings -> Nat]
    <3>1. sent' = sent \/ \E x : sent' = [sent EXCEPT ![x] = sent[x] + 1]
      <4>1. \A x : [sent EXCEPT ![x] = sent[x]] = sent
        BY DEF RemindedIsSettled
      <4>2. CASE Deliver(s)
        <5>1. \/ sent' = sent
              \/ \E x, more : sent' = [sent EXCEPT ![x] = IF more THEN sent[x] + 1 ELSE sent[x]]
          BY <4>2 DEF Deliver
        <5> QED
          BY <4>1, <5>1
      <4> QED
        BY <1>2, <4>2 DEF Sweep, ListDue, OpenTask, StampReminder, EndSweep
    <3> QED
      BY <3>1 DEF RemindedIsSettled
  <2>1. crossed' = crossed /\ faults' = faults
    BY <1>2 DEF Sweep, ListDue, Deliver, OpenTask, StampReminder, EndSweep
  <2>2. SUFFICES ASSUME \A x, w \in Sweeps : x = w, NEW m \in Meetings, SettledRow(m)
                 PROVE  SettledRow(m)'
    BY <2>0, <2>1 DEF RemindedIsSettled
  <2>3. /\ sweep[s] \in SweepRecord /\ sweep'[s] \in SweepRecord /\ meeting[m] \in MeetingRow
        /\ sweep \in [Sweeps -> SweepRecord]
    BY <1>2, TypeParts, ReminderTypes DEF MarksInv, DiaryTypes, RowTypes
  <2>4. \A x \in Sweeps : x = s
    BY <2>2
  <2>5. CASE ListDue(s)
    <3>1. meeting' = meeting /\ sent' = sent /\ sweep[s].pc = "idle"
      BY <2>5 DEF ListDue
    <3>2. DOMAIN sweep'[s].due = {x \in Meetings : Due(x)}
      BY <2>3, <2>5 DEF ListDue, IdleSweep
    <3>3. sent[m] # 0 => m \notin DOMAIN sweep'[s].due
      BY <2>2, <2>4, <3>1, <3>2 DEF SettledRow, AtStamp, Due
    <3>4. meeting[m].status = "absent" => m \notin DOMAIN sweep'[s].due
      BY <3>2 DEF Due
    <3> QED
      BY <2>2, <2>4, <3>1, <3>3, <3>4 DEF SettledRow, AtStamp
  <2>6. CASE Deliver(s)
    <3> DEFINE due == sweep[s].due
               rest(x) == [y \in DOMAIN due \ {x} |-> due[y]]
    <3>0. meeting' = meeting /\ sweep[s].pc = "next"
      BY <2>6 DEF Deliver
    <3>1. PICK x \in DOMAIN due, told \in BOOLEAN, missed \in BOOLEAN :
            \/ /\ sent' = [sent EXCEPT ![x] = IF told /\ meeting[x].start = due[x] THEN @ + 1 ELSE @]
               /\ sweep' = [sweep EXCEPT ![s] = [pc |-> IF missed THEN "task" ELSE "stamp",
                                                 due |-> rest(x), meeting |-> x, start |-> due[x]]]
            \/ sent' = sent /\ sweep' = [sweep EXCEPT ![s].due = rest(x)]
      BY <2>6 DEF Deliver
    <3>2. DOMAIN rest(x) = DOMAIN due \ {x} /\ \A y \in DOMAIN rest(x) : rest(x)[y] = due[y]
      OBVIOUS
    <3>3. ~AtStamp(m)
      BY <2>4, <3>0 DEF AtStamp
    <3> HIDE DEF rest
    <3>4. sweep'[s].due = rest(x)
      BY <2>3, <3>1 DEF SweepRecord
    <3>5. meeting[m].status = "absent" =>
            sent'[m] = 0 /\ \A w \in Sweeps : m \notin DOMAIN sweep'[w].due
      BY <2>0, <2>2, <2>4, <3>1, <3>2, <3>4 DEF SettledRow
    <3>6. CASE sent'[m] = sent[m]
      BY <2>2, <2>4, <3>0, <3>2, <3>3, <3>4, <3>5, <3>6 DEF SettledRow
    <3>7. CASE sent'[m] # sent[m]
      <4>1. /\ m = x /\ meeting[m].start = due[m] /\ sent'[m] = sent[m] + 1
            /\ sweep'[s].pc \in {"task", "stamp"} /\ sweep'[s].meeting = m /\ sweep'[s].start = due[m]
        BY <2>0, <2>3, <3>1, <3>7
      <4>2. sent[m] = 0
        BY <2>2, <4>1 DEF SettledRow
      <4>3. AtStamp(m)'
        BY <3>0, <4>1 DEF AtStamp
      <4>4. m \notin DOMAIN sweep'[s].due
        BY <3>2, <3>4, <4>1
      <4> QED
        BY <2>4, <3>0, <3>5, <4>1, <4>2, <4>3, <4>4 DEF SettledRow
    <3> QED
      BY <3>6, <3>7
  <2>7. CASE OpenTask(s)
    <3>1. /\ meeting' = meeting /\ sent' = sent /\ sweep'[s].due = sweep[s].due
          /\ sweep'[s].meeting = sweep[s].meeting /\ sweep'[s].start = sweep[s].start
          /\ sweep'[s].pc = "stamp"
      BY <2>3, <2>7 DEF OpenTask, SweepRecord
    <3> QED
      BY <2>2, <2>4, <3>1 DEF SettledRow, AtStamp
  <2>8. CASE StampReminder(s)
    <3>1. sent' = sent /\ sweep'[s].due = sweep[s].due
      BY <2>3, <2>8 DEF StampReminder, SweepRecord
    <3>2. \/ meeting'[m] = meeting[m]
          \/ meeting'[m] = [meeting[m] EXCEPT !.reminded = TRUE]
      BY <2>8, TypeParts DEF StampReminder, MarksInv, DiaryTypes, RowTypes
    <3>3. /\ meeting'[m].status = meeting[m].status /\ meeting'[m].start = meeting[m].start
          /\ meeting[m].reminded => meeting'[m].reminded
      BY <2>3, <3>2 DEF MeetingRow
    <3>4. AtStamp(m) /\ meeting[m].status = "scheduled" => meeting'[m].reminded
      <4>1. SUFFICES ASSUME sweep[s].meeting = m, sweep[s].start = meeting[m].start,
                            meeting[m].status = "scheduled"
                     PROVE  meeting'[m].reminded
        BY <2>4 DEF AtStamp
      <4>2. meeting'[m] = [meeting[m] EXCEPT !.reminded = TRUE]
        BY <2>8, <4>1, TypeParts DEF StampReminder, SameAppointment, MarksInv, DiaryTypes, RowTypes
      <4> QED
        BY <2>3, <4>2 DEF MeetingRow
    <3> QED
      BY <2>2, <2>4, <3>1, <3>3, <3>4 DEF SettledRow
  <2>9. CASE EndSweep(s)
    <3>1. /\ meeting' = meeting /\ sent' = sent /\ sweep[s].pc = "next"
          /\ DOMAIN sweep'[s].due = {}
      BY <2>3, <2>9 DEF EndSweep, IdleSweep, SweepRecord
    <3> QED
      BY <2>2, <2>4, <3>1 DEF SettledRow, AtStamp
  <2> QED
    BY <1>2, <2>5, <2>6, <2>7, <2>8, <2>9 DEF Sweep
<1> QED
  BY <1>1, <1>2

LEMMA SettledStep ==
  ASSUME MarksInv, RemindedIsSettled, [DiaryNext]_diaryVars
  PROVE  RemindedIsSettled'
<1>1. CASE UNCHANGED diaryVars \/ Pass
  BY <1>1 DEF Pass, RemindedIsSettled, SettledRow, AtStamp, diaryVars, calendarVars, reminderVars
<1>2. ASSUME NEW p \in Phones, Tap(p) \/ RecordReply(p)
      PROVE  RemindedIsSettled'
  <2>1. UNCHANGED <<sweep, sent, crossed, faults>>
    BY <1>2 DEF Tap, RecordReply, calendarVars
  <2>2. ASSUME NEW m \in Meetings
        PROVE  /\ meeting'[m].status = meeting[m].status /\ meeting'[m].start = meeting[m].start
               /\ meeting'[m].reminded = meeting[m].reminded
    <3>1. meeting[m] \in MeetingRow
      BY TypeParts DEF MarksInv, DiaryTypes, RowTypes
    <3>2. meeting'[m] = meeting[m] \/ meeting'[m] = [meeting[m] EXCEPT !.reply = phone[p].reply]
      BY <1>2, TypeParts DEF Tap, RecordReply, calendarVars, MarksInv, DiaryTypes, RowTypes
    <3> QED
      BY <3>1, <3>2 DEF MeetingRow
  <2>3. ASSUME NEW m \in Meetings PROVE AtStamp(m)' = AtStamp(m)
    BY <2>1, <2>2 DEF AtStamp
  <2> QED
    BY <2>1, <2>2, <2>3 DEF RemindedIsSettled, SettledRow
<1> QED
  BY <1>1, <1>2, CalendarSettles, SweepSettles DEF DiaryNext

\* Where one sweep runs undisturbed, nobody is reminded twice of one placement
\* of an appointment, whatever the office and the synchronisation do to it.
THEOREM OneReminder == DiarySpec => []RemindedOnce
<1>1. DiaryInit => RemindedIsSettled
  BY DEF DiaryInit, RemindersInit, RemindedIsSettled, SettledRow, IdleSweep
<1>2. RemindedIsSettled => RemindedOnce
  BY DEF RemindedIsSettled, SettledRow, RemindedOnce
<1> QED
  BY <1>1, <1>2, SettledStep, MarksInvariant, PTL DEF DiarySpec
=============================================================================
