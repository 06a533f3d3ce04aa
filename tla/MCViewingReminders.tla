------------------------- MODULE MCViewingReminders -------------------------
(* Three instances of ViewingReminders in one run, told apart by world:      *)
(* one round at a time, broken off anywhere, through every change on both     *)
(* sides; two rounds at once; and the reminders of an appointment that is     *)
(* moved on both sides.                                                       *)
EXTENDS ViewingReminders

CONSTANT Made  \* the appointment the office makes; the others come from Google

VARIABLE world

Sole == CHOOSE e \in Events : TRUE
Only == CHOOSE r \in Rounds : TRUE
Second == CHOOSE m \in Meetings \ {Made} : TRUE
First == CHOOSE t \in Times : TRUE

\* Two rounds meet after the office has made an appointment.  It waits to be pushed,
\* with or without a token, and is changed once more, the agent being done; or it
\* was pushed and its echo heard, and both sides change it.
Arranged ==
  /\ \/ /\ meeting = [m \in Meetings |-> IF m = Made
                       THEN [NoMeeting EXCEPT !.status = "scheduled", !.start = First] ELSE NoMeeting]
        /\ calendar = [e \in Events |-> NoEvent]
        /\ link \in [full : BOOLEAN, unseen : {{}}]
        /\ moves = MaxMoves
     \/ /\ meeting = [m \in Meetings |-> IF m = Made
                       THEN [NoMeeting EXCEPT !.status = "scheduled", !.start = First,
                                              !.event = Sole, !.synced = TRUE] ELSE NoMeeting]
        /\ calendar = [e \in Events |-> IF e = Sole THEN [status |-> "confirmed", start |-> First]
                                         ELSE NoEvent]
        /\ link = [full |-> FALSE, unseen |-> {}]
        /\ moves = 0
  /\ round = [r \in Rounds |-> IdleRound]
  /\ edits = 1 /\ faults = 0

MCInit ==
  /\ world \in {"calendar", "rounds", "reminders"}
  /\ IF world = "rounds" THEN Arranged /\ RemindersInit ELSE DiaryInit

\* Identifiers are given out in order, and of two idle rounds the same one starts:
\* the others are renamings.
InOrder ==
  /\ \A e \in Events : calendar[e].status = "absent" /\ calendar'[e].status # "absent" =>
       e = CHOOSE x \in Events : calendar[x].status = "absent"
  /\ \A m \in Meetings \ {Made, Second} :
       meeting'[m].status # "absent" => meeting'[Second].status # "absent"

MCNext ==
  /\ DiaryNext
  /\ InOrder
  /\ meeting'[Made].source = "system"
  /\ \A m \in Meetings \ {Made} : meeting'[m].status = "absent" \/ meeting'[m].source = "google"
  /\ world = "rounds" \/ \A r \in Rounds \ {Only} : round'[r] = IdleRound
  /\ world # "reminders" => /\ sweep' = sweep /\ now' = now
                            /\ meeting[Made].start = None => meeting'[Made].start \in {None, First}
  /\ \/ world = "calendar"
     \/ /\ world = "rounds" /\ faults' = 0
        /\ moves' # moves => \A e \in Events : calendar[e].status = "absent" => calendar'[e] = calendar[e]
        /\ \A r \in Rounds \ {Only} : round[r] = round'[r] \/ round[r] # IdleRound \/ round[Only] # IdleRound
     \/ /\ world = "reminders"
        /\ link'.full => link.full
        /\ faults' = 0 \/ taps' = 0
        /\ faults' # faults => round' = round
        /\ \A e \in Events \ {Sole} : calendar'[e].status = "absent"
        /\ moves' # moves => calendar[Sole].status # "absent" /\ calendar'[Sole].status # "cancelled"
  /\ UNCHANGED world

\* A second round need not start, but when it has it goes on.
MCFairness ==
  /\ WF_diaryVars(Noted(Sync(Only)))
  /\ \A r \in Rounds \ {Only} : WF_diaryVars(round[r].pc # "idle" /\ Noted(Sync(r)))

MCSpec == MCInit /\ [][MCNext]_<<diaryVars, world>> /\ MCFairness
=============================================================================
