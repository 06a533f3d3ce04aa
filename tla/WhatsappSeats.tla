---------------------------- MODULE WhatsappSeats ----------------------------
(***************************************************************************)
(* Paid seats for the WhatsApp assistant of one office: the customer opens *)
(* a payment page or cancels (WhatsappSeatService), a confirmed payment    *)
(* activates the seat, every API replica renews, retries and closes seats  *)
(* (WhatsappSeatRenewalService), the owner gives the assistant to agents   *)
(* within the quota (SettingsController), and the platform grants extra    *)
(* seats (PlatformController).                                             *)
(*                                                                         *)
(* An agent works by a flag on the user, not by the quota: whoever takes a *)
(* seat away has to take the flag away too.  Grants and revocations queue  *)
(* at the advisory lock "seat-quota", the rows of seats do not.            *)
(*                                                                         *)
(* A payment is claimed once (SubscriptionCheckout); here it is open, and  *)
(* then paid.  The payment rows of renewals meet nobody and are left out.  *)
(***************************************************************************)
EXTENDS Naturals, FiniteSets

CONSTANTS
  Seats,       \* identifiers of rows of whatsapp_seats
  Payments,    \* identifiers of payments for a seat
  Agents,      \* users who are not the owner
  Owner,       \* the owner, who sits on the seat the plan includes
  Visitors,    \* requests that open a page or cancel
  Scanners,    \* replicas running tick()
  Period,      \* the month, in ticks
  Retry,       \* RETRY_EVERY_MS
  Grace,       \* GRACE_MS
  MaxTime,     \* bounds the clock; the last instant lasts for ever
  MaxGranted,  \* bounds the extra seats the platform grants
  MaxFaults,   \* bounds the charges whose answer is lost
  None         \* SQL NULL

ASSUME SeatsAssumption ==
  /\ Period \in Nat \ {0} /\ Retry \in Nat /\ Grace \in Nat
  /\ MaxTime \in Nat /\ MaxGranted \in Nat /\ MaxFaults \in Nat
  /\ IsFiniteSet(Seats) /\ IsFiniteSet(Agents) /\ Owner \notin Agents
  /\ None \notin Nat \cup Seats \cup Payments \cup Agents

VARIABLES
  now,       \* the clock
  seat,      \* table whatsapp_seats
  payment,   \* table payments, those for seats
  confirm,   \* the seat as an open transaction of apply() has read it
  granted,   \* tenants.whatsapp_agent_seats_extra
  holders,   \* users with whatsapp_access
  visitor,   \* where each request of the customer stands
  scanner,   \* where each replica stands
  giving,    \* the agent of the open transaction that holds "seat-quota"
  lowering,  \* the number of extra seats the platform has checked
  answered,  \* history: charges answered "paid", by seat and start of period
  lost,      \* history: charges that went through and whose answer was lost
  taken,     \* history: a write that nothing guards took a used seat away
  faults     \* answers lost so far

customer == <<payment, confirm, visitor>>
desk     == <<granted, giving, lowering>>
history  == <<answered, lost, taken, faults>>
seatVars == <<now, seat, customer, desk, holders, scanner, history>>

Live == {"active", "past_due"}

\* A row as it is written: @updatedAt is asked of seats past due only.
Row(status, end) ==
  [status |-> status, end |-> end, touched |-> IF status = "past_due" THEN now ELSE 0]

NextPeriodEnd(end, at) == (IF end # None /\ end > at THEN end ELSE at) + Period

\* whatsappSeatQuotaWhere: a cancelled seat counts to the end of its period.
PaidSeats ==
  Cardinality({s \in Seats : \/ seat[s].status \in Live
                             \/ seat[s].status = "cancelled" /\ seat[s].end > now})

\* whatsappAgentSeats: the plan includes one.
Quota(extra) == 1 + extra + PaidSeats

Absent      == [status |-> "absent", end |-> None, touched |-> 0]
IdleVisitor == [pc |-> "idle", seat |-> None, status |-> "absent"]
IdleScanner == [pc |-> "idle", at |-> 0, due |-> {}, seat |-> None, status |-> "absent",
                from |-> None, to |-> None]

\* Seats are absent, or paid up to the first tick.
SeatsInit ==
  /\ now = 0
  /\ seat \in [Seats -> {Absent, [status |-> "active", end |-> 1, touched |-> 0]}]
  /\ payment = [p \in Payments |-> [status |-> "absent", seat |-> None]]
  /\ confirm = [p \in Payments |-> None]
  /\ granted \in 0 .. MaxGranted
  /\ holders = {Owner}
  /\ visitor = [v \in Visitors |-> IdleVisitor]
  /\ scanner = [c \in Scanners |-> IdleScanner]
  /\ giving = None
  /\ lowering = None
  /\ answered = [x \in Seats \X (0 .. MaxTime + Period) |-> 0]
  /\ lost = {}
  /\ taken = FALSE
  /\ faults = 0

-----------------------------------------------------------------------------
(***************************************************************************)
(* The customer: startCheckout and cancel.                                 *)
(***************************************************************************)

\* An order that was not paid is reused.
FindPending(v) ==
  /\ visitor[v].pc = "idle"
  /\ \/ \E s \in Seats :
          /\ seat[s].status = "pending"
          /\ visitor' = [visitor EXCEPT ![v] = [IdleVisitor EXCEPT !.pc = "supersede", !.seat = s]]
     \/ /\ \A s \in Seats : seat[s].status # "pending"
        /\ visitor' = [visitor EXCEPT ![v].pc = "create"]
  /\ UNCHANGED <<now, seat, payment, confirm, desk, holders, scanner, history>>

CreateSeat(v) ==
  /\ visitor[v].pc = "create"
  /\ \E s \in Seats :
       /\ seat[s].status = "absent"
       /\ seat' = [seat EXCEPT ![s] = Row("pending", None)]
       /\ visitor' = [visitor EXCEPT ![v].pc = "supersede", ![v].seat = s]
  /\ UNCHANGED <<now, payment, confirm, desk, holders, scanner, history>>

\* Pages opened before stay payable.
Supersede(v) ==
  LET Open == {p \in Payments : payment[p].seat = visitor[v].seat /\ payment[p].status = "pending"}
  IN
  /\ visitor[v].pc = "supersede"
  /\ \A p \in Open : confirm[p] = None
  /\ payment' = [p \in Payments |->
                   IF p \in Open THEN [payment[p] EXCEPT !.status = "superseded"] ELSE payment[p]]
  /\ visitor' = [visitor EXCEPT ![v].pc = "open"]
  /\ UNCHANGED <<now, seat, confirm, desk, holders, scanner, history>>

\* The row and the page, which Cardcom may refuse to open.
OpenPage(v) ==
  /\ visitor[v].pc = "open"
  /\ \E p \in Payments, status \in {"pending", "failed"} :
       /\ payment[p].status = "absent"
       /\ payment' = [payment EXCEPT ![p] = [status |-> status, seat |-> visitor[v].seat]]
  /\ visitor' = [visitor EXCEPT ![v] = IdleVisitor]
  /\ UNCHANGED <<now, seat, confirm, desk, holders, scanner, history>>

CancelRead(v) ==
  /\ visitor[v].pc = "idle"
  /\ \E s \in Seats :
       /\ seat[s].status \in Live \cup {"pending"}
       /\ visitor' = [visitor EXCEPT ![v] = [pc |-> "cancel", seat |-> s, status |-> seat[s].status]]
  /\ UNCHANGED <<now, seat, payment, confirm, desk, holders, scanner, history>>

\* Mutant of CancelledAs: an order that was never paid waits for its period.
CancelledAsUsed(status) == "cancelled"

CancelledAs(status) == IF status = "pending" THEN "released" ELSE "cancelled"

\* The write is by id: whatever the row has become meanwhile.
CancelWrite(v) ==
  LET s == visitor[v].seat IN
  /\ visitor[v].pc = "cancel"
  /\ seat' = [seat EXCEPT ![s] =
                Row(CancelledAs(visitor[v].status), seat[s].end)]
  /\ taken' = (taken \/ (visitor[v].status = "pending" /\ seat[s].status # "pending"))
  /\ visitor' = [visitor EXCEPT ![v] = IdleVisitor]
  /\ UNCHANGED <<now, payment, confirm, desk, holders, scanner, answered, lost, faults>>

(***************************************************************************)
(* apply(): the transaction claims the payment, reads the seat             *)
(* (activateWithin) and writes it; at READ COMMITTED others write between. *)
(***************************************************************************)
ClaimPayment(p) ==
  /\ payment[p].status \in {"pending", "superseded"} /\ confirm[p] = None
  /\ confirm' = [confirm EXCEPT ![p] = seat[payment[p].seat]]
  /\ UNCHANGED <<now, seat, payment, desk, holders, visitor, scanner, history>>

\* A released seat does not come back: the payment is reported as an orphan.
Activate(p) ==
  LET s == payment[p].seat IN
  /\ confirm[p] # None
  /\ payment' = [payment EXCEPT ![p].status = "paid"]
  /\ seat' = IF confirm[p].status = "released" THEN seat
             ELSE [seat EXCEPT ![s] = Row("active", NextPeriodEnd(confirm[p].end, now))]
  /\ confirm' = [confirm EXCEPT ![p] = None]
  /\ UNCHANGED <<now, desk, holders, visitor, scanner, history>>

-----------------------------------------------------------------------------
(***************************************************************************)
(* Who holds the assistant.                                                *)
(***************************************************************************)

\* Mutant of LockFree: nobody waits for the advisory lock.
LockFreeAlways == TRUE

\* The advisory lock "seat-quota".
LockFree == giving = None

\* assertWhatsappSeatAvailable, under the lock; the rows of seats are read
\* outside it.
GrantLock(a) ==
  /\ LockFree
  /\ a \notin holders
  /\ Cardinality(holders) < Quota(granted)
  /\ giving' = a
  /\ UNCHANGED <<now, seat, customer, granted, lowering, holders, scanner, history>>

GrantCommit ==
  /\ giving # None
  /\ holders' = holders \cup {giving}
  /\ giving' = None
  /\ UNCHANGED <<now, seat, customer, granted, lowering, scanner, history>>

Withdraw(u) ==
  /\ LockFree
  /\ u \in holders
  /\ holders' = holders \ {u}
  /\ UNCHANGED <<now, seat, customer, desk, scanner, history>>

\* The platform's form: the check holds the lock, and lets go of it.
CheckExtra ==
  /\ LockFree /\ lowering = None
  /\ \E extra \in 0 .. MaxGranted :
       /\ extra # granted /\ Cardinality(holders) <= Quota(extra)
       /\ lowering' = extra
  /\ UNCHANGED <<now, seat, customer, granted, giving, holders, scanner, history>>

WriteExtra ==
  /\ lowering # None
  /\ granted' = lowering
  /\ lowering' = None
  /\ taken' = (taken \/ Cardinality(holders \cup ({giving} \ {None})) > Quota(granted'))
  /\ UNCHANGED <<now, seat, customer, giving, holders, scanner, answered, lost, faults>>

\* The round goes on with the next seat of its list.
Resume(c) == [IdleScanner EXCEPT !.pc = "renew", !.at = scanner[c].at, !.due = scanner[c].due]

\* revokeOverQuota: the excess goes, never the owner.  That the youngest go
\* first is left open.
Revoke(c) ==
  LET excess == IF Cardinality(holders) > Quota(granted)
                  THEN Cardinality(holders) - Quota(granted) ELSE 0
      others == holders \ {Owner}
  IN
  /\ scanner[c].pc = "revoke"
  /\ LockFree
  /\ \E victims \in SUBSET others :
       /\ IF excess < Cardinality(others) THEN Cardinality(victims) = excess ELSE victims = others
       /\ holders' = holders \ victims
  /\ scanner' = [scanner EXCEPT ![c] = IF scanner[c].seat = None THEN [@ EXCEPT !.pc = "close"]
                                       ELSE Resume(c)]
  /\ UNCHANGED <<now, seat, customer, desk, history>>

-----------------------------------------------------------------------------
(***************************************************************************)
(* tick(): renewDue, then releaseDue.                                      *)
(***************************************************************************)

\* The last instant of the clock lasts for ever.
Passed(since, length) == now = MaxTime \/ since + length <= now

\* Mutant of Due: seats past due are not tried again.
DueActive(s) == seat[s].end # None /\ seat[s].end <= now /\ seat[s].status = "active"

Due(s) ==
  /\ seat[s].end # None /\ seat[s].end <= now
  /\ \/ seat[s].status = "active"
     \/ seat[s].status = "past_due" /\ Passed(seat[s].touched, Retry)

ListDue(c) ==
  /\ scanner[c].pc = "idle"
  /\ scanner' = [scanner EXCEPT ![c] = [IdleScanner EXCEPT !.pc = "renew", !.at = now,
                                                           !.due = {s \in Seats : Due(s)}]]
  /\ UNCHANGED <<now, seat, customer, desk, holders, history>>

\* renewOne reads the row again; a seat unpaid beyond the grace is closed, and
\* an office without a saved card has nothing to charge.
ReadSeat(c) ==
  /\ scanner[c].pc = "renew"
  /\ \E s \in scanner[c].due :
       LET row    == seat[s]
           beyond == row.status = "past_due" /\ scanner[c].at > row.end + Grace
       IN \/ /\ row.status \notin Live
             /\ scanner' = [scanner EXCEPT ![c].due = @ \ {s}]
          \/ /\ row.status \in Live
             /\ \E pc \in IF beyond THEN {"unpaid"} ELSE {"claim", "mark"} :
                  scanner' = [scanner EXCEPT ![c] =
                    [pc |-> pc, at |-> scanner[c].at, due |-> scanner[c].due \ {s}, seat |-> s,
                     status |-> row.status, from |-> row.end,
                     to |-> NextPeriodEnd(row.end, scanner[c].at)]]
  /\ UNCHANGED <<now, seat, customer, desk, holders, history>>

\* Mutant of Claimable: the period that was read is not compared.
ClaimableByStatus(c) == seat[scanner[c].seat].status \in Live

Claimable(c) ==
  LET row == seat[scanner[c].seat] IN row.end = scanner[c].from /\ row.status \in Live

Claim(c) ==
  LET s == scanner[c].seat IN
  /\ scanner[c].pc = "claim"
  /\ IF Claimable(c)
       THEN /\ seat' = [seat EXCEPT ![s] = Row(seat[s].status, scanner[c].to)]
            /\ scanner' = [scanner EXCEPT ![c].pc = "charge"]
       ELSE /\ scanner' = [scanner EXCEPT ![c] = Resume(c)]
            /\ UNCHANGED seat
  /\ UNCHANGED <<now, customer, desk, holders, history>>

\* chargeToken: paid, declined, or an exception after which nobody knows.
ChargePaid(c) ==
  /\ scanner[c].pc = "charge"
  /\ answered' = [answered EXCEPT ![<<scanner[c].seat, scanner[c].from>>] = @ + 1]
  /\ scanner' = [scanner EXCEPT ![c] =
                   IF scanner[c].status = "past_due" THEN [@ EXCEPT !.pc = "reactivate"]
                   ELSE Resume(c)]
  /\ UNCHANGED <<now, seat, customer, desk, holders, lost, taken, faults>>

ChargeDeclined(c) ==
  /\ scanner[c].pc = "charge"
  /\ scanner' = [scanner EXCEPT ![c].pc = "rollback"]
  /\ UNCHANGED <<now, seat, customer, desk, holders, history>>

ChargeLost(c) ==
  /\ scanner[c].pc = "charge"
  /\ faults < MaxFaults
  /\ faults' = faults + 1
  /\ lost' = lost \cup {<<scanner[c].seat, scanner[c].from>>}
  /\ scanner' = [scanner EXCEPT ![c].pc = "rollback"]
  /\ UNCHANGED <<now, seat, customer, desk, holders, answered, taken>>

\* By id, as markPastDue.
Reactivate(c) ==
  LET s == scanner[c].seat IN
  /\ scanner[c].pc = "reactivate"
  /\ seat' = [seat EXCEPT ![s] = Row("active", seat[s].end)]
  /\ scanner' = [scanner EXCEPT ![c] = Resume(c)]
  /\ UNCHANGED <<now, customer, desk, holders, history>>

RollBack(c) ==
  LET s == scanner[c].seat IN
  /\ scanner[c].pc = "rollback"
  /\ seat' = IF seat[s].end = scanner[c].to
               THEN [seat EXCEPT ![s] = Row(seat[s].status, scanner[c].from)] ELSE seat
  /\ scanner' = [scanner EXCEPT ![c].pc = "mark"]
  /\ UNCHANGED <<now, customer, desk, holders, history>>

MarkPastDue(c) ==
  LET s == scanner[c].seat IN
  /\ scanner[c].pc = "mark"
  /\ seat' = [seat EXCEPT ![s] = Row("past_due", seat[s].end)]
  /\ scanner' = [scanner EXCEPT ![c] = Resume(c)]
  /\ UNCHANGED <<now, customer, desk, holders, history>>

\* Both ways to close a seat are conditional on its status, and the flag of an
\* agent follows.
CloseUnpaid(c) ==
  LET s == scanner[c].seat IN
  /\ scanner[c].pc = "unpaid"
  /\ IF seat[s].status = "past_due"
       THEN /\ seat' = [seat EXCEPT ![s] = Row("released", seat[s].end)]
            /\ scanner' = [scanner EXCEPT ![c].pc = "revoke"]
       ELSE /\ scanner' = [scanner EXCEPT ![c] = Resume(c)]
            /\ UNCHANGED seat
  /\ UNCHANGED <<now, customer, desk, holders, history>>

ListCancelled(c) ==
  /\ scanner[c].pc = "renew" /\ scanner[c].due = {}
  /\ scanner' = [scanner EXCEPT ![c] =
       [IdleScanner EXCEPT !.pc = "close", !.at = now,
                           !.due = {s \in Seats : /\ seat[s].status = "cancelled"
                                                  /\ seat[s].end = None \/ seat[s].end <= now}]]
  /\ UNCHANGED <<now, seat, customer, desk, holders, history>>

CloseCancelled(c) ==
  /\ scanner[c].pc = "close"
  /\ \E s \in scanner[c].due :
       IF seat[s].status = "cancelled"
         THEN /\ seat' = [seat EXCEPT ![s] = Row("released", seat[s].end)]
              /\ scanner' = [scanner EXCEPT ![c].pc = "revoke", ![c].due = @ \ {s}]
         ELSE /\ scanner' = [scanner EXCEPT ![c].due = @ \ {s}]
              /\ UNCHANGED seat
  /\ UNCHANGED <<now, customer, desk, holders, history>>

EndTick(c) ==
  /\ scanner[c].pc = "close" /\ scanner[c].due = {}
  /\ scanner' = [scanner EXCEPT ![c] = IdleScanner]
  /\ UNCHANGED <<now, seat, customer, desk, holders, history>>

Pass ==
  /\ now < MaxTime
  /\ now' = now + 1
  /\ UNCHANGED <<seat, customer, desk, holders, scanner, history>>

\* The replica is killed and starts again.
Crash(c) ==
  /\ scanner[c].pc # "idle"
  /\ faults < MaxFaults
  /\ faults' = faults + 1
  /\ taken' = (taken \/ scanner[c].pc = "revoke")
  /\ scanner' = [scanner EXCEPT ![c] = IdleScanner]
  /\ UNCHANGED <<now, seat, customer, desk, holders, answered, lost>>

Tick(c) ==
  \/ ListDue(c) \/ ReadSeat(c) \/ Claim(c) \/ ChargePaid(c) \/ ChargeDeclined(c) \/ ChargeLost(c)
  \/ Reactivate(c) \/ RollBack(c) \/ MarkPastDue(c) \/ CloseUnpaid(c) \/ ListCancelled(c)
  \/ CloseCancelled(c) \/ Revoke(c) \/ EndTick(c)

SeatsNext ==
  \/ \E v \in Visitors : FindPending(v) \/ CreateSeat(v) \/ Supersede(v) \/ OpenPage(v)
                          \/ CancelRead(v) \/ CancelWrite(v)
  \/ \E p \in Payments : ClaimPayment(p) \/ Activate(p)
  \/ \E a \in Agents : GrantLock(a)
  \/ \E u \in Agents \cup {Owner} : Withdraw(u)
  \/ GrantCommit \/ CheckExtra \/ WriteExtra
  \/ \E c \in Scanners : Tick(c) \/ Crash(c)
  \/ Pass

\* The timers keep ticking, and time passes.
SeatsFairness == WF_seatVars(Pass) /\ \A c \in Scanners : WF_seatVars(Tick(c))

SeatsSpec == SeatsInit /\ [][SeatsNext]_seatVars /\ SeatsFairness

-----------------------------------------------------------------------------
(***************************************************************************)
(* What paid seats promise.                                                *)
(***************************************************************************)

Statuses == {"absent", "pending", "active", "past_due", "cancelled", "released"}
SeatRow  == [status : Statuses, end : Nat \cup {None}, touched : 0 .. MaxTime]

\* Every variable keeps to its type; a used seat has a period.
SeatsTypeOK ==
  /\ now \in 0 .. MaxTime
  /\ seat \in [Seats -> SeatRow]
  /\ \A s \in Seats : seat[s].status \in Live \cup {"cancelled"} => seat[s].end # None
  /\ payment \in [Payments -> [status : {"absent", "pending", "superseded", "failed", "paid"},
                               seat : Seats \cup {None}]]
  /\ confirm \in [Payments -> SeatRow \cup {None}]
  /\ granted \in 0 .. MaxGranted /\ lowering \in 0 .. MaxGranted \cup {None}
  /\ holders \subseteq Agents \cup {Owner} /\ giving \in Agents \cup {None}
  /\ \A c \in Scanners : scanner[c].due \subseteq Seats /\ scanner[c].at \in 0 .. MaxTime
  /\ faults \in 0 .. MaxFaults /\ taken \in BOOLEAN

\* Agents work with the assistant only on seats that are paid, included or
\* granted; when a seat ends, a replica is on its way to take the assistant
\* from someone, or the hour of its sweep has not come (releaseDue,
\* closeUnpaid, revokeOverQuota).  Three writes that nothing guards are left
\* out: a cancellation of an order that has just been paid, the platform's
\* write after its check, and a replica killed before it revokes.
HoldersCovered ==
  \/ Cardinality(holders) <= Quota(granted)
  \/ \E c \in Scanners : scanner[c].pc = "revoke"
  \/ \E s \in Seats : seat[s].status = "cancelled" /\ seat[s].end <= now
  \/ taken

\* Two replicas that retry the same seat, on the same day or on another, never
\* collect one month twice, as far as Cardcom answers (renewOne).
MonthCollectedOnce == \A x \in DOMAIN answered : answered[x] <= 1

\* A seat that is not paid for does not work for ever: it is charged at last,
\* cancelled, or closed after the grace (renewDue takes seats past due too).
UnpaidIsSettled ==
  \A s \in Seats :
    LET unpaid == seat[s].status = "past_due" /\ seat[s].end + Grace < MaxTime
    IN unpaid ~> ~unpaid

\* "past_due and not active, because the charge may have gone through": a month
\* whose charge may have gone through is not charged again.
NoChargeAfterLost == \A x \in DOMAIN answered : x \in lost => answered[x] = 0
=============================================================================
