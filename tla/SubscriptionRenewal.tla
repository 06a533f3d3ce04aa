------------------------ MODULE SubscriptionRenewal ------------------------
(***************************************************************************)
(* RenewalService: every API replica runs a scanner that reminds before a  *)
(* renewal and charges the saved card when the period has ended.  Two      *)
(* replicas scan at the same time, and both race with the purchases and    *)
(* the cancellation of SubscriptionCheckout on the same subscription row.  *)
(*                                                                         *)
(* The world starts in the middle of a paid period with a saved card.      *)
(***************************************************************************)
EXTENDS SubscriptionCheckout, Sequences

CONSTANTS
  Scanners,    \* replicas running tick()
  FirstEnd,    \* where the period that was paid first ends
  WarnWithin,  \* RENEWAL_WARN_WITHIN_DAYS, in ticks
  MaxFaults   \* bounds the crashes and lost answers in the middle of a renewal

ASSUME RenewalAssumption ==
  /\ FirstEnd \in Nat
  /\ WarnWithin \in Nat
  /\ MaxFaults \in Nat

VARIABLES
  scanner,      \* where each replica stands
  reminderFor,  \* subscriptions.renewal_reminder_for
  reminders,    \* history: the period end of each reminder sent
  charge,       \* history: the period end each charge of the card started from
  faults       \* crashes and lost answers so far

renewalVars == <<scanner, reminderFor, reminders, charge, faults>>
allVars     == <<vars, renewalVars>>

IdleScanner == [pc |-> "idle", at |-> None, from |-> None, to |-> None, payment |-> None]

RenewalInit ==
  /\ NoActivity
  /\ subscription = [status |-> "active", plan |-> "paid", end |-> FirstEnd, card |-> TRUE]
  /\ paidUntil = AccessUntil(FirstEnd)
  /\ scanner = [s \in Scanners |-> IdleScanner]
  /\ reminderFor = None
  /\ reminders = <<>>
  /\ charge = [p \in Payments |-> None]
  /\ faults = 0

-----------------------------------------------------------------------------
(***************************************************************************)
(* remindUpcoming: at most one mail for each period, whichever replica.    *)
(***************************************************************************)

\* The list of periods about to end, compared with the reminder in memory.
ListUpcoming(s) ==
  /\ scanner[s].pc = "idle"
  /\ subscription.status = "active" /\ subscription.card
  /\ subscription.end # None
  /\ now < subscription.end /\ subscription.end <= now + WarnWithin
  /\ reminderFor # subscription.end
  /\ scanner' = [scanner EXCEPT ![s].pc = "remind", ![s].from = reminderFor,
                                ![s].to = subscription.end]
  /\ UNCHANGED <<vars, reminderFor, reminders, charge, faults>>

\* Mutant of ReminderClaimable: the period is compared, the reminder is not.
ReminderClaimableByPeriod(s) == subscription.end = scanner[s].to

\* The claim: the row still says what the list said.
ReminderClaimable(s) == subscription.end = scanner[s].to /\ reminderFor = scanner[s].from

\* A mail that fails is not sent again; the mark stays.
ClaimReminder(s) ==
  /\ scanner[s].pc = "remind"
  /\ IF ReminderClaimable(s)
       THEN /\ reminderFor' = scanner[s].to
            /\ reminders' = Append(reminders, scanner[s].to)
       ELSE UNCHANGED <<reminderFor, reminders>>
  /\ scanner' = [scanner EXCEPT ![s] = IdleScanner]
  /\ UNCHANGED <<vars, charge, faults>>

-----------------------------------------------------------------------------
(***************************************************************************)
(* renewDue and renewOne.                                                  *)
(***************************************************************************)

\* The due list is read once per round, with the round's own time.
ListDue(s) ==
  /\ scanner[s].pc = "idle"
  /\ subscription.status = "active" /\ subscription.card
  /\ subscription.end # None /\ subscription.end <= now
  /\ scanner' = [scanner EXCEPT ![s].pc = "due", ![s].at = now]
  /\ UNCHANGED <<vars, reminderFor, reminders, charge, faults>>

\* renewOne reads the row again when its turn comes: without a card, or on a
\* plan that costs nothing, there is nothing to renew.
ReadRow(s) ==
  /\ scanner[s].pc = "due"
  /\ scanner' = [scanner EXCEPT ![s] =
       IF subscription.card /\ subscription.plan = "paid"
         THEN [pc |-> "claim", at |-> scanner[s].at, from |-> subscription.end,
               to |-> NextPeriodEnd(subscription.end, scanner[s].at), payment |-> None]
         ELSE IdleScanner]
  /\ UNCHANGED <<vars, reminderFor, reminders, charge, faults>>

\* Mutant of RenewalClaimable: the period that was read is not compared.
RenewalClaimableAlways(s) == subscription.status = "active"

\* The claim: the period is moved before Cardcom is asked, if it is still the
\* one that was read.
RenewalClaimable(s) == subscription.end = scanner[s].from /\ subscription.status = "active"

ClaimRenewal(s) ==
  /\ scanner[s].pc = "claim"
  /\ IF RenewalClaimable(s)
       THEN /\ subscription' = [subscription EXCEPT !.end = scanner[s].to]
            /\ scanner' = [scanner EXCEPT ![s].pc = "create"]
       ELSE /\ scanner' = [scanner EXCEPT ![s] = IdleScanner]
            /\ UNCHANGED subscription
  /\ UNCHANGED <<now, rows, paidUntil, coupon, redemptions, benefits, ledger, grants, invoiced,
                 checkout, handler, reminderFor, reminders, charge, faults>>

CreateRenewal(s) ==
  /\ scanner[s].pc = "create"
  /\ \E p \in Payments :
       /\ payment[p].status = "absent"
       /\ payment' = [payment EXCEPT ![p] = [kind |-> "renewal", status |-> "pending", linked |-> FALSE]]
       /\ scanner' = [scanner EXCEPT ![s].pc = "charge", ![s].payment = p]
  /\ UNCHANGED <<now, page, tenant, invoiced, checkout, handler, reminderFor, reminders, charge,
                 faults>>

\* chargeToken answers at once.
ChargePaid(s) ==
  /\ scanner[s].pc = "charge"
  /\ charge' = [charge EXCEPT ![scanner[s].payment] = scanner[s].from]
  /\ scanner' = [scanner EXCEPT ![s].pc = "commit"]
  /\ UNCHANGED <<vars, reminderFor, reminders, faults>>

ChargeDeclined(s) ==
  /\ scanner[s].pc = "charge"
  /\ scanner' = [scanner EXCEPT ![s].pc = "rollback"]
  /\ UNCHANGED <<vars, reminderFor, reminders, charge, faults>>

\* No answer arrives: the exception ends this renewal, charged or not, and the
\* round goes on.
ChargeTimesOut(s) ==
  /\ scanner[s].pc = "charge"
  /\ faults < MaxFaults
  /\ faults' = faults + 1
  /\ \/ charge' = [charge EXCEPT ![scanner[s].payment] = scanner[s].from]
     \/ UNCHANGED charge
  /\ scanner' = [scanner EXCEPT ![s] = IdleScanner]
  /\ UNCHANGED <<vars, reminderFor, reminders>>

\* A declined charge gives the period back, if it is still the claimed one.
RollBack(s) ==
  /\ scanner[s].pc = "rollback"
  /\ subscription' = IF subscription.end = scanner[s].to
                       THEN [subscription EXCEPT !.end = scanner[s].from]
                       ELSE subscription
  /\ scanner' = [scanner EXCEPT ![s].pc = "fail"]
  /\ UNCHANGED <<now, rows, paidUntil, coupon, redemptions, benefits, ledger, grants, invoiced,
                 checkout, handler, reminderFor, reminders, charge, faults>>

FailRenewal(s) ==
  /\ scanner[s].pc = "fail"
  /\ payment' = [payment EXCEPT ![scanner[s].payment].status = "failed"]
  /\ scanner' = [scanner EXCEPT ![s] = IdleScanner]
  /\ UNCHANGED <<now, page, tenant, invoiced, checkout, handler, reminderFor, reminders, charge,
                 faults>>

\* Mutant of CommitRenewal: the row is only paid if it is still pending.
CommitPendingRenewal(s) ==
  LET p == scanner[s].payment IN
  /\ scanner[s].pc = "commit"
  /\ IF payment[p].status = "pending"
       THEN /\ payment' = [payment EXCEPT ![p].status = "paid"]
            /\ paidUntil' = AccessUntil(scanner[s].to)
            /\ grants' = [grants EXCEPT ![p] = grants[p] + 1]
       ELSE UNCHANGED <<payment, paidUntil, grants>>
  /\ scanner' = [scanner EXCEPT ![s].pc = "invoice"]
  /\ UNCHANGED <<now, page, subscription, coupon, redemptions, benefits, ledger, invoiced, checkout,
                 handler, reminderFor, reminders, charge, faults>>

\* One transaction: the payment is paid and the gate opens until the end that
\* was computed before the charge.
CommitRenewal(s) ==
  LET p == scanner[s].payment IN
  /\ scanner[s].pc = "commit"
  /\ payment' = [payment EXCEPT ![p].status = "paid"]
  /\ paidUntil' = AccessUntil(scanner[s].to)
  /\ grants' = [grants EXCEPT ![p] = grants[p] + 1]
  /\ scanner' = [scanner EXCEPT ![s].pc = "invoice"]
  /\ UNCHANGED <<now, page, subscription, coupon, redemptions, benefits, ledger, invoiced, checkout,
                 handler, reminderFor, reminders, charge, faults>>

QueueRenewalInvoice(s) ==
  /\ scanner[s].pc = "invoice"
  /\ invoiced' = invoiced \cup {scanner[s].payment}
  /\ scanner' = [scanner EXCEPT ![s] = IdleScanner]
  /\ UNCHANGED <<now, rows, tenant, checkout, handler, reminderFor, reminders, charge, faults>>

\* The replica dies, at any point of a renewal.
CrashScanner(s) ==
  /\ scanner[s].pc # "idle"
  /\ faults < MaxFaults
  /\ faults' = faults + 1
  /\ scanner' = [scanner EXCEPT ![s] = IdleScanner]
  /\ UNCHANGED <<vars, reminderFor, reminders, charge>>

ScanStep(s) ==
  \/ ListUpcoming(s) \/ ClaimReminder(s) \/ ListDue(s) \/ ReadRow(s) \/ ClaimRenewal(s)
  \/ CreateRenewal(s) \/ ChargePaid(s) \/ ChargeDeclined(s) \/ ChargeTimesOut(s) \/ RollBack(s)
  \/ FailRenewal(s) \/ CommitRenewal(s) \/ QueueRenewalInvoice(s) \/ CrashScanner(s)

RenewalNext ==
  \/ Next /\ UNCHANGED renewalVars
  \/ \E s \in Scanners : ScanStep(s)

RenewalSpec == RenewalInit /\ [][RenewalNext]_allVars

-----------------------------------------------------------------------------
(***************************************************************************)
(* What a correct renewal guarantees.                                      *)
(***************************************************************************)

\* Two replicas never charge the card for the same period: the claim on
\* currentPeriodEnd lets one of them through (renewOne).
OneChargePerPeriod ==
  \A p, q \in Payments : charge[p] # None /\ charge[p] = charge[q] => p = q

\* The office gets one reminder for each period, from one replica (the mark
\* reminderFor), while charges are shorter than what separates a renewal from
\* the next warning.
OneReminderPerPeriod ==
  \A i, j \in DOMAIN reminders : reminders[i] = reminders[j] => i = j

\* A charge that Cardcom answered is recorded as paid, even when the customer
\* opened a payment page meanwhile and the pending row was superseded.
ChargedRenewalRecorded ==
  \A p \in Payments :
    charge[p] # None /\ faults = 0 /\ (\A s \in Scanners : scanner[s].payment # p)
      => payment[p].status = "paid"

\* The card is only charged for a period that follows one that has ended:
\* "the safety from a double charge does not rely on one copy running".
ChargedOnlyWhenDue == \A p \in Payments : charge[p] # None => charge[p] <= now
=============================================================================
