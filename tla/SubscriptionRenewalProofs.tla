---------------------- MODULE SubscriptionRenewalProofs ----------------------
(***************************************************************************)
(* The checkout and the renewals of one office together.  What was proved  *)
(* of the checkout alone also holds while replicas renew: every payment,   *)
(* renewals included, is settled once, and an answered charge is recorded. *)
(* No period is charged twice, however many replicas scan and however long *)
(* a charge takes, unless a purchase takes the period backwards.           *)
(***************************************************************************)
EXTENDS SubscriptionRenewal, SubscriptionCheckoutProofs

-----------------------------------------------------------------------------
(***************************************************************************)
(* What the replicas know of the tables.  A renewal's row has no page, so  *)
(* that no run of apply() ever works on it; a request opens a page for a   *)
(* row of its own; and the replica that created the row is the only one to *)
(* settle it, whatever the row's status has become.                        *)
(***************************************************************************)
Scan == [pc : {"idle", "remind", "due", "claim", "create", "charge", "rollback", "fail", "commit",
               "invoice"},
         at : Nat \cup {None}, from : Nat \cup {None}, to : Nat \cup {None},
         payment : Payments \cup {None}]

\* A scanner that won the claim holds the period [from, to) until it has
\* charged it or given it back.
Holding == {"create", "charge", "rollback"}

\* It has a row of its own from the insert to the invoice.
Unpaid  == {"charge", "rollback", "fail", "commit"}
Working == Unpaid \cup {"invoice"}

RenewalTypes ==
  /\ scanner \in [Scanners -> Scan]
  /\ charge \in [Payments -> Nat \cup {None}]
  /\ reminderFor \in Nat \cup {None}
  /\ faults \in Nat

PaidPlanHasEnd == subscription.plan = "paid" => subscription.end \in Nat

\* The claim was computed from the time the due list was read at.
ClaimsGoForward ==
  \A s \in Scanners :
    /\ scanner[s].pc = "due" => scanner[s].at \in Nat
    /\ scanner[s].pc \in Holding \cup {"claim"} =>
         /\ scanner[s].from \in Nat
         /\ scanner[s].to \in Nat
         /\ scanner[s].from < scanner[s].to
    /\ scanner[s].pc = "commit" => scanner[s].to \in Nat

RenewalRowsUnlinked == \A p \in Payments : payment[p].kind = "renewal" => ~payment[p].linked

RequestsOpenPurchases ==
  \A c \in Checkouts : checkout[c].pc = "open" => payment[checkout[c].payment].kind # "renewal"

ScannersOwnRows ==
  \A s \in Scanners :
    /\ scanner[s].pc \in Working =>
         scanner[s].payment \in Payments /\ payment[scanner[s].payment].kind = "renewal"
    /\ scanner[s].pc \in Unpaid => payment[scanner[s].payment].status \in Claimable
    /\ scanner[s].pc = "invoice" => payment[scanner[s].payment].status = "paid"

OneScannerPerRow ==
  \A s, t \in Scanners :
    scanner[s].pc \in Working /\ scanner[t].pc \in Working /\ scanner[s].payment = scanner[t].payment
      => s = t

\* A charge belongs to a renewal's row; as long as nobody was killed and no
\* answer was lost, it is recorded, or its replica is about to record it.
ChargesHaveRows ==
  /\ \A p \in Payments : charge[p] # None =>
       payment[p].kind = "renewal" /\ payment[p].status # "absent"
  /\ \A s \in Scanners : scanner[s].pc \in {"charge", "rollback", "fail"} =>
       charge[scanner[s].payment] = None
  /\ \A p \in Payments : charge[p] # None /\ faults = 0 =>
       \/ payment[p].status = "paid"
       \/ \E s \in Scanners : scanner[s].pc = "commit" /\ scanner[s].payment = p

CInv ==
  /\ IInv
  /\ RenewalTypes
  /\ PaidPlanHasEnd
  /\ ClaimsGoForward
  /\ RenewalRowsUnlinked
  /\ RequestsOpenPurchases
  /\ ScannersOwnRows
  /\ OneScannerPerRow
  /\ ChargesHaveRows

-----------------------------------------------------------------------------
LEMMA InitCInv == RenewalInit => CInv
<1> SUFFICES ASSUME RenewalInit PROVE CInv
  OBVIOUS
<1> USE RenewalAssumption, CheckoutAssumption DEF RenewalInit, NoActivity
<1>1. IInv
  BY DEF IInv, TypeOK, AppliedOnce, RunsOwnRows, OneTransactionPerRow, RequestsOwnRows,
         OneRequestPerRow, AbsentRowsUnlinked, Row, Request, Run, AbsentRow, IdleRequest,
         IdleHandler, Coupons, AccessUntil
<1>2. RenewalTypes
  BY DEF RenewalTypes, IdleScanner, Scan
<1>3. PaidPlanHasEnd /\ ClaimsGoForward /\ ScannersOwnRows /\ OneScannerPerRow
  BY DEF PaidPlanHasEnd, ClaimsGoForward, ScannersOwnRows, OneScannerPerRow, IdleScanner, Holding,
         Unpaid, Working
<1>4. RenewalRowsUnlinked /\ RequestsOpenPurchases /\ ChargesHaveRows
  BY DEF RenewalRowsUnlinked, RequestsOpenPurchases, ChargesHaveRows, AbsentRow, IdleRequest,
         IdleScanner
<1> QED
  BY <1>1, <1>2, <1>3, <1>4 DEF CInv

\* A claim moves the period forward, whatever end and time it starts from.
LEMMA ClaimGoesForward ==
  ASSUME NEW end \in Nat, NEW at \in Nat
  PROVE  NextPeriodEnd(end, at) \in Nat /\ end < NextPeriodEnd(end, at)
BY CheckoutAssumption DEF NextPeriodEnd

(***************************************************************************)
(* Steps of the checkout.                                                  *)
(***************************************************************************)

\* The checkout leaves the rows of renewals alone, but for superseding them,
\* and makes no new ones.
RenewalRowKept(p) ==
  /\ payment[p].kind = "renewal" /\ payment[p].status # "absent" =>
       /\ payment'[p].kind = "renewal"
       /\ \/ payment'[p].status = payment[p].status
          \/ payment[p].status = "pending" /\ payment'[p].status = "superseded"
       /\ payment'[p].linked = payment[p].linked
  /\ payment'[p].kind = "renewal" =>
       payment[p].kind = "renewal" /\ payment'[p].linked = payment[p].linked

LEMMA RowsKept ==
  ASSUME CInv, Next, NEW p \in Payments
  PROVE  RenewalRowKept(p)
<1> USE DEF CInv, IInv, TypeOK, RenewalRowKept
<1>1. ASSUME NEW c \in Checkouts,
             PricePlan(c) \/ PriceOffer(c) \/ PriceCredits(c) \/ CrashRequest(c) \/ ReadForFree(c)
      PROVE  RenewalRowKept(p)
  BY <1>1 DEF PricePlan, PriceOffer, PriceCredits, Begin, CrashRequest, ReadForFree, rows
<1>2. ASSUME NEW c \in Checkouts, Supersede(c) PROVE RenewalRowKept(p)
  BY <1>2 DEF Supersede, Row
<1>3. ASSUME NEW c \in Checkouts, CreateRow(c) PROVE RenewalRowKept(p)
  <2>1. PICK q \in Payments :
          /\ payment[q].status = "absent"
          /\ payment' = [payment EXCEPT ![q] =
                           [kind |-> checkout[c].kind, status |-> "pending", linked |-> FALSE]]
    BY <1>3 DEF CreateRow
  <2>2. checkout[c].kind # "renewal" /\ payment[p] \in Row
    BY DEF Request
  <2>3. CASE p = q
    BY <2>1, <2>2, <2>3 DEF AbsentRowsUnlinked, RenewalRowsUnlinked
  <2>4. CASE p # q
    BY <2>1, <2>4
  <2> QED
    BY <2>3, <2>4
<1>4. ASSUME NEW c \in Checkouts, OpenPage(c) \/ OpenPageFails(c) PROVE RenewalRowKept(p)
  BY <1>4 DEF OpenPage, OpenPageFails, RequestsOpenPurchases, Row
<1>5. ASSUME NEW c \in Checkouts, ActivateFree(c) PROVE RenewalRowKept(p)
  <2>1. PICK q \in Payments :
          /\ payment[q].status = "absent"
          /\ payment' = [payment EXCEPT ![q] =
                           [kind |-> "plan", status |-> "paid", linked |-> FALSE]]
    BY <1>5 DEF ActivateFree
  <2>2. CASE p = q
    BY <2>1, <2>2
  <2>3. CASE p # q
    BY <2>1, <2>3
  <2> QED
    BY <2>2, <2>3
<1>6. ASSUME NEW h \in Handlers, ApplyStep(h), ~Reject(h), ~Commit(h) PROVE RenewalRowKept(p)
  BY <1>6 DEF ApplyStep, Webhook, PollReturnPage, Start, Verify, Load, ClaimLost, Claim,
              QueueInvoice, Abandon, rows
<1>7. ASSUME NEW h \in Handlers, Reject(h) \/ Commit(h) PROVE RenewalRowKept(p)
  <2>1. payment[handler[h].payment].kind # "renewal"
    BY <1>7 DEF Reject, Commit, RunsOwnRows, RenewalRowsUnlinked
  <2> QED
    BY <1>7, <2>1 DEF Reject, Commit, Row
<1>8. ASSUME (\E q \in Payments : Pay(q) \/ Decline(q)) \/ OtherOfficeRedeems \/ Cancel \/ SwitchToFree \/ Tick
      PROVE  RenewalRowKept(p)
  BY <1>8 DEF Pay, Decline, OtherOfficeRedeems, Cancel, SwitchToFree, Tick, rows
<1> QED
  BY <1>1, <1>2, <1>3, <1>4, <1>5, <1>6, <1>7, <1>8 DEF Next, OpenStep, ApplyStep

\* A page is opened for the row the request has just inserted, a purchase.
LEMMA PurchasesOpened ==
  ASSUME CInv, Next
  PROVE  RequestsOpenPurchases'
<1> SUFFICES ASSUME NEW c \in Checkouts, checkout'[c].pc = "open"
             PROVE  payment'[checkout'[c].payment].kind # "renewal"
  BY DEF RequestsOpenPurchases
<1> USE DEF CInv, IInv, TypeOK
<1>1. CASE checkout'[c] = checkout[c]
  <2>1. checkout[c].payment \in Payments /\ payment[checkout[c].payment].kind # "renewal"
    BY <1>1 DEF RequestsOwnRows, RequestsOpenPurchases
  <2> QED
    BY <1>1, <2>1, RowsKept DEF RenewalRowKept
<1>2. CASE CreateRow(c)
  BY <1>2 DEF CreateRow, Request, Row
<1>3. CASE checkout'[c] # checkout[c] /\ ~CreateRow(c)
  <2>1. ASSUME NEW b \in Checkouts, OpenStep(b) PROVE b = c
    BY <1>3, <2>1 DEF OpenStep, PricePlan, PriceOffer, PriceCredits, Begin, Supersede, CreateRow, OpenPage,
       OpenPageFails, CrashRequest, ReadForFree, ActivateFree
  <2>2. OpenStep(c)
    BY <1>3, <2>1 DEF Next, ApplyStep, Webhook, PollReturnPage, Start, Verify, Load, Reject, ClaimLost, Claim,
       Commit, QueueInvoice, Abandon, Pay, Decline, OtherOfficeRedeems, Cancel, SwitchToFree, Tick
  <2>3. CASE OpenPage(c) \/ OpenPageFails(c) \/ CrashRequest(c) \/ ActivateFree(c)
    <3>1. checkout' = [checkout EXCEPT ![c] = IdleRequest]
      BY <2>3 DEF OpenPage, OpenPageFails, CrashRequest, ActivateFree
    <3> QED
      BY <3>1 DEF IdleRequest
  <2>4. CASE PricePlan(c) \/ PriceOffer(c) \/ PriceCredits(c)
    <3>1. PICK pc \in {"supersede", "create"}, kind \in {"plan", "offer", "credits"}, discount \in Coupons :
            checkout' = [checkout EXCEPT ![c] = [pc |-> pc, kind |-> kind, discount |-> discount,
                                                 payment |-> None, end |-> None]]
      BY <2>4 DEF PricePlan, PriceOffer, PriceCredits, Begin, Coupons, Request
    <3> QED
      BY <3>1
  <2>5. CASE Supersede(c) \/ ReadForFree(c)
    <3>1. PICK pc \in {"free", "create", "commit"} : checkout'[c].pc = pc
      BY <2>5 DEF Supersede, ReadForFree, Request
    <3> QED
      BY <3>1
  <2> QED
    BY <1>3, <2>2, <2>3, <2>4, <2>5 DEF OpenStep
<1> QED
  BY <1>1, <1>2, <1>3

\* A purchase records an end; a switch to the free plan drops it.
LEMMA PlanKeepsEnd ==
  ASSUME CInv, Next
  PROVE  PaidPlanHasEnd'
<1>1. CASE UNCHANGED subscription
  BY <1>1 DEF CInv, PaidPlanHasEnd
<1>2. ASSUME NEW p \in Payments, NEW end \in Nat, NEW card \in BOOLEAN, Activate(p, end, card)
      PROVE  PaidPlanHasEnd'
  BY <1>2 DEF Activate, PaidPlanHasEnd
<1>3. CASE Cancel \/ SwitchToFree
  <2>1. CASE Cancel
    BY <2>1 DEF Cancel, CInv, IInv, TypeOK, PaidPlanHasEnd
  <2>2. CASE SwitchToFree
    BY <2>2 DEF SwitchToFree, PaidPlanHasEnd
  <2> QED
    BY <1>3, <2>1, <2>2
<1>4. ASSUME NEW c \in Checkouts, OpenStep(c), ~ActivateFree(c) PROVE UNCHANGED subscription
  BY <1>4 DEF OpenStep, PricePlan, PriceOffer, PriceCredits, Begin, Supersede, CreateRow, OpenPage,
     OpenPageFails, CrashRequest, ReadForFree, tenant
<1>5. ASSUME NEW c \in Checkouts, ActivateFree(c) PROVE PaidPlanHasEnd'
  BY <1>2, <1>5 DEF ActivateFree, CInv, IInv, RequestsOwnRows
<1>6. ASSUME NEW h \in Handlers, ApplyStep(h), ~Commit(h) PROVE UNCHANGED subscription
  BY <1>6 DEF ApplyStep, Webhook, PollReturnPage, Start, Verify, Load, Reject, ClaimLost, Claim,
     QueueInvoice, Abandon, tenant
<1>7. ASSUME NEW h \in Handlers, Commit(h) PROVE PaidPlanHasEnd'
  <2>1. handler[h].payment \in Payments /\ handler[h].end \in Nat
    BY <1>7 DEF Commit, CInv, IInv, RunsOwnRows
  <2> QED
    BY <1>1, <1>2, <1>7, <2>1 DEF Commit, CommitCredits, CommitPlan, CommitOffer
<1>8. ASSUME (\E p \in Payments : Pay(p) \/ Decline(p)) \/ OtherOfficeRedeems \/ Tick
      PROVE  UNCHANGED subscription
  BY <1>8 DEF Pay, Decline, OtherOfficeRedeems, Tick, tenant
<1> QED
  BY <1>1, <1>3, <1>4, <1>5, <1>6, <1>7, <1>8 DEF Next

LEMMA CheckoutStep ==
  ASSUME CInv, Next, UNCHANGED renewalVars
  PROVE  CInv'
<1>1. UNCHANGED <<scanner, charge, reminderFor, faults>>
  BY DEF renewalVars
<1>2. IInv'
  BY NextIInv DEF CInv
<1>3. \A p \in Payments : RenewalRowKept(p)
  BY RowsKept
<1>4. RenewalTypes' /\ ClaimsGoForward' /\ OneScannerPerRow'
  BY <1>1 DEF CInv, RenewalTypes, ClaimsGoForward, OneScannerPerRow
<1>5. RenewalRowsUnlinked'
  BY <1>3 DEF CInv, RenewalRowsUnlinked, RenewalRowKept
<1>6. ScannersOwnRows'
  BY <1>1, <1>3 DEF CInv, ScannersOwnRows, RenewalRowKept, Claimable, Unpaid, Working
<1>7. ChargesHaveRows'
  BY <1>1, <1>3 DEF CInv, ChargesHaveRows, RenewalRowKept
<1> QED
  BY <1>2, <1>4, <1>5, <1>6, <1>7, PlanKeepsEnd, PurchasesOpened DEF CInv

-----------------------------------------------------------------------------
(***************************************************************************)
(* Steps of a replica.                                                     *)
(***************************************************************************)
Subscriptions ==
  [status : {"trial", "active", "cancelled"}, plan : {"trial", "paid", "free"},
   end : Nat \cup {None}, card : BOOLEAN]

\* Of the tables, the step writes nothing but the period, the gate or the
\* documents.
TablesKept == UNCHANGED <<now, rows, coupon, redemptions, benefits, ledger, grants, checkout, handler>>

LEMMA TablesKeptIInv ==
  ASSUME IInv, TablesKept, subscription' \in Subscriptions, paidUntil' \in Nat \cup {None},
         invoiced' \in SUBSET Payments
  PROVE  IInv'
<1> USE DEF TablesKept, rows
<1>1. TypeOK'
  BY DEF IInv, TypeOK, Subscriptions
<1>2. AppliedOnce' /\ RunsOwnRows' /\ OneTransactionPerRow' /\ RequestsOwnRows' /\ OneRequestPerRow'
        /\ AbsentRowsUnlinked'
  BY DEF IInv, AppliedOnce, RunsOwnRows, OneTransactionPerRow, RequestsOwnRows, OneRequestPerRow,
         AbsentRowsUnlinked
<1> QED
  BY <1>1, <1>2 DEF IInv

\* A replica goes on with the row it has, or lets go of it: a row that was
\* charged is let go of only in a crash.
GoesOn(old, new) ==
  /\ new.pc = "due" => new.at \in Nat
  /\ new.pc \in Holding \cup {"claim"} => new.from \in Nat /\ new.to \in Nat /\ new.from < new.to
  /\ new.pc \in Working => old.pc \in Working /\ new.payment = old.payment
  /\ new.pc \in Unpaid => old.pc \in Unpaid
  /\ new.pc = "invoice" => old.pc = "invoice"
  /\ new.pc \in {"charge", "rollback", "fail"} => old.pc \in {"charge", "rollback", "fail"}
  /\ new.pc # "commit"
  /\ old.pc = "commit" => faults' # 0

LEMMA ScannerMoves ==
  ASSUME CInv, NEW s \in Scanners, NEW r \in Scan,
         scanner' = [scanner EXCEPT ![s] = r], GoesOn(scanner[s], r),
         TablesKept, subscription' \in Subscriptions, PaidPlanHasEnd', paidUntil' \in Nat \cup {None},
         invoiced' \in SUBSET Payments, charge' = charge, reminderFor' \in Nat \cup {None},
         faults' \in Nat, faults' = 0 => faults = 0
  PROVE  CInv'
<1>1. IInv'
  BY TablesKeptIInv DEF CInv
<1>2. payment' = payment /\ checkout' = checkout
  BY DEF TablesKept, rows
<1>3. \A t \in Scanners : scanner'[t] = IF t = s THEN r ELSE scanner[t]
  BY DEF CInv, RenewalTypes
<1>4. RenewalTypes'
  BY DEF CInv, RenewalTypes
<1>5. ClaimsGoForward'
  BY <1>3 DEF CInv, ClaimsGoForward, GoesOn
<1>6. RenewalRowsUnlinked' /\ RequestsOpenPurchases'
  BY <1>2 DEF CInv, RenewalRowsUnlinked, RequestsOpenPurchases
<1>7. ScannersOwnRows'
  BY <1>2, <1>3 DEF CInv, ScannersOwnRows, GoesOn, Working, Unpaid
<1>8. OneScannerPerRow'
  BY <1>3 DEF CInv, OneScannerPerRow, GoesOn
<1>9. ChargesHaveRows'
  <2>1. \A p \in Payments : charge'[p] # None => payment'[p].kind = "renewal" /\ payment'[p].status # "absent"
    BY <1>2 DEF CInv, ChargesHaveRows
  <2>2. \A t \in Scanners : scanner'[t].pc \in {"charge", "rollback", "fail"} =>
          charge'[scanner'[t].payment] = None
    BY <1>3 DEF CInv, ChargesHaveRows, GoesOn, Working, Unpaid
  <2>3. ASSUME NEW p \in Payments, charge'[p] # None, faults' = 0
        PROVE  \/ payment'[p].status = "paid"
               \/ \E t \in Scanners : scanner'[t].pc = "commit" /\ scanner'[t].payment = p
    <3>1. CASE payment[p].status = "paid"
      BY <1>2, <3>1
    <3>2. ASSUME NEW t \in Scanners, scanner[t].pc = "commit", scanner[t].payment = p
          PROVE  scanner'[t].pc = "commit" /\ scanner'[t].payment = p
      BY <1>3, <2>3, <3>2 DEF GoesOn
    <3> QED
      BY <2>3, <3>1, <3>2 DEF CInv, ChargesHaveRows
  <2> QED
    BY <2>1, <2>2, <2>3 DEF ChargesHaveRows
<1> QED
  BY <1>1, <1>4, <1>5, <1>6, <1>7, <1>8, <1>9 DEF CInv

\* A replica that ends its round lets go of everything.
LEMMA GoesIdle ==
  ASSUME NEW old \in Scan, old.pc # "commit" \/ faults' # 0
  PROVE  IdleScanner \in Scan /\ GoesOn(old, IdleScanner)
BY DEF IdleScanner, Scan, GoesOn, Holding, Working, Unpaid

LEMMA ReminderSteps ==
  ASSUME CInv, NEW s \in Scanners, ListUpcoming(s) \/ ClaimReminder(s)
  PROVE  CInv'
<1>0. /\ scanner[s] \in Scan
      /\ TablesKept
      /\ UNCHANGED <<subscription, paidUntil, invoiced, charge, faults>>
      /\ subscription' \in Subscriptions /\ PaidPlanHasEnd' /\ paidUntil' \in Nat \cup {None}
      /\ invoiced' \in SUBSET Payments /\ faults' \in Nat
      /\ reminderFor \in Nat \cup {None} /\ subscription.end \in Nat \cup {None}
  BY DEF ListUpcoming, ClaimReminder, vars, tenant, rows, TablesKept, CInv, IInv, TypeOK, RenewalTypes,
         PaidPlanHasEnd, Subscriptions
<1>1. CASE ListUpcoming(s)
  <2> DEFINE r == [scanner[s] EXCEPT !.pc = "remind", !.from = reminderFor, !.to = subscription.end]
  <2>1. /\ scanner' = [scanner EXCEPT ![s] = r]
        /\ reminderFor' \in Nat \cup {None}
        /\ scanner[s].pc = "idle"
    BY <1>0, <1>1 DEF ListUpcoming
  <2>2. r \in Scan /\ r.pc = "remind"
    BY <1>0 DEF Scan
  <2>3. GoesOn(scanner[s], r)
    BY <2>1, <2>2 DEF GoesOn, Holding, Working, Unpaid
  <2> QED
    BY <1>0, <2>1, <2>2, <2>3, ScannerMoves
<1>2. CASE ClaimReminder(s)
  <2>1. /\ scanner' = [scanner EXCEPT ![s] = IdleScanner]
        /\ reminderFor' \in {reminderFor, scanner[s].to}
        /\ scanner[s].pc = "remind"
    BY <1>2 DEF ClaimReminder
  <2>2. reminderFor' \in Nat \cup {None}
    BY <1>0, <2>1 DEF Scan
  <2> QED
    BY <1>0, <2>1, <2>2, GoesIdle, ScannerMoves
<1> QED
  BY <1>1, <1>2

LEMMA ListDueStep ==
  ASSUME CInv, NEW s \in Scanners, ListDue(s)
  PROVE  CInv'
<1> DEFINE r == [scanner[s] EXCEPT !.pc = "due", !.at = now]
<1>0. /\ scanner[s] \in Scan /\ now \in Nat
      /\ TablesKept
      /\ UNCHANGED <<charge, faults>>
      /\ subscription' \in Subscriptions /\ PaidPlanHasEnd' /\ paidUntil' \in Nat \cup {None}
      /\ invoiced' \in SUBSET Payments /\ faults' \in Nat /\ reminderFor' \in Nat \cup {None}
  BY DEF ListDue, vars, tenant, rows, TablesKept, CInv, IInv, TypeOK, RenewalTypes, PaidPlanHasEnd,
         Subscriptions
<1>1. scanner' = [scanner EXCEPT ![s] = r] /\ scanner[s].pc = "idle"
  BY DEF ListDue
<1>2. r \in Scan /\ r.pc = "due" /\ r.at \in Nat
  BY <1>0 DEF Scan
<1>3. GoesOn(scanner[s], r)
  BY <1>1, <1>2 DEF GoesOn, Holding, Working, Unpaid
<1> QED
  BY <1>0, <1>1, <1>2, <1>3, ScannerMoves

\* A replica that reads its row takes the period after the one it found there.
LEMMA ReadRowStep ==
  ASSUME CInv, NEW s \in Scanners, ReadRow(s)
  PROVE  CInv'
<1> DEFINE to == NextPeriodEnd(subscription.end, scanner[s].at)
           r  == [pc |-> "claim", at |-> scanner[s].at, from |-> subscription.end, to |-> to,
                  payment |-> None]
<1>0. /\ scanner[s] \in Scan /\ scanner[s].pc = "due"
      /\ TablesKept
      /\ UNCHANGED <<charge, faults>>
      /\ subscription' \in Subscriptions /\ PaidPlanHasEnd' /\ paidUntil' \in Nat \cup {None}
      /\ invoiced' \in SUBSET Payments /\ faults' \in Nat /\ reminderFor' \in Nat \cup {None}
  BY DEF ReadRow, vars, tenant, rows, TablesKept, CInv, IInv, TypeOK, RenewalTypes, PaidPlanHasEnd,
         Subscriptions
<1>1. CASE subscription.card /\ subscription.plan = "paid"
  <2>1. subscription.end \in Nat /\ scanner[s].at \in Nat
    BY <1>0, <1>1 DEF CInv, PaidPlanHasEnd, ClaimsGoForward
  <2>2. to \in Nat /\ subscription.end < to
    BY <2>1, ClaimGoesForward
  <2>3. scanner' = [scanner EXCEPT ![s] = r]
    BY <1>1 DEF ReadRow
  <2> HIDE DEF to
  <2>4. r \in Scan /\ GoesOn(scanner[s], r)
    BY <1>0, <2>1, <2>2 DEF Scan, GoesOn, Holding, Working, Unpaid
  <2> HIDE DEF r
  <2> QED
    BY <1>0, <2>3, <2>4, ScannerMoves
<1>2. CASE ~(subscription.card /\ subscription.plan = "paid")
  <2>1. scanner' = [scanner EXCEPT ![s] = IdleScanner]
    BY <1>2 DEF ReadRow
  <2> QED
    BY <1>0, <2>1, GoesIdle, ScannerMoves
<1> QED
  BY <1>1, <1>2

\* What a claim or a roll-back writes in the subscription is a period.
LEMMA SubscriptionEnd ==
  ASSUME CInv, NEW end \in Nat, subscription' = [subscription EXCEPT !.end = end]
  PROVE  /\ subscription' \in Subscriptions /\ PaidPlanHasEnd'
         /\ subscription'.end = end /\ subscription'.plan = subscription.plan
BY DEF CInv, IInv, TypeOK, PaidPlanHasEnd, Subscriptions

LEMMA ClaimRenewalStep ==
  ASSUME CInv, NEW s \in Scanners, ClaimRenewal(s)
  PROVE  CInv'
<1>0. /\ scanner[s] \in Scan /\ scanner[s].pc = "claim"
      /\ TablesKept
      /\ UNCHANGED <<charge, faults>>
      /\ paidUntil' \in Nat \cup {None}
      /\ invoiced' \in SUBSET Payments /\ faults' \in Nat /\ reminderFor' \in Nat \cup {None}
  BY DEF ClaimRenewal, TablesKept, CInv, IInv, TypeOK, RenewalTypes
<1>1. CASE RenewalClaimable(s)
  <2> DEFINE r == [scanner[s] EXCEPT !.pc = "create"]
  <2>1. scanner[s].from \in Nat /\ scanner[s].to \in Nat /\ scanner[s].from < scanner[s].to
    BY <1>0 DEF CInv, ClaimsGoForward
  <2>2. /\ subscription' = [subscription EXCEPT !.end = scanner[s].to]
        /\ scanner' = [scanner EXCEPT ![s] = r]
    BY <1>1 DEF ClaimRenewal
  <2>3. subscription' \in Subscriptions /\ PaidPlanHasEnd'
    BY <2>1, <2>2, SubscriptionEnd
  <2>4. r \in Scan /\ r.pc = "create" /\ r.from = scanner[s].from /\ r.to = scanner[s].to
    BY <1>0 DEF Scan
  <2>5. GoesOn(scanner[s], r)
    BY <1>0, <2>1, <2>4 DEF GoesOn, Working, Unpaid
  <2> QED
    BY <1>0, <2>2, <2>3, <2>4, <2>5, ScannerMoves
<1>2. CASE ~RenewalClaimable(s)
  <2>1. scanner' = [scanner EXCEPT ![s] = IdleScanner] /\ UNCHANGED subscription
    BY <1>2 DEF ClaimRenewal
  <2>2. subscription' \in Subscriptions /\ PaidPlanHasEnd'
    BY <2>1 DEF CInv, IInv, TypeOK, Subscriptions, PaidPlanHasEnd
  <2> QED
    BY <1>0, <2>1, <2>2, GoesIdle, ScannerMoves
<1> QED
  BY <1>1, <1>2

LEMMA RollBackStep ==
  ASSUME CInv, NEW s \in Scanners, RollBack(s)
  PROVE  CInv'
<1> DEFINE r == [scanner[s] EXCEPT !.pc = "fail"]
<1>0. /\ scanner[s] \in Scan /\ scanner[s].pc = "rollback"
      /\ scanner' = [scanner EXCEPT ![s] = r]
      /\ TablesKept
      /\ UNCHANGED <<charge, faults>>
      /\ paidUntil' \in Nat \cup {None}
      /\ invoiced' \in SUBSET Payments /\ faults' \in Nat /\ reminderFor' \in Nat \cup {None}
  BY DEF RollBack, TablesKept, CInv, IInv, TypeOK, RenewalTypes
<1>1. subscription' \in Subscriptions /\ PaidPlanHasEnd'
  <2>1. CASE subscription.end = scanner[s].to
    BY <1>0, <2>1, SubscriptionEnd DEF RollBack, CInv, ClaimsGoForward, Holding
  <2>2. CASE subscription.end # scanner[s].to
    BY <2>2 DEF RollBack, CInv, IInv, TypeOK, Subscriptions, PaidPlanHasEnd
  <2> QED
    BY <2>1, <2>2
<1>2. r \in Scan /\ r.pc = "fail" /\ r.payment = scanner[s].payment
  BY <1>0 DEF Scan
<1>3. GoesOn(scanner[s], r)
  BY <1>0, <1>2 DEF GoesOn, Holding, Working, Unpaid
<1> QED
  BY <1>0, <1>1, <1>2, <1>3, ScannerMoves

\* A refusal, the document, a lost answer before the charge, a crash.
LEMMA RoundEnds ==
  ASSUME CInv, NEW s \in Scanners,
         \/ ChargeDeclined(s)
         \/ QueueRenewalInvoice(s)
         \/ CrashScanner(s)
         \/ ChargeTimesOut(s) /\ charge' = charge
  PROVE  CInv'
<1>0. /\ scanner[s] \in Scan
      /\ TablesKept
      /\ charge' = charge
      /\ subscription' \in Subscriptions /\ PaidPlanHasEnd' /\ paidUntil' \in Nat \cup {None}
      /\ reminderFor' \in Nat \cup {None}
      /\ faults' \in Nat /\ (faults' = 0 => faults = 0)
  BY DEF ChargeDeclined, QueueRenewalInvoice, CrashScanner, ChargeTimesOut, vars, tenant, rows,
         TablesKept, CInv, IInv, TypeOK, RenewalTypes, PaidPlanHasEnd, Subscriptions
<1>1. CASE ChargeDeclined(s)
  <2> DEFINE r == [scanner[s] EXCEPT !.pc = "rollback"]
  <2>1. scanner' = [scanner EXCEPT ![s] = r] /\ scanner[s].pc = "charge" /\ invoiced' = invoiced
    BY <1>1 DEF ChargeDeclined, vars
  <2>2. /\ r \in Scan /\ r.pc = "rollback" /\ r.payment = scanner[s].payment
        /\ r.from = scanner[s].from /\ r.to = scanner[s].to
    BY <1>0 DEF Scan
  <2>3. GoesOn(scanner[s], r)
    BY <2>1, <2>2 DEF GoesOn, Holding, Working, Unpaid, CInv, ClaimsGoForward
  <2>4. invoiced' \in SUBSET Payments
    BY <2>1 DEF CInv, IInv, TypeOK
  <2> QED
    BY <1>0, <2>1, <2>2, <2>3, <2>4, ScannerMoves
<1>2. CASE QueueRenewalInvoice(s)
  <2>1. /\ scanner' = [scanner EXCEPT ![s] = IdleScanner]
        /\ scanner[s].pc = "invoice"
        /\ invoiced' = invoiced \cup {scanner[s].payment}
    BY <1>2 DEF QueueRenewalInvoice
  <2>2. invoiced' \in SUBSET Payments
    BY <2>1 DEF CInv, IInv, TypeOK, ScannersOwnRows, Working
  <2> QED
    BY <1>0, <2>1, <2>2, GoesIdle, ScannerMoves
<1>3. CASE CrashScanner(s) \/ ChargeTimesOut(s)
  <2>1. scanner' = [scanner EXCEPT ![s] = IdleScanner] /\ faults' # 0 /\ invoiced' = invoiced
    BY <1>0, <1>3 DEF CrashScanner, ChargeTimesOut, vars, CInv, RenewalTypes
  <2>2. invoiced' \in SUBSET Payments
    BY <2>1 DEF CInv, IInv, TypeOK
  <2> QED
    BY <1>0, <2>1, <2>2, GoesIdle, ScannerMoves
<1> QED
  BY <1>1, <1>2, <1>3

\* A renewal's row is written by its own replica only: no run of apply() and
\* no request works on it.
RenewalRowWritten(p, row) ==
  /\ payment' = [payment EXCEPT ![p] = row]
  /\ ~payment[p].linked /\ ~row.linked
  /\ \A c \in Checkouts : checkout[c].pc = "open" => checkout[c].payment # p
  /\ grants' \in [Payments -> Nat]
  /\ \A q \in Payments : q # p => grants'[q] = grants[q]
  /\ grants'[p] + ledger[p] = IF row.status = "paid" THEN 1 ELSE 0
  /\ paidUntil' \in Nat \cup {None}
  /\ UNCHANGED <<now, page, subscription, coupon, redemptions, benefits, ledger, invoiced, checkout,
                 handler, reminderFor, faults>>

LEMMA RenewalRowIInv ==
  ASSUME IInv, NEW p \in Payments, NEW row \in Row, RenewalRowWritten(p, row)
  PROVE  IInv'
<1> USE DEF RenewalRowWritten
<1>1. \A q \in Payments : payment'[q] = IF q = p THEN row ELSE payment[q]
  BY DEF IInv, TypeOK
<1>2. TypeOK'
  BY DEF IInv, TypeOK
<1>3. AppliedOnce'
  BY <1>1 DEF IInv, AppliedOnce
<1>4. \A h \in Handlers : handler[h].pc # "idle" => handler[h].payment # p
  BY DEF IInv, RunsOwnRows
<1>5. RunsOwnRows' /\ OneTransactionPerRow'
  BY <1>1, <1>4 DEF IInv, RunsOwnRows, OneTransactionPerRow
<1>6. RequestsOwnRows' /\ OneRequestPerRow'
  BY <1>1 DEF IInv, RequestsOwnRows, OneRequestPerRow
<1>7. AbsentRowsUnlinked'
  BY <1>1 DEF IInv, AbsentRowsUnlinked
<1> QED
  BY <1>2, <1>3, <1>5, <1>6, <1>7 DEF IInv

\* The row of a replica is its own, and of a renewal.
LEMMA OwnRow ==
  ASSUME CInv, NEW s \in Scanners, scanner[s].pc \in Unpaid
  PROVE  /\ scanner[s].payment \in Payments
         /\ payment[scanner[s].payment].kind = "renewal"
         /\ payment[scanner[s].payment].status \in Claimable
         /\ ~payment[scanner[s].payment].linked
         /\ \A c \in Checkouts : checkout[c].pc = "open" => checkout[c].payment # scanner[s].payment
         /\ \A t \in Scanners \ {s} :
              scanner[t].pc \in Working => scanner[t].payment # scanner[s].payment
BY DEF CInv, ScannersOwnRows, RenewalRowsUnlinked, RequestsOpenPurchases, OneScannerPerRow, Working

\* The replica writes its row: the other replicas' rows stay as they are.
LEMMA RowMoves ==
  ASSUME CInv, NEW s \in Scanners, NEW r \in Scan, NEW p \in Payments, NEW row \in Row,
         RenewalRowWritten(p, row), row.kind = "renewal", row.status # "absent",
         scanner' = [scanner EXCEPT ![s] = r], charge' = charge,
         \A t \in Scanners \ {s} : scanner[t].pc \in Working => scanner[t].payment # p,
         r.pc \notin {"due", "claim", "commit"},
         r.pc \in Holding => r.from \in Nat /\ r.to \in Nat /\ r.from < r.to,
         r.pc \in Working => r.payment = p,
         r.pc \in Unpaid => row.status \in Claimable,
         r.pc = "invoice" => row.status = "paid",
         r.pc \in {"charge", "rollback", "fail"} => charge[p] = None,
         scanner[s].pc = "commit" => scanner[s].payment = p /\ row.status = "paid",
         charge[p] # None => row.status = "paid"
  PROVE  CInv'
<1> USE DEF RenewalRowWritten
<1>1. IInv'
  BY RenewalRowIInv DEF CInv
<1>2. \A t \in Scanners : scanner'[t] = IF t = s THEN r ELSE scanner[t]
  BY DEF CInv, RenewalTypes
<1>3. \A q \in Payments : payment'[q] = IF q = p THEN row ELSE payment[q]
  BY DEF CInv, IInv, TypeOK
<1>4. RenewalTypes'
  BY DEF CInv, RenewalTypes
<1>5. PaidPlanHasEnd'
  BY DEF CInv, PaidPlanHasEnd
<1>6. ClaimsGoForward'
  BY <1>2 DEF CInv, ClaimsGoForward
<1>7. RenewalRowsUnlinked'
  BY <1>3 DEF CInv, RenewalRowsUnlinked
<1>8. RequestsOpenPurchases'
  BY <1>3 DEF CInv, IInv, RequestsOwnRows, RequestsOpenPurchases
<1>9. ScannersOwnRows'
  <2> SUFFICES ASSUME NEW t \in Scanners
               PROVE  /\ scanner'[t].pc \in Working =>
                           scanner'[t].payment \in Payments
                             /\ payment'[scanner'[t].payment].kind = "renewal"
                      /\ scanner'[t].pc \in Unpaid => payment'[scanner'[t].payment].status \in Claimable
                      /\ scanner'[t].pc = "invoice" => payment'[scanner'[t].payment].status = "paid"
    BY DEF ScannersOwnRows
  <2>1. CASE t = s
    BY <1>2, <1>3, <2>1 DEF Working
  <2>2. CASE t # s
    BY <1>2, <1>3, <2>2 DEF CInv, ScannersOwnRows, Working
  <2> QED
    BY <2>1, <2>2
<1>10. OneScannerPerRow'
  BY <1>2 DEF CInv, OneScannerPerRow
<1>11. ChargesHaveRows'
  <2>1. \A q \in Payments : charge'[q] # None => payment'[q].kind = "renewal" /\ payment'[q].status # "absent"
    BY <1>3 DEF CInv, ChargesHaveRows
  <2>2. \A t \in Scanners : scanner'[t].pc \in {"charge", "rollback", "fail"} =>
          charge'[scanner'[t].payment] = None
    BY <1>2 DEF CInv, ChargesHaveRows, Working, Unpaid
  <2>3. \A q \in Payments : charge'[q] # None /\ faults' = 0 =>
          \/ payment'[q].status = "paid"
          \/ \E t \in Scanners : scanner'[t].pc = "commit" /\ scanner'[t].payment = q
    <3> SUFFICES ASSUME NEW q \in Payments, charge[q] # None, faults = 0, q # p
                 PROVE  \/ payment[q].status = "paid"
                        \/ \E t \in Scanners : scanner'[t].pc = "commit" /\ scanner'[t].payment = q
      BY <1>3
    <3>1. ASSUME NEW t \in Scanners, scanner[t].pc = "commit", scanner[t].payment = q
          PROVE  scanner'[t] = scanner[t]
      BY <1>2, <3>1
    <3> QED
      BY <3>1 DEF CInv, ChargesHaveRows
  <2> QED
    BY <2>1, <2>2, <2>3 DEF ChargesHaveRows
<1> QED
  BY <1>1, <1>4, <1>5, <1>6, <1>7, <1>8, <1>9, <1>10, <1>11 DEF CInv

\* The insert takes an identifier nobody has.
LEMMA CreateRenewalStep ==
  ASSUME CInv, NEW s \in Scanners, CreateRenewal(s)
  PROVE  CInv'
<1> DEFINE row == [kind |-> "renewal", status |-> "pending", linked |-> FALSE]
<1>1. PICK p \in Payments :
        /\ payment[p].status = "absent"
        /\ payment' = [payment EXCEPT ![p] = row]
        /\ scanner' = [scanner EXCEPT ![s] = [scanner[s] EXCEPT !.pc = "charge", !.payment = p]]
  BY DEF CreateRenewal
<1> DEFINE r == [scanner[s] EXCEPT !.pc = "charge", !.payment = p]
<1>2. scanner[s] \in Scan /\ scanner[s].pc = "create"
  BY DEF CInv, RenewalTypes, CreateRenewal
<1>3. /\ r \in Scan /\ r.pc = "charge" /\ r.payment = p
      /\ r.from = scanner[s].from /\ r.to = scanner[s].to
  BY <1>2 DEF Scan
<1>4. r.from \in Nat /\ r.to \in Nat /\ r.from < r.to
  BY <1>2, <1>3 DEF CInv, ClaimsGoForward, Holding
<1>5. row \in Row /\ row.kind = "renewal" /\ row.status = "pending" /\ ~row.linked
  BY DEF Row
<1>6. charge[p] = None
  BY <1>1 DEF CInv, ChargesHaveRows
<1>7. \A t \in Scanners \ {s} : scanner[t].pc \in Working => scanner[t].payment # p
  BY <1>1 DEF CInv, ScannersOwnRows, Working, Claimable
<1>8. ~payment[p].linked /\ \A c \in Checkouts : checkout[c].pc = "open" => checkout[c].payment # p
  BY <1>1 DEF CInv, IInv, AbsentRowsUnlinked, RequestsOwnRows, Claimable
<1>9. /\ grants' \in [Payments -> Nat] /\ grants' = grants
      /\ grants'[p] + ledger[p] = 0
      /\ paidUntil' \in Nat \cup {None}
      /\ UNCHANGED <<now, page, subscription, coupon, redemptions, benefits, ledger, invoiced, checkout,
                     handler, reminderFor, faults, charge>>
  BY <1>1 DEF CreateRenewal, tenant, CInv, IInv, TypeOK, AppliedOnce
<1>10. RenewalRowWritten(p, row)
  BY <1>1, <1>5, <1>8, <1>9 DEF RenewalRowWritten
<1> HIDE DEF row, r
<1> QED
  BY <1>1, <1>2, <1>3, <1>4, <1>5, <1>6, <1>7, <1>9, <1>10, RowMoves DEF r, row, Holding, Claimable

LEMMA FailRenewalStep ==
  ASSUME CInv, NEW s \in Scanners, FailRenewal(s)
  PROVE  CInv'
<1> DEFINE p   == scanner[s].payment
           row == [payment[p] EXCEPT !.status = "failed"]
<1>1. scanner[s].pc = "fail" /\ scanner[s].pc \in Unpaid
  BY DEF FailRenewal, Unpaid
<1>2. p \in Payments /\ payment[p].kind = "renewal" /\ payment[p].status \in Claimable /\ ~payment[p].linked
  BY <1>1, OwnRow
<1>3. row \in Row /\ row.kind = "renewal" /\ row.status = "failed" /\ ~row.linked
  BY <1>2 DEF CInv, IInv, TypeOK, Row
<1>4. IdleScanner \in Scan /\ IdleScanner.pc = "idle"
  BY DEF IdleScanner, Scan
<1>5. /\ payment' = [payment EXCEPT ![p] = row]
      /\ scanner' = [scanner EXCEPT ![s] = IdleScanner]
      /\ grants' \in [Payments -> Nat] /\ grants' = grants
      /\ grants'[p] + ledger[p] = 0
      /\ paidUntil' \in Nat \cup {None}
      /\ UNCHANGED <<now, page, subscription, coupon, redemptions, benefits, ledger, invoiced, checkout,
                     handler, reminderFor, faults, charge>>
  BY <1>2 DEF FailRenewal, tenant, CInv, IInv, TypeOK, AppliedOnce, Claimable
<1>6. charge[p] = None
  BY <1>1 DEF CInv, ChargesHaveRows
<1> HIDE DEF row
<1>7. RenewalRowWritten(p, row)
  BY <1>1, <1>2, <1>3, <1>5, OwnRow DEF RenewalRowWritten
<1> QED
  BY <1>1, <1>2, <1>3, <1>4, <1>5, <1>6, <1>7, OwnRow, RowMoves DEF Holding, Working, Unpaid

LEMMA CommitRenewalStep ==
  ASSUME CInv, NEW s \in Scanners, CommitRenewal(s)
  PROVE  CInv'
<1> DEFINE p   == scanner[s].payment
           row == [payment[p] EXCEPT !.status = "paid"]
           r   == [scanner[s] EXCEPT !.pc = "invoice"]
<1>1. scanner[s].pc = "commit" /\ scanner[s].pc \in Unpaid /\ scanner[s] \in Scan
  BY DEF CommitRenewal, Unpaid, CInv, RenewalTypes
<1>2. p \in Payments /\ payment[p].kind = "renewal" /\ payment[p].status \in Claimable /\ ~payment[p].linked
  BY <1>1, OwnRow
<1>3. row \in Row /\ row.kind = "renewal" /\ row.status = "paid" /\ ~row.linked
  BY <1>2 DEF CInv, IInv, TypeOK, Row
<1>4. r \in Scan /\ r.pc = "invoice" /\ r.payment = p
  BY <1>1 DEF Scan
<1>5. /\ payment' = [payment EXCEPT ![p] = row]
      /\ scanner' = [scanner EXCEPT ![s] = r]
      /\ UNCHANGED <<now, page, subscription, coupon, redemptions, benefits, ledger, invoiced, checkout,
                     handler, reminderFor, faults, charge>>
  BY DEF CommitRenewal
<1>6. /\ grants[p] \in Nat /\ ledger[p] \in Nat /\ grants[p] + ledger[p] = 0
      /\ grants' = [grants EXCEPT ![p] = grants[p] + 1]
      /\ grants \in [Payments -> Nat]
  BY <1>2 DEF CommitRenewal, CInv, IInv, TypeOK, AppliedOnce, Claimable
<1>7. /\ grants' \in [Payments -> Nat]
      /\ \A q \in Payments : q # p => grants'[q] = grants[q]
      /\ grants'[p] + ledger[p] = 1
  BY <1>2, <1>6
<1>8. paidUntil' \in Nat \cup {None}
  <2>1. scanner[s].to \in Nat
    BY <1>1 DEF CInv, ClaimsGoForward
  <2> QED
    BY <2>1, CheckoutAssumption DEF CommitRenewal, AccessUntil
<1> HIDE DEF row, r
<1>9. RenewalRowWritten(p, row)
  BY <1>1, <1>2, <1>3, <1>5, <1>7, <1>8, OwnRow DEF RenewalRowWritten
<1> QED
  BY <1>1, <1>2, <1>3, <1>4, <1>5, <1>9, OwnRow, RowMoves DEF Holding, Working, Unpaid

\* Cardcom charges the card: its answer is known, or lost for good.
LEMMA ChargedStep ==
  ASSUME CInv, NEW s \in Scanners, NEW r \in Scan,
         scanner[s].pc = "charge",
         scanner' = [scanner EXCEPT ![s] = r],
         \/ /\ r.pc = "commit" /\ r.payment = scanner[s].payment
            /\ r.to = scanner[s].to /\ faults' = faults
         \/ r.pc = "idle" /\ faults' = faults + 1,
         charge' = [charge EXCEPT ![scanner[s].payment] = scanner[s].from],
         UNCHANGED <<vars, reminderFor>>
  PROVE  CInv'
<1> DEFINE p == scanner[s].payment
<1>0. scanner[s].pc \in Unpaid /\ scanner[s].pc \in Holding
  BY DEF Unpaid, Holding
<1>1. p \in Payments /\ payment[p].kind = "renewal" /\ payment[p].status \in Claimable
  BY <1>0, OwnRow
<1>2. scanner[s].from \in Nat /\ scanner[s].to \in Nat
  BY <1>0 DEF CInv, ClaimsGoForward
<1>3. \A t \in Scanners : scanner'[t] = IF t = s THEN r ELSE scanner[t]
  BY DEF CInv, RenewalTypes
<1>4. \A q \in Payments : charge'[q] = IF q = p THEN scanner[s].from ELSE charge[q]
  BY DEF CInv, RenewalTypes
<1>5. TablesKept /\ subscription' \in Subscriptions /\ PaidPlanHasEnd' /\ paidUntil' \in Nat \cup {None}
        /\ invoiced' \in SUBSET Payments
  BY DEF vars, tenant, rows, TablesKept, Subscriptions, CInv, IInv, TypeOK, PaidPlanHasEnd
<1>6. IInv'
  BY <1>5, TablesKeptIInv DEF CInv
<1>7. RenewalTypes'
  <2>1. faults' \in Nat /\ reminderFor' \in Nat \cup {None}
    BY DEF CInv, RenewalTypes
  <2>2. charge' \in [Payments -> Nat \cup {None}] /\ scanner' \in [Scanners -> Scan]
    BY <1>2 DEF CInv, RenewalTypes
  <2> QED
    BY <2>1, <2>2 DEF RenewalTypes
<1>8. ClaimsGoForward'
  BY <1>2, <1>3 DEF CInv, ClaimsGoForward, Holding
<1>9. payment' = payment /\ checkout' = checkout
  BY <1>5 DEF TablesKept, rows
<1>10. RenewalRowsUnlinked' /\ RequestsOpenPurchases'
  BY <1>9 DEF CInv, RenewalRowsUnlinked, RequestsOpenPurchases
<1>11. ScannersOwnRows'
  BY <1>1, <1>3, <1>9 DEF CInv, ScannersOwnRows, Working, Unpaid
<1>12. OneScannerPerRow'
  BY <1>0, <1>3 DEF CInv, OneScannerPerRow, Working, Unpaid
<1>13. ChargesHaveRows'
  <2>1. \A q \in Payments : charge'[q] # None => payment'[q].kind = "renewal" /\ payment'[q].status # "absent"
    BY <1>1, <1>4, <1>9 DEF CInv, ChargesHaveRows, Claimable
  <2>2. ASSUME NEW t \in Scanners, scanner'[t].pc \in {"charge", "rollback", "fail"}
        PROVE  charge'[scanner'[t].payment] = None
    <3>1. t # s /\ scanner'[t] = scanner[t]
      BY <1>3, <2>2
    <3>2. scanner[t].payment # p /\ scanner[t].payment \in Payments
      BY <1>0, <2>2, <3>1, OwnRow DEF Working, Unpaid
    <3> QED
      BY <1>4, <2>2, <3>1, <3>2 DEF CInv, ChargesHaveRows
  <2>3. ASSUME NEW q \in Payments, charge'[q] # None, faults' = 0
        PROVE  \/ payment'[q].status = "paid"
               \/ \E t \in Scanners : scanner'[t].pc = "commit" /\ scanner'[t].payment = q
    <3>1. faults = 0 /\ r.pc = "commit" /\ r.payment = p
      BY <2>3 DEF CInv, RenewalTypes
    <3>2. CASE q = p
      BY <1>3, <3>1, <3>2
    <3>3. CASE q # p
      <4>1. charge[q] # None
        BY <1>4, <2>3, <3>3
      <4>2. ASSUME NEW t \in Scanners, scanner[t].pc = "commit" PROVE scanner'[t] = scanner[t]
        BY <1>3, <4>2
      <4> QED
        BY <1>9, <3>1, <4>1, <4>2 DEF CInv, ChargesHaveRows
    <3> QED
      BY <3>2, <3>3
  <2> QED
    BY <2>1, <2>2, <2>3 DEF ChargesHaveRows
<1> QED
  BY <1>5, <1>6, <1>7, <1>8, <1>10, <1>11, <1>12, <1>13 DEF CInv

LEMMA ChargePaidStep ==
  ASSUME CInv, NEW s \in Scanners, ChargePaid(s) \/ ChargeTimesOut(s)
  PROVE  CInv'
<1>0. scanner[s] \in Scan
  BY DEF CInv, RenewalTypes
<1>1. CASE ChargePaid(s)
  <2> DEFINE r == [scanner[s] EXCEPT !.pc = "commit"]
  <2>1. /\ scanner' = [scanner EXCEPT ![s] = r] /\ scanner[s].pc = "charge"
        /\ charge' = [charge EXCEPT ![scanner[s].payment] = scanner[s].from]
        /\ UNCHANGED <<vars, reminderFor, faults>>
    BY <1>1 DEF ChargePaid
  <2>2. r \in Scan /\ r.pc = "commit" /\ r.payment = scanner[s].payment /\ r.to = scanner[s].to
    BY <1>0 DEF Scan
  <2> QED
    BY <2>1, <2>2, ChargedStep
<1>2. CASE ChargeTimesOut(s) /\ charge' = [charge EXCEPT ![scanner[s].payment] = scanner[s].from]
  <2>1. /\ scanner' = [scanner EXCEPT ![s] = IdleScanner] /\ scanner[s].pc = "charge"
        /\ UNCHANGED <<vars, reminderFor>>
        /\ faults' = faults + 1
    BY <1>2 DEF ChargeTimesOut
  <2>2. IdleScanner \in Scan /\ IdleScanner.pc = "idle"
    BY DEF IdleScanner, Scan
  <2> QED
    BY <1>2, <2>1, <2>2, ChargedStep
<1>3. CASE ChargeTimesOut(s) /\ charge' = charge
  BY <1>3, RoundEnds
<1> QED
  BY <1>1, <1>2, <1>3 DEF ChargeTimesOut

LEMMA StutterCInv ==
  ASSUME CInv, UNCHANGED allVars
  PROVE  CInv'
<1>1. IInv'
  BY NextIInv DEF CInv, allVars
<1>2. /\ UNCHANGED <<scanner, reminderFor, charge, faults>>
      /\ UNCHANGED <<payment, subscription, checkout>>
  BY DEF allVars, renewalVars, vars, rows, tenant
<1> QED
  BY <1>1, <1>2 DEF CInv, RenewalTypes, PaidPlanHasEnd, ClaimsGoForward, RenewalRowsUnlinked,
     RequestsOpenPurchases, ScannersOwnRows, OneScannerPerRow, ChargesHaveRows

LEMMA NextCInv == CInv /\ [RenewalNext]_allVars => CInv'
<1> SUFFICES ASSUME CInv, [RenewalNext]_allVars PROVE CInv'
  OBVIOUS
<1>1. CASE Next /\ UNCHANGED renewalVars
  BY <1>1, CheckoutStep
<1>2. ASSUME NEW s \in Scanners, ScanStep(s) PROVE CInv'
  <2>1. CASE ListUpcoming(s) \/ ClaimReminder(s) \/ ListDue(s)
    BY <2>1, ReminderSteps, ListDueStep
  <2>2. CASE ReadRow(s) \/ ClaimRenewal(s) \/ RollBack(s)
    BY <2>2, ReadRowStep, ClaimRenewalStep, RollBackStep
  <2>3. CASE ChargeDeclined(s) \/ QueueRenewalInvoice(s) \/ CrashScanner(s)
    BY <2>3, RoundEnds
  <2>4. CASE CreateRenewal(s) \/ FailRenewal(s) \/ CommitRenewal(s)
    BY <2>4, CreateRenewalStep, FailRenewalStep, CommitRenewalStep
  <2>5. CASE ChargePaid(s) \/ ChargeTimesOut(s)
    BY <2>5, ChargePaidStep
  <2> QED
    BY <1>2, <2>1, <2>2, <2>3, <2>4, <2>5 DEF ScanStep
<1>3. CASE UNCHANGED allVars
  BY <1>3, StutterCInv
<1> QED
  BY <1>1, <1>2, <1>3 DEF RenewalNext

-----------------------------------------------------------------------------
\* The checkout and the renewals together keep to the tables: a renewal's row
\* is its replica's, and a purchase's row is its request's or its run's.
THEOREM RowsHaveOneOwner == RenewalSpec => []CInv
BY InitCInv, NextCInv, PTL DEF RenewalSpec

\* The types of the checkout hold while replicas renew.
THEOREM TypeCorrectWithRenewals == RenewalSpec => []TypeOK
<1>1. CInv => TypeOK
  BY DEF CInv, IInv
<1> QED
  BY <1>1, RowsHaveOneOwner, PTL

\* Purchases and renewals, however they interleave, give each paid row what it
\* bought exactly once, and nothing to any other row.
THEOREM AppliedOnceWithRenewals == RenewalSpec => []AppliedOnce
<1>1. CInv => AppliedOnce
  BY DEF CInv, IInv
<1> QED
  BY <1>1, RowsHaveOneOwner, PTL

\* A renewal whose charge Cardcom answered is recorded as paid, even when the
\* customer opened a payment page meanwhile and its pending row was superseded
\* (the commit of renewOne has no condition on the status).
THEOREM AnsweredChargesRecorded == RenewalSpec => []ChargedRenewalRecorded
<1>1. CInv => ChargedRenewalRecorded
  BY DEF CInv, ChargesHaveRows, ChargedRenewalRecorded
<1> QED
  BY <1>1, RowsHaveOneOwner, PTL

-----------------------------------------------------------------------------
(***************************************************************************)
(* The refinement, with renewals: a renewal's commit settles its row.      *)
(***************************************************************************)
LEMMA RenewalPaidStep ==
  ASSUME CInv, NEW s \in Scanners, ScanStep(s)
  PROVE  Paid' = Paid \/ \E p \in Payments \ Paid : Paid' = Paid \cup {p}
<1> USE DEF Paid
<1>1. CASE payment' = payment
  BY <1>1
<1>2. CASE CreateRenewal(s)
  <2>1. PICK p \in Payments :
          /\ payment[p].status = "absent"
          /\ payment' = [payment EXCEPT ![p] = [kind |-> "renewal", status |-> "pending", linked |-> FALSE]]
    BY <1>2 DEF CreateRenewal
  <2> QED
    BY <2>1 DEF CInv, IInv, TypeOK
<1>3. CASE FailRenewal(s)
  <2> DEFINE p == scanner[s].payment
  <2>1. p \in Payments /\ payment[p].status \in Claimable
    BY <1>3, OwnRow DEF FailRenewal, Unpaid
  <2>2. payment' = [payment EXCEPT ![p].status = "failed"]
    BY <1>3 DEF FailRenewal
  <2> QED
    BY <2>1, <2>2 DEF CInv, IInv, TypeOK, Row, Claimable
<1>4. CASE CommitRenewal(s)
  <2> DEFINE p == scanner[s].payment
  <2>1. p \in Payments \ Paid
    BY <1>4, OwnRow DEF CommitRenewal, Unpaid, Claimable
  <2>2. payment' = [payment EXCEPT ![p].status = "paid"]
    BY <1>4 DEF CommitRenewal
  <2> QED
    BY <2>1, <2>2 DEF CInv, IInv, TypeOK, Row
<1>5. ~(CreateRenewal(s) \/ FailRenewal(s) \/ CommitRenewal(s)) => payment' = payment
  BY DEF ScanStep, ListUpcoming, ClaimReminder, ListDue, ReadRow, ClaimRenewal, ChargePaid,
     ChargeDeclined, ChargeTimesOut, RollBack, QueueRenewalInvoice, CrashScanner, vars, rows
<1> QED
  BY <1>1, <1>2, <1>3, <1>4, <1>5

LEMMA AnyPaidStep ==
  ASSUME CInv, [RenewalNext]_allVars
  PROVE  Paid' = Paid \/ \E p \in Payments \ Paid : Paid' = Paid \cup {p}
<1>1. CASE [Next]_vars
  BY <1>1, PaidStep DEF CInv
<1>2. ASSUME NEW s \in Scanners, ScanStep(s)
      PROVE  Paid' = Paid \/ \E p \in Payments \ Paid : Paid' = Paid \cup {p}
  BY <1>2, RenewalPaidStep
<1>3. UNCHANGED allVars => [Next]_vars
  BY DEF allVars
<1> QED
  BY <1>1, <1>2, <1>3 DEF RenewalNext

\* With renewals too, every payment is settled at most once and for good, and
\* gives what it bought in the step that settles it (PaymentSettlement).
THEOREM SettlementWithRenewals == RenewalSpec => Settlement
<1>1. RenewalInit => Abstract!Init
  BY DEF RenewalInit, NoActivity, Abstract!Init, AbsentRow
<1>2. CInv /\ CInv' /\ [RenewalNext]_allVars => [Abstract!Next]_<<Paid, Given>>
  BY AnyPaidStep, SettlementStep DEF CInv
<1> QED
  BY <1>1, <1>2, RowsHaveOneOwner, PTL DEF RenewalSpec, Settlement, Abstract!Spec, Paid, Given

\* A tax document is queued only for a payment, bought or renewed, that was
\* paid.
THEOREM DocumentsOnlyForPaidWithRenewals == RenewalSpec => []InvoicedOnlyIfPaid
<1> DEFINE DInv == invoiced \subseteq Paid
<1>1. RenewalInit => DInv
  BY DEF RenewalInit, NoActivity
<1>2. CInv /\ DInv /\ [RenewalNext]_allVars => DInv'
  <2> SUFFICES ASSUME CInv, DInv, [RenewalNext]_allVars PROVE DInv'
    OBVIOUS
  <2>1. CASE [Next]_vars
    BY <2>1, DocumentStep DEF CInv
  <2>2. UNCHANGED allVars => [Next]_vars
    BY DEF allVars
  <2>3. Paid \subseteq Paid'
    BY AnyPaidStep
  <2>4. ASSUME NEW s \in Scanners, QueueRenewalInvoice(s) PROVE DInv'
    <3>1. scanner[s].payment \in Paid
      BY <2>4 DEF QueueRenewalInvoice, CInv, ScannersOwnRows, Working, Paid
    <3> QED
      BY <2>3, <2>4, <3>1 DEF QueueRenewalInvoice
  <2>5. ASSUME NEW s \in Scanners, ScanStep(s), ~QueueRenewalInvoice(s) PROVE invoiced' = invoiced
    BY <2>5 DEF ScanStep, ListUpcoming, ClaimReminder, ListDue, ReadRow, ClaimRenewal, CreateRenewal,
       ChargePaid, ChargeDeclined, ChargeTimesOut, RollBack, FailRenewal, CommitRenewal, CrashScanner, vars
  <2> QED
    BY <2>1, <2>2, <2>3, <2>4, <2>5 DEF RenewalNext
<1>3. DInv => InvoicedOnlyIfPaid
  BY DEF InvoicedOnlyIfPaid, Paid
<1> QED
  BY <1>1, <1>2, <1>3, RowsHaveOneOwner, PTL DEF RenewalSpec

-----------------------------------------------------------------------------
(***************************************************************************)
(* Periods.  A scanner that won the claim holds [from, to).  Nothing in    *)
(* the row says so once another replica has claimed the period after it:   *)
(* the invariant does.                                                     *)
(***************************************************************************)

\* A period that is held ends where the row's period ends, or before.
HeldIsBehindEnd ==
  \A s \in Scanners :
    scanner[s].pc \in Holding /\ subscription.end \in Nat => scanner[s].to <= subscription.end

HeldApart ==
  \A s, t \in Scanners :
    s # t /\ scanner[s].pc \in Holding /\ scanner[t].pc \in Holding
      => scanner[s].to <= scanner[t].from \/ scanner[t].to <= scanner[s].from

ChargedIsBehindEnd ==
  \A p \in Payments : charge[p] \in Nat /\ subscription.end \in Nat => charge[p] < subscription.end

\* Nothing was charged yet in a period that is held.
ChargedIsNotHeld ==
  \A p \in Payments, s \in Scanners :
    charge[p] \in Nat /\ scanner[s].pc \in Holding
      => charge[p] < scanner[s].from \/ scanner[s].to <= charge[p]

PInv ==
  /\ HeldIsBehindEnd
  /\ HeldApart
  /\ ChargedIsBehindEnd
  /\ ChargedIsNotHeld
  /\ OneChargePerPeriod

\* A purchase, or a switch, leaves no period, or one that ends no earlier than
\* the one before; one that starts over after the free plan finds no renewal
\* under way, and ends after what was charged and reminded of.  The code does
\* not see to it: the end is computed when the row is claimed and written when
\* the transaction commits, and after the free plan from the clock alone.
PeriodGoesOn ==
  \/ subscription'.end \notin Nat
  \/ subscription.end \in Nat /\ subscription.end <= subscription'.end
  \/ /\ \A s \in Scanners : scanner[s].pc \notin Holding
     /\ \A p \in Payments : charge[p] \in Nat => charge[p] < subscription'.end
     /\ reminderFor \in Nat => reminderFor <= subscription'.end

\* Every step in which no replica moves.
PurchasesGoOn == [][scanner' = scanner => PeriodGoesOn]_allVars

\* A step that lets go of periods, charges nothing and takes no period back
\* keeps what was said of the periods that are still held.
LEMMA LettingGo ==
  ASSUME CInv, CInv', PInv, charge' = charge, PeriodGoesOn,
         \A s \in Scanners : scanner'[s].pc \in Holding =>
           /\ scanner[s].pc \in Holding
           /\ scanner'[s].from = scanner[s].from
           /\ scanner'[s].to = scanner[s].to
  PROVE  PInv'
<1>0. \A s \in Scanners : scanner[s].pc \in Holding => scanner[s].from \in Nat /\ scanner[s].to \in Nat
  BY DEF CInv, ClaimsGoForward
<1>1. HeldIsBehindEnd'
  BY <1>0 DEF PInv, HeldIsBehindEnd, PeriodGoesOn
<1>2. HeldApart'
  BY DEF PInv, HeldApart
<1>3. ChargedIsBehindEnd'
  BY DEF PInv, ChargedIsBehindEnd, PeriodGoesOn
<1>4. ChargedIsNotHeld'
  BY DEF PInv, ChargedIsNotHeld
<1>5. OneChargePerPeriod'
  BY DEF PInv, OneChargePerPeriod
<1> QED
  BY <1>1, <1>2, <1>3, <1>4, <1>5 DEF PInv

\* A replica that ends its round, or goes on without a claim or with the one it
\* has.
LEMMA ScannerLetsGo ==
  ASSUME CInv, CInv', PInv, NEW s \in Scanners, NEW r \in Scan,
         scanner' = [scanner EXCEPT ![s] = r],
         r.pc \in Holding =>
           scanner[s].pc \in Holding /\ r.from = scanner[s].from /\ r.to = scanner[s].to,
         UNCHANGED <<subscription, charge>>
  PROVE  PInv'
<1>1. \A t \in Scanners : scanner'[t] = IF t = s THEN r ELSE scanner[t]
  BY DEF CInv, RenewalTypes
<1>2. PeriodGoesOn
  BY DEF PeriodGoesOn, CInv, IInv, TypeOK
<1> QED
  BY <1>1, <1>2, LettingGo

\* The claim takes the next period: every period that is held, and every one
\* that was charged, ends where it starts or before.
LEMMA ClaimPeriods ==
  ASSUME CInv, CInv', PInv, NEW s \in Scanners, ClaimRenewal(s)
  PROVE  PInv'
<1>0. scanner[s] \in Scan /\ scanner[s].pc = "claim" /\ charge' = charge
  BY DEF CInv, RenewalTypes, ClaimRenewal
<1>1. CASE ~RenewalClaimable(s)
  <2>1. scanner' = [scanner EXCEPT ![s] = IdleScanner] /\ UNCHANGED subscription
    BY <1>1 DEF ClaimRenewal
  <2> QED
    BY <1>0, <2>1, ScannerLetsGo DEF IdleScanner, Holding, Scan
<1>2. CASE RenewalClaimable(s)
  <2> DEFINE from == scanner[s].from
             to   == scanner[s].to
  <2>1. from \in Nat /\ to \in Nat /\ from < to /\ subscription.end = from
    BY <1>0, <1>2 DEF CInv, ClaimsGoForward, RenewalClaimable
  <2>2. /\ subscription' = [subscription EXCEPT !.end = to]
        /\ scanner' = [scanner EXCEPT ![s] = [scanner[s] EXCEPT !.pc = "create"]]
    BY <1>2 DEF ClaimRenewal
  <2>3. subscription'.end = to
    BY <2>1, <2>2, SubscriptionEnd
  <2>4. /\ scanner'[s].pc = "create" /\ scanner'[s].from = from /\ scanner'[s].to = to
        /\ \A t \in Scanners : t # s => scanner'[t] = scanner[t]
    BY <1>0, <2>2 DEF CInv, RenewalTypes, Scan
  <2>5. \A t \in Scanners : t # s /\ scanner[t].pc \in Holding =>
          scanner[t].from \in Nat /\ scanner[t].to \in Nat /\ scanner[t].to <= from
    BY <2>1 DEF PInv, HeldIsBehindEnd, CInv, ClaimsGoForward
  <2>6. \A p \in Payments : charge[p] \in Nat => charge[p] < from
    BY <2>1 DEF PInv, ChargedIsBehindEnd
  <2>7. HeldIsBehindEnd'
    BY <2>1, <2>3, <2>4, <2>5 DEF HeldIsBehindEnd
  <2>8. HeldApart'
    BY <2>1, <2>4, <2>5 DEF PInv, HeldApart
  <2>9. ChargedIsBehindEnd'
    BY <1>0, <2>1, <2>3, <2>6 DEF ChargedIsBehindEnd
  <2>10. ChargedIsNotHeld'
    BY <1>0, <2>1, <2>4, <2>6 DEF PInv, ChargedIsNotHeld
  <2>11. OneChargePerPeriod'
    BY <1>0 DEF PInv, OneChargePerPeriod
  <2> QED
    BY <2>7, <2>8, <2>9, <2>10, <2>11 DEF PInv
<1> QED
  BY <1>1, <1>2

\* Cardcom charges the period that is held, and the replica lets go of it in
\* the same step: no other period that is held contains it.
LEMMA ChargePeriods ==
  ASSUME CInv, CInv', PInv, NEW s \in Scanners, NEW r \in Scan,
         scanner[s].pc = "charge", r.pc \notin Holding,
         scanner' = [scanner EXCEPT ![s] = r],
         charge' = [charge EXCEPT ![scanner[s].payment] = scanner[s].from],
         UNCHANGED subscription
  PROVE  PInv'
<1> DEFINE from == scanner[s].from
           to   == scanner[s].to
<1>1. from \in Nat /\ to \in Nat /\ from < to
  BY DEF CInv, ClaimsGoForward, Holding
<1>2. \A t \in Scanners : scanner'[t] = IF t = s THEN r ELSE scanner[t]
  BY DEF CInv, RenewalTypes
<1>3. \A p \in Payments : charge'[p] = IF p = scanner[s].payment THEN from ELSE charge[p]
  BY DEF CInv, RenewalTypes
<1>4. HeldIsBehindEnd' /\ HeldApart'
  BY <1>2 DEF PInv, HeldIsBehindEnd, HeldApart
<1>5. ChargedIsBehindEnd'
  BY <1>1, <1>3 DEF PInv, ChargedIsBehindEnd, HeldIsBehindEnd, Holding
<1>6. ChargedIsNotHeld'
  <2> SUFFICES ASSUME NEW p \in Payments, NEW t \in Scanners,
                      charge'[p] \in Nat, scanner'[t].pc \in Holding
               PROVE  charge'[p] < scanner'[t].from \/ scanner'[t].to <= charge'[p]
    BY DEF ChargedIsNotHeld
  <2>1. t # s /\ scanner'[t] = scanner[t]
    BY <1>2
  <2>2. scanner[t].from \in Nat /\ scanner[t].to \in Nat /\ scanner[t].from < scanner[t].to
    BY <2>1 DEF CInv, ClaimsGoForward
  <2>3. CASE p = scanner[s].payment
    <3>1. to <= scanner[t].from \/ scanner[t].to <= from
      BY <2>1 DEF PInv, HeldApart, Holding
    <3> QED
      BY <1>1, <1>3, <2>1, <2>2, <2>3, <3>1
  <2>4. CASE p # scanner[s].payment
    BY <1>3, <2>1, <2>4 DEF PInv, ChargedIsNotHeld
  <2> QED
    BY <2>3, <2>4
<1>7. OneChargePerPeriod'
  <2>1. \A p \in Payments : charge[p] # from
    BY <1>1 DEF PInv, ChargedIsNotHeld, Holding
  <2> QED
    BY <1>3, <2>1 DEF PInv, OneChargePerPeriod
<1> QED
  BY <1>4, <1>5, <1>6, <1>7 DEF PInv

\* A declined charge gives its period back only while it is the last one, so
\* that every other period that is held, or was charged, is before it.
LEMMA RollBackPeriods ==
  ASSUME CInv, CInv', PInv, NEW s \in Scanners, RollBack(s)
  PROVE  PInv'
<1> DEFINE from == scanner[s].from
           to   == scanner[s].to
           r    == [scanner[s] EXCEPT !.pc = "fail"]
<1>0. /\ scanner[s] \in Scan
      /\ scanner[s].pc = "rollback"
      /\ scanner' = [scanner EXCEPT ![s] = r]
      /\ charge' = charge
  BY DEF CInv, RenewalTypes, RollBack
<1>1. from \in Nat /\ to \in Nat /\ from < to
  BY <1>0 DEF CInv, ClaimsGoForward, Holding
<1>2. r \in Scan /\ r.pc = "fail"
  BY <1>0 DEF Scan
<1>3. CASE subscription.end # to
  <2>1. UNCHANGED subscription
    BY <1>3 DEF RollBack
  <2> QED
    BY <1>0, <1>2, <2>1, ScannerLetsGo DEF Holding
<1>4. CASE subscription.end = to
  <2>1. subscription'.end = from
    BY <1>1, <1>4, SubscriptionEnd DEF RollBack
  <2>2. \A t \in Scanners : scanner'[t] = IF t = s THEN r ELSE scanner[t]
    BY <1>0 DEF CInv, RenewalTypes
  <2>3. HeldIsBehindEnd'
    <3> SUFFICES ASSUME NEW t \in Scanners, scanner'[t].pc \in Holding
                 PROVE  scanner'[t].to <= from
      BY <2>1 DEF HeldIsBehindEnd
    <3>1. t # s /\ scanner'[t] = scanner[t]
      BY <1>2, <2>2 DEF Holding
    <3>2. scanner[t].from \in Nat /\ scanner[t].to \in Nat /\ scanner[t].from < scanner[t].to
      BY <3>1 DEF CInv, ClaimsGoForward
    <3>3. scanner[t].to <= to
      BY <1>1, <1>4, <3>1 DEF PInv, HeldIsBehindEnd
    <3>4. to <= scanner[t].from \/ scanner[t].to <= from
      BY <1>0, <3>1 DEF PInv, HeldApart, Holding
    <3> QED
      BY <1>1, <3>1, <3>2, <3>3, <3>4
  <2>4. HeldApart'
    BY <1>2, <2>2 DEF PInv, HeldApart, Holding
  <2>5. ChargedIsBehindEnd'
    <3>1. \A p \in Payments : charge[p] \in Nat => charge[p] < to
      BY <1>1, <1>4 DEF PInv, ChargedIsBehindEnd
    <3>2. \A p \in Payments : charge[p] \in Nat => charge[p] < from \/ to <= charge[p]
      BY <1>0 DEF PInv, ChargedIsNotHeld, Holding
    <3> QED
      BY <1>0, <1>1, <2>1, <3>1, <3>2 DEF ChargedIsBehindEnd
  <2>6. ChargedIsNotHeld'
    BY <1>0, <1>2, <2>2 DEF PInv, ChargedIsNotHeld, Holding
  <2>7. OneChargePerPeriod'
    BY <1>0 DEF PInv, OneChargePerPeriod
  <2> QED
    BY <2>3, <2>4, <2>5, <2>6, <2>7 DEF PInv
<1> QED
  BY <1>3, <1>4

\* The steps that move neither the period nor a period that is held.
QuietKept(s) ==
  /\ subscription' = subscription
  /\ \A t \in Scanners : t # s => scanner'[t] = scanner[t]
  /\ scanner'[s].pc \in Holding =>
       scanner[s].pc \in Holding /\ scanner'[s].from = scanner[s].from /\ scanner'[s].to = scanner[s].to

LEMMA QuietHolds ==
  ASSUME CInv, CInv', NEW s \in Scanners, ScanStep(s), ~ClaimRenewal(s), ~RollBack(s)
  PROVE  QuietKept(s)
<1>0. scanner[s] \in Scan /\ scanner'[s] \in Scan
  BY DEF CInv, RenewalTypes
<1>1. /\ UNCHANGED subscription
      /\ \A t \in Scanners : t # s => scanner'[t] = scanner[t]
  BY DEF ScanStep, ListUpcoming, ClaimReminder, ListDue, ReadRow, CreateRenewal, ChargePaid,
     ChargeDeclined, ChargeTimesOut, FailRenewal, CommitRenewal, QueueRenewalInvoice, CrashScanner,
     vars, tenant, CInv, RenewalTypes
<1>2. scanner'[s].pc \in Holding =>
        scanner[s].pc \in Holding /\ scanner'[s].from = scanner[s].from /\ scanner'[s].to = scanner[s].to
  <2>1. CASE \/ ClaimReminder(s) \/ ChargeTimesOut(s) \/ FailRenewal(s) \/ QueueRenewalInvoice(s)
             \/ CrashScanner(s)
    <3>1. scanner'[s] = IdleScanner
      BY <2>1 DEF ClaimReminder, ChargeTimesOut, FailRenewal, QueueRenewalInvoice, CrashScanner,
                  CInv, RenewalTypes
    <3> QED
      BY <3>1 DEF IdleScanner, Holding
  <2>2. CASE ListUpcoming(s) \/ ListDue(s) \/ ReadRow(s) \/ ChargePaid(s) \/ CommitRenewal(s)
    <3>1. scanner'[s].pc \in {"remind", "due", "claim", "idle", "commit", "invoice"}
      BY <1>0, <2>2 DEF ListUpcoming, ListDue, ReadRow, ChargePaid, CommitRenewal, IdleScanner, CInv,
                        RenewalTypes, Scan
    <3> QED
      BY <3>1 DEF Holding
  <2>3. CASE CreateRenewal(s)
    <3>1. PICK p \in Payments :
            scanner' = [scanner EXCEPT ![s] = [scanner[s] EXCEPT !.pc = "charge", !.payment = p]]
      BY <2>3 DEF CreateRenewal
    <3> QED
      BY <1>0, <2>3, <3>1 DEF CreateRenewal, CInv, RenewalTypes, Scan, Holding
  <2>4. CASE ChargeDeclined(s)
    <3>1. scanner' = [scanner EXCEPT ![s] = [scanner[s] EXCEPT !.pc = "rollback"]]
      BY <2>4 DEF ChargeDeclined
    <3> QED
      BY <1>0, <2>4, <3>1 DEF ChargeDeclined, CInv, RenewalTypes, Scan, Holding
  <2> QED
    BY <2>1, <2>2, <2>3, <2>4 DEF ScanStep
<1> QED
  BY <1>1, <1>2 DEF QuietKept

LEMMA QuietPeriods ==
  ASSUME CInv, CInv', PInv, NEW s \in Scanners, ScanStep(s),
         ~ClaimRenewal(s), ~RollBack(s), charge' = charge
  PROVE  PInv'
<1>1. QuietKept(s)
  BY QuietHolds
<1>2. PeriodGoesOn
  BY <1>1 DEF QuietKept, PeriodGoesOn, CInv, IInv, TypeOK
<1> QED
  BY <1>1, <1>2, LettingGo DEF QuietKept

LEMMA ChargedPeriods ==
  ASSUME CInv, CInv', PInv, NEW s \in Scanners, ChargePaid(s) \/ ChargeTimesOut(s)
  PROVE  PInv'
<1>0. scanner[s] \in Scan /\ scanner'[s] \in Scan /\ scanner[s].pc = "charge" /\ UNCHANGED subscription
  BY DEF CInv, RenewalTypes, ChargePaid, ChargeTimesOut, vars, tenant
<1>1. CASE charge' = [charge EXCEPT ![scanner[s].payment] = scanner[s].from]
  <2>1. scanner' = [scanner EXCEPT ![s] = scanner'[s]]
    BY DEF ChargePaid, ChargeTimesOut, CInv, RenewalTypes
  <2>2. scanner'[s].pc \notin Holding
    BY <1>0 DEF ChargePaid, ChargeTimesOut, IdleScanner, Holding, CInv, RenewalTypes, Scan
  <2> QED
    BY <1>0, <1>1, <2>1, <2>2, ChargePeriods
<1>2. CASE charge' = charge
  BY <1>2, QuietPeriods DEF ScanStep, ChargePaid, ChargeTimesOut, ClaimRenewal, RollBack
<1> QED
  BY <1>1, <1>2 DEF ChargePaid, ChargeTimesOut

LEMMA NextPInv == CInv /\ CInv' /\ PInv /\ [RenewalNext]_allVars /\ (scanner' = scanner => PeriodGoesOn) => PInv'
<1> SUFFICES ASSUME CInv, CInv', PInv, [RenewalNext]_allVars, scanner' = scanner => PeriodGoesOn
             PROVE  PInv'
  OBVIOUS
<1>1. CASE UNCHANGED renewalVars
  <2>1. scanner' = scanner /\ charge' = charge
    BY <1>1 DEF renewalVars
  <2> QED
    BY <2>1, LettingGo
<1>2. ASSUME NEW s \in Scanners, ScanStep(s) PROVE PInv'
  <2>1. CASE ClaimRenewal(s)
    BY <2>1, ClaimPeriods
  <2>2. CASE RollBack(s)
    BY <2>2, RollBackPeriods
  <2>3. CASE ChargePaid(s) \/ ChargeTimesOut(s)
    BY <2>3, ChargedPeriods
  <2>4. CASE ~(ClaimRenewal(s) \/ RollBack(s) \/ ChargePaid(s) \/ ChargeTimesOut(s))
    <3>1. charge' = charge
      BY <1>2, <2>4 DEF ScanStep, ListUpcoming, ClaimReminder, ListDue, ReadRow, CreateRenewal,
         ChargeDeclined, FailRenewal, CommitRenewal, QueueRenewalInvoice, CrashScanner
    <3> QED
      BY <1>2, <2>4, <3>1, QuietPeriods
  <2> QED
    BY <2>1, <2>2, <2>3, <2>4
<1>3. UNCHANGED allVars => UNCHANGED renewalVars
  BY DEF allVars
<1> QED
  BY <1>1, <1>2, <1>3 DEF RenewalNext

\* The replicas hold disjoint periods, all of them behind the row's end, and
\* what was charged is behind it too and held by nobody (renewOne).
THEOREM PeriodsHeldApart == RenewalSpec /\ PurchasesGoOn => []PInv
<1>1. RenewalInit => PInv
  <2> SUFFICES ASSUME RenewalInit PROVE PInv
    OBVIOUS
  <2>1. HeldIsBehindEnd /\ HeldApart
    BY DEF RenewalInit, HeldIsBehindEnd, HeldApart, IdleScanner, Holding
  <2>2. ChargedIsBehindEnd /\ ChargedIsNotHeld /\ OneChargePerPeriod
    BY CheckoutAssumption DEF RenewalInit, ChargedIsBehindEnd, ChargedIsNotHeld, OneChargePerPeriod
  <2> QED
    BY <2>1, <2>2 DEF PInv
<1>2. CInv /\ CInv' /\ PInv /\ [RenewalNext]_allVars /\ [scanner' = scanner => PeriodGoesOn]_allVars
        => PInv'
  <2>1. CInv /\ UNCHANGED allVars => PeriodGoesOn
    BY DEF allVars, vars, tenant, PeriodGoesOn, CInv, IInv, TypeOK
  <2> QED
    BY <2>1, NextPInv
<1> QED
  BY <1>1, <1>2, RowsHaveOneOwner, PTL DEF RenewalSpec, PurchasesGoOn

\* Any number of replicas, for any length of period and however long a charge
\* takes, charge each period at most once, purchases, cancellations and
\* switches included, as long as no purchase sets the period back (renewOne,
\* the conditional update of currentPeriodEnd).
THEOREM ChargedOncePerPeriod == RenewalSpec /\ PurchasesGoOn => []OneChargePerPeriod
<1>1. PInv => OneChargePerPeriod
  BY DEF PInv
<1> QED
  BY <1>1, PeriodsHeldApart, PTL

\* Without a purchase nothing sets the period back: cancelling keeps it, and
\* the free plan drops it.
THEOREM RenewalsAloneGoOn ==
  ASSUME Checkouts = {}, Handlers = {}
  PROVE  RenewalSpec => PurchasesGoOn
<1>1. CInv /\ CInv' /\ [RenewalNext]_allVars => [scanner' = scanner => PeriodGoesOn]_allVars
  <2> SUFFICES ASSUME CInv, CInv', RenewalNext, scanner' = scanner PROVE PeriodGoesOn
    OBVIOUS
  <2>0. /\ subscription \in Subscriptions /\ subscription' \in Subscriptions
        /\ subscription.end \in Nat \cup {None}
    BY DEF CInv, IInv, TypeOK, Subscriptions
  <2>1. CASE Next
    <3>1. \/ subscription'.end = subscription.end
          \/ subscription'.end = None
      <4>1. CASE Cancel
        BY <2>0, <4>1 DEF Cancel, Subscriptions
      <4>2. CASE SwitchToFree
        BY <4>2 DEF SwitchToFree
      <4>3. CASE ~Cancel /\ ~SwitchToFree
        BY <2>1, <4>3 DEF Next, Pay, Decline, OtherOfficeRedeems, Tick, tenant
      <4> QED
        BY <4>1, <4>2, <4>3
    <3> QED
      BY <2>0, <3>1, CheckoutAssumption DEF PeriodGoesOn
  <2>2. ASSUME NEW s \in Scanners, ScanStep(s) PROVE PeriodGoesOn
    <3>1. scanner[s] \in Scan /\ scanner'[s].pc = scanner[s].pc
      BY DEF CInv, RenewalTypes
    <3>2. ~ClaimRenewal(s) /\ ~RollBack(s)
      BY <3>1 DEF ClaimRenewal, RollBack, IdleScanner, CInv, RenewalTypes, Scan
    <3>3. UNCHANGED subscription
      BY <2>2, <3>2 DEF ScanStep, ListUpcoming, ClaimReminder, ListDue, ReadRow, CreateRenewal,
         ChargePaid, ChargeDeclined, ChargeTimesOut, FailRenewal, CommitRenewal, QueueRenewalInvoice,
         CrashScanner, vars, tenant
    <3> QED
      BY <2>0, <3>3, CheckoutAssumption DEF PeriodGoesOn
  <2> QED
    BY <2>1, <2>2 DEF RenewalNext
<1> QED
  BY <1>1, RowsHaveOneOwner, PTL DEF RenewalSpec, PurchasesGoOn

-----------------------------------------------------------------------------
(***************************************************************************)
(* Reminders.  Each one is for a later end than those before it, the mark  *)
(* is the last of them, and no period that is held can give the end back   *)
(* to one that was reminded of and left behind.                            *)
(***************************************************************************)
RemindersGoForward ==
  /\ reminders \in Seq(Nat)
  /\ \A i, j \in DOMAIN reminders : i < j => reminders[i] < reminders[j]

MarkIsLast ==
  IF reminders = <<>> THEN reminderFor = None
                      ELSE reminderFor = reminders[Len(reminders)]

MarkIsBehindEnd == reminderFor \in Nat /\ subscription.end \in Nat => reminderFor <= subscription.end

MarkIsNotHeld ==
  \A s \in Scanners :
    scanner[s].pc \in Holding /\ reminderFor \in Nat
      => reminderFor <= scanner[s].from \/ scanner[s].to <= reminderFor

ListedNotReminded ==
  \A s \in Scanners :
    scanner[s].pc = "remind" => scanner[s].to \in Nat /\ scanner[s].from # scanner[s].to

MInv ==
  /\ RemindersGoForward
  /\ MarkIsLast
  /\ MarkIsBehindEnd
  /\ MarkIsNotHeld
  /\ ListedNotReminded

\* A declined charge is answered before the reminder of the period it claimed
\* goes out: within seconds, where the reminder is weeks away.
RolledBackInTime == \A s \in Scanners : RollBack(s) => reminderFor # scanner[s].to
AnsweredInTime   == [][RolledBackInTime]_allVars

\* A step that sends nothing, takes no period back and starts no listing or
\* claim.
LEMMA NothingSent ==
  ASSUME CInv, CInv', MInv, UNCHANGED <<reminders, reminderFor>>, PeriodGoesOn,
         \A s \in Scanners : scanner'[s].pc \in Holding =>
           /\ scanner[s].pc \in Holding
           /\ scanner'[s].from = scanner[s].from
           /\ scanner'[s].to = scanner[s].to,
         \A s \in Scanners : scanner'[s].pc = "remind" =>
           \/ scanner'[s] = scanner[s]
           \/ scanner'[s].to \in Nat /\ scanner'[s].from # scanner'[s].to
  PROVE  MInv'
<1>1. RemindersGoForward' /\ MarkIsLast'
  BY DEF MInv, RemindersGoForward, MarkIsLast
<1>2. MarkIsBehindEnd'
  BY DEF MInv, MarkIsBehindEnd, PeriodGoesOn
<1>3. MarkIsNotHeld'
  BY DEF MInv, MarkIsNotHeld
<1>4. ListedNotReminded'
  BY DEF MInv, ListedNotReminded
<1> QED
  BY <1>1, <1>2, <1>3, <1>4 DEF MInv

LEMMA ListUpcomingMarks ==
  ASSUME CInv, CInv', MInv, NEW s \in Scanners, ListUpcoming(s)
  PROVE  MInv'
<1>0. /\ scanner[s] \in Scan
      /\ UNCHANGED <<subscription, reminders, reminderFor>>
      /\ subscription.end \in Nat /\ reminderFor # subscription.end
      /\ reminderFor \in Nat \cup {None}
  BY DEF CInv, IInv, TypeOK, RenewalTypes, ListUpcoming, vars, tenant
<1>1. /\ scanner'[s].pc = "remind" /\ scanner'[s].from = reminderFor
      /\ scanner'[s].to = subscription.end
      /\ \A t \in Scanners : t # s => scanner'[t] = scanner[t]
  BY <1>0 DEF ListUpcoming, CInv, RenewalTypes, Scan
<1>2. PeriodGoesOn
  BY <1>0 DEF PeriodGoesOn
<1> QED
  BY <1>0, <1>1, <1>2, NothingSent DEF Holding

\* The claim finds the mark it was listed with, and the end it was listed for,
\* which is a later one.
LEMMA ClaimReminderMarks ==
  ASSUME CInv, CInv', PInv, MInv, NEW s \in Scanners, ClaimReminder(s)
  PROVE  MInv'
<1> DEFINE to == scanner[s].to
<1>0. /\ scanner[s] \in Scan /\ scanner[s].pc = "remind"
      /\ UNCHANGED subscription
      /\ scanner' = [scanner EXCEPT ![s] = IdleScanner]
      /\ reminderFor \in Nat \cup {None}
  BY DEF CInv, RenewalTypes, ClaimReminder, vars, tenant
<1>1. to \in Nat /\ scanner[s].from # to
  BY <1>0 DEF MInv, ListedNotReminded
<1>2. \A t \in Scanners : scanner'[t] = IF t = s THEN IdleScanner ELSE scanner[t]
  BY <1>0 DEF CInv, RenewalTypes
<1>3. \A t \in Scanners : scanner'[t].pc \in Holding \cup {"remind"} => t # s /\ scanner'[t] = scanner[t]
  BY <1>2 DEF IdleScanner, Holding
<1>4. CASE ~ReminderClaimable(s)
  <2>1. UNCHANGED <<reminders, reminderFor>>
    BY <1>4 DEF ClaimReminder
  <2>2. PeriodGoesOn
    BY <1>0 DEF PeriodGoesOn, CInv, IInv, TypeOK
  <2> QED
    BY <1>3, <2>1, <2>2, NothingSent
<1>5. CASE ReminderClaimable(s)
  <2>1. /\ reminderFor' = to /\ reminders' = Append(reminders, to)
        /\ subscription.end = to /\ reminderFor = scanner[s].from
    BY <1>5 DEF ClaimReminder, ReminderClaimable
  <2>2. reminderFor \in Nat => reminderFor < to
    BY <1>1, <2>1 DEF MInv, MarkIsBehindEnd
  <2>3. reminders \in Seq(Nat) /\ Len(reminders) \in Nat
    BY DEF MInv, RemindersGoForward
  <2>4. \A i \in DOMAIN reminders : reminders[i] \in Nat /\ reminders[i] < to
    <3> SUFFICES ASSUME NEW i \in DOMAIN reminders PROVE reminders[i] \in Nat /\ reminders[i] < to
      OBVIOUS
    <3>1. i \in 1..Len(reminders) /\ Len(reminders) \in DOMAIN reminders /\ reminders # <<>>
      BY <2>3
    <3>2. reminders[i] \in Nat /\ reminderFor = reminders[Len(reminders)] /\ reminderFor \in Nat
      BY <2>3, <3>1 DEF MInv, MarkIsLast
    <3>3. i = Len(reminders) \/ reminders[i] < reminders[Len(reminders)]
      BY <3>1 DEF MInv, RemindersGoForward
    <3> QED
      BY <1>1, <2>2, <3>2, <3>3
  <2>5. RemindersGoForward'
    <3>1. reminders' \in Seq(Nat) /\ DOMAIN reminders' = 1..(Len(reminders) + 1)
      BY <1>1, <2>1, <2>3
    <3>2. \A i \in DOMAIN reminders' :
            reminders'[i] = IF i = Len(reminders) + 1 THEN to ELSE reminders[i]
      BY <1>1, <2>1, <2>3
    <3> SUFFICES ASSUME NEW i \in DOMAIN reminders', NEW j \in DOMAIN reminders', i < j
                 PROVE  reminders'[i] < reminders'[j]
      BY <3>1 DEF RemindersGoForward
    <3>3. i \in DOMAIN reminders /\ reminders'[i] = reminders[i]
      BY <2>3, <3>1, <3>2
    <3>4. CASE j = Len(reminders) + 1
      BY <2>4, <3>2, <3>3, <3>4
    <3>5. CASE j # Len(reminders) + 1
      <4>1. j \in DOMAIN reminders /\ reminders'[j] = reminders[j]
        BY <2>3, <3>1, <3>2, <3>5
      <4> QED
        BY <3>3, <4>1 DEF MInv, RemindersGoForward
    <3> QED
      BY <3>4, <3>5
  <2>6. MarkIsLast'
    <3>1. Len(reminders') = Len(reminders) + 1 /\ reminders' # <<>>
            /\ reminders'[Len(reminders) + 1] = to
      BY <1>1, <2>1, <2>3
    <3> QED
      BY <2>1, <3>1 DEF MarkIsLast
  <2>7. MarkIsBehindEnd'
    BY <1>0, <1>1, <2>1 DEF MarkIsBehindEnd
  <2>8. MarkIsNotHeld'
    BY <1>3, <2>1 DEF MarkIsNotHeld, PInv, HeldIsBehindEnd, CInv, ClaimsGoForward
  <2>9. ListedNotReminded'
    BY <1>3 DEF MInv, ListedNotReminded
  <2> QED
    BY <2>5, <2>6, <2>7, <2>8, <2>9 DEF MInv
<1> QED
  BY <1>4, <1>5

\* The period that is claimed starts at the end, which the mark is not beyond.
LEMMA ClaimMarks ==
  ASSUME CInv, CInv', MInv, NEW s \in Scanners, ClaimRenewal(s)
  PROVE  MInv'
<1>0. /\ scanner[s] \in Scan /\ scanner[s].pc = "claim"
      /\ UNCHANGED <<reminders, reminderFor>>
  BY DEF CInv, RenewalTypes, ClaimRenewal
<1>1. CASE ~RenewalClaimable(s)
  <2>1. scanner' = [scanner EXCEPT ![s] = IdleScanner] /\ UNCHANGED subscription
    BY <1>1 DEF ClaimRenewal
  <2>2. \A t \in Scanners : scanner'[t] = IF t = s THEN IdleScanner ELSE scanner[t]
    BY <2>1 DEF CInv, RenewalTypes
  <2>3. PeriodGoesOn
    BY <2>1 DEF PeriodGoesOn, CInv, IInv, TypeOK
  <2> QED
    BY <1>0, <2>2, <2>3, NothingSent DEF IdleScanner, Holding
<1>2. CASE RenewalClaimable(s)
  <2> DEFINE from == scanner[s].from
             to   == scanner[s].to
  <2>1. from \in Nat /\ to \in Nat /\ from < to /\ subscription.end = from
    BY <1>0, <1>2 DEF CInv, ClaimsGoForward, RenewalClaimable
  <2>2. /\ subscription' = [subscription EXCEPT !.end = to]
        /\ scanner' = [scanner EXCEPT ![s] = [scanner[s] EXCEPT !.pc = "create"]]
    BY <1>2 DEF ClaimRenewal
  <2>3. subscription'.end = to
    BY <2>1, <2>2, SubscriptionEnd
  <2>4. /\ scanner'[s].pc = "create" /\ scanner'[s].from = from /\ scanner'[s].to = to
        /\ \A t \in Scanners : t # s => scanner'[t] = scanner[t]
    BY <1>0, <2>2 DEF CInv, RenewalTypes, Scan
  <2>5. reminderFor \in Nat => reminderFor <= from
    BY <2>1 DEF MInv, MarkIsBehindEnd
  <2>6. RemindersGoForward' /\ MarkIsLast'
    BY <1>0 DEF MInv, RemindersGoForward, MarkIsLast
  <2>7. MarkIsBehindEnd'
    BY <1>0, <2>1, <2>3, <2>5 DEF MarkIsBehindEnd
  <2>8. MarkIsNotHeld'
    BY <1>0, <2>4, <2>5 DEF MInv, MarkIsNotHeld
  <2>9. ListedNotReminded'
    BY <2>4 DEF MInv, ListedNotReminded
  <2> QED
    BY <2>6, <2>7, <2>8, <2>9 DEF MInv
<1> QED
  BY <1>1, <1>2

\* The end goes back to where the period started, and the mark is not beyond
\* that either: not at the end, the answer being in time, and not in between.
LEMMA RollBackMarks ==
  ASSUME CInv, CInv', MInv, NEW s \in Scanners, RollBack(s), RolledBackInTime
  PROVE  MInv'
<1> DEFINE from == scanner[s].from
           to   == scanner[s].to
<1>0. /\ scanner[s] \in Scan /\ scanner[s].pc = "rollback"
      /\ scanner' = [scanner EXCEPT ![s] = [scanner[s] EXCEPT !.pc = "fail"]]
      /\ UNCHANGED <<reminders, reminderFor>>
  BY DEF CInv, RenewalTypes, RollBack
<1>1. from \in Nat /\ to \in Nat /\ from < to
  BY <1>0 DEF CInv, ClaimsGoForward, Holding
<1>2. scanner'[s].pc = "fail" /\ \A t \in Scanners : t # s => scanner'[t] = scanner[t]
  BY <1>0 DEF CInv, RenewalTypes, Scan
<1>3. CASE subscription.end # to
  <2>1. PeriodGoesOn
    BY <1>3 DEF RollBack, PeriodGoesOn, CInv, IInv, TypeOK
  <2> QED
    BY <1>0, <1>2, <2>1, NothingSent DEF Holding
<1>4. CASE subscription.end = to
  <2>1. subscription'.end = from
    BY <1>1, <1>4, SubscriptionEnd DEF RollBack
  <2>2. reminderFor \in Nat => reminderFor <= from
    <3>1. reminderFor # to
      BY DEF RolledBackInTime
    <3>2. reminderFor \in Nat => reminderFor <= to
      BY <1>1, <1>4 DEF MInv, MarkIsBehindEnd
    <3>3. reminderFor \in Nat => reminderFor <= from \/ to <= reminderFor
      BY <1>0 DEF MInv, MarkIsNotHeld, Holding
    <3> QED
      BY <1>1, <3>1, <3>2, <3>3
  <2>3. RemindersGoForward' /\ MarkIsLast'
    BY <1>0 DEF MInv, RemindersGoForward, MarkIsLast
  <2>4. MarkIsBehindEnd'
    BY <1>0, <2>1, <2>2 DEF MarkIsBehindEnd
  <2>5. MarkIsNotHeld'
    BY <1>0, <1>2 DEF MInv, MarkIsNotHeld, Holding
  <2>6. ListedNotReminded'
    BY <1>2 DEF MInv, ListedNotReminded
  <2> QED
    BY <2>3, <2>4, <2>5, <2>6 DEF MInv
<1> QED
  BY <1>3, <1>4

LEMMA QuietMarks ==
  ASSUME CInv, CInv', MInv, NEW s \in Scanners, ScanStep(s),
         ~ListUpcoming(s), ~ClaimReminder(s), ~ClaimRenewal(s), ~RollBack(s)
  PROVE  MInv'
<1>1. QuietKept(s)
  BY QuietHolds
<1>2. UNCHANGED <<reminders, reminderFor>>
  BY DEF ScanStep, ListDue, ReadRow, CreateRenewal, ChargePaid, ChargeDeclined, ChargeTimesOut,
     FailRenewal, CommitRenewal, QueueRenewalInvoice, CrashScanner
<1>3. scanner'[s].pc # "remind"
  <2>0. scanner[s] \in Scan /\ scanner'[s] \in Scan
    BY DEF CInv, RenewalTypes
  <2>1. CASE \/ ChargeTimesOut(s) \/ FailRenewal(s) \/ QueueRenewalInvoice(s) \/ CrashScanner(s)
    BY <2>1 DEF ChargeTimesOut, FailRenewal, QueueRenewalInvoice, CrashScanner, IdleScanner, CInv,
                RenewalTypes
  <2>2. CASE ListDue(s) \/ ReadRow(s) \/ ChargePaid(s) \/ CommitRenewal(s) \/ ChargeDeclined(s)
    BY <2>0, <2>2 DEF ListDue, ReadRow, ChargePaid, CommitRenewal, ChargeDeclined, IdleScanner, CInv,
                      RenewalTypes, Scan
  <2>3. CASE CreateRenewal(s)
    <3>1. PICK p \in Payments :
            scanner' = [scanner EXCEPT ![s] = [scanner[s] EXCEPT !.pc = "charge", !.payment = p]]
      BY <2>3 DEF CreateRenewal
    <3> QED
      BY <2>0, <3>1 DEF CInv, RenewalTypes, Scan
  <2> QED
    BY <2>1, <2>2, <2>3 DEF ScanStep
<1>4. PeriodGoesOn
  BY <1>1 DEF QuietKept, PeriodGoesOn, CInv, IInv, TypeOK
<1> QED
  BY <1>1, <1>2, <1>3, <1>4, NothingSent DEF QuietKept

LEMMA NextMInv ==
  ASSUME CInv, CInv', PInv, MInv, [RenewalNext]_allVars, scanner' = scanner => PeriodGoesOn,
         RolledBackInTime
  PROVE  MInv'
<1>1. CASE UNCHANGED renewalVars
  <2>1. scanner' = scanner /\ UNCHANGED <<reminders, reminderFor>>
    BY <1>1 DEF renewalVars
  <2> QED
    BY <2>1, NothingSent
<1>2. ASSUME NEW s \in Scanners, ScanStep(s) PROVE MInv'
  <2>1. CASE ListUpcoming(s)
    BY <2>1, ListUpcomingMarks
  <2>2. CASE ClaimReminder(s)
    BY <2>2, ClaimReminderMarks
  <2>3. CASE ClaimRenewal(s)
    BY <2>3, ClaimMarks
  <2>4. CASE RollBack(s)
    BY <2>4, RollBackMarks
  <2>5. CASE ~(ListUpcoming(s) \/ ClaimReminder(s) \/ ClaimRenewal(s) \/ RollBack(s))
    BY <1>2, <2>5, QuietMarks
  <2> QED
    BY <2>1, <2>2, <2>3, <2>4, <2>5
<1>3. UNCHANGED allVars => UNCHANGED renewalVars
  BY DEF allVars
<1> QED
  BY <1>1, <1>2, <1>3 DEF RenewalNext

\* Each period is reminded of once, by one of any number of replicas, as long
\* as no purchase sets the period back and declined charges are answered before
\* the next reminder (remindUpcoming, the mark renewal_reminder_for).
THEOREM RemindedOncePerPeriod ==
  RenewalSpec /\ PurchasesGoOn /\ AnsweredInTime => []OneReminderPerPeriod
<1>1. RenewalInit => MInv
  BY CheckoutAssumption DEF RenewalInit, MInv, RemindersGoForward, MarkIsLast, MarkIsBehindEnd, MarkIsNotHeld,
     ListedNotReminded, IdleScanner, Holding
<1>2. /\ CInv /\ CInv' /\ PInv /\ MInv
      /\ [RenewalNext]_allVars
      /\ [scanner' = scanner => PeriodGoesOn]_allVars
      /\ [RolledBackInTime]_allVars
      => MInv'
  <2>1. CASE UNCHANGED allVars
    <3>1. CInv => PeriodGoesOn
      BY <2>1 DEF allVars, vars, tenant, PeriodGoesOn, CInv, IInv, TypeOK
    <3>2. scanner' = scanner /\ UNCHANGED <<reminders, reminderFor>>
      BY <2>1 DEF allVars, renewalVars
    <3> QED
      BY <3>1, <3>2, NothingSent
  <2>2. CASE ~UNCHANGED allVars
    BY <2>2, NextMInv
  <2> QED
    BY <2>1, <2>2
<1>3. MInv => OneReminderPerPeriod
  <2> SUFFICES ASSUME MInv, NEW i \in DOMAIN reminders, NEW j \in DOMAIN reminders,
                      reminders[i] = reminders[j]
               PROVE  i = j
    BY DEF OneReminderPerPeriod
  <2>1. reminders \in Seq(Nat) /\ i \in 1..Len(reminders) /\ j \in 1..Len(reminders)
          /\ Len(reminders) \in Nat
    BY DEF MInv, RemindersGoForward
  <2>2. reminders[i] \in Nat /\ ~(i < j) /\ ~(j < i)
    BY <2>1 DEF MInv, RemindersGoForward
  <2> QED
    BY <2>1, <2>2
<1> QED
  BY <1>1, <1>2, <1>3, RowsHaveOneOwner, PeriodsHeldApart, PTL
     DEF RenewalSpec, PurchasesGoOn, AnsweredInTime
=============================================================================
