------------------------ MODULE SubscriptionCheckout ------------------------
(***************************************************************************)
(* Buying with a Cardcom payment page: one office opens payment pages for  *)
(* a plan, a subscription offer or credits, the customer pays at Cardcom,  *)
(* and any number of concurrent confirmations (webhooks and polls of the   *)
(* return page, on any API replica) try to apply the payment.              *)
(*                                                                         *)
(* Every statement of BillingService is filtered by tenantId, so one       *)
(* office is the whole world, but for the quota of an offer, which other   *)
(* offices use up too.  An action is the code between two awaits: one      *)
(* statement of the database or one answer of Cardcom.                     *)
(*                                                                         *)
(* The transactions run at PostgreSQL's READ COMMITTED.  One that claimed  *)
(* a payment holds the lock of its row until it commits, and every other   *)
(* update of that row waits for it.  The subscription is only read, not    *)
(* locked, when the new end is computed; it is written when the            *)
(* transaction commits.                                                    *)
(***************************************************************************)
EXTENDS Naturals, FiniteSets

CONSTANTS
  Payments,        \* identifiers ulid() may hand out: bounds the payment rows
  Checkouts,       \* requests that open a payment page
  Handlers,        \* concurrent runs of apply()
  Period,          \* length of the billing cycle, in ticks
  Grace,           \* BILLING_GRACE_DAYS, in ticks
  MaxTime,         \* bounds the clock
  MaxRedemptions,  \* the offer's maxRedemptions
  InitialCoupons,  \* discounts the signup may have left on the office
  None             \* SQL NULL

Coupons == {"none", "part", "full"}

ASSUME CheckoutAssumption ==
  /\ Period \in Nat \ {0}
  /\ Grace \in Nat
  /\ MaxTime \in Nat
  /\ MaxRedemptions \in Nat
  /\ InitialCoupons \subseteq Coupons
  /\ None \notin Nat
  /\ None \notin Payments

VARIABLES
  now,           \* the clock
  payment,       \* table payments
  page,          \* what happened on the Cardcom page of each payment
  subscription,  \* the office's row in table subscriptions
  paidUntil,     \* tenants.paid_until: the gate tenantPeriodEnded reads
  coupon,        \* tenants.coupon_percent_off
  redemptions,   \* subscription_offers.redemptions
  benefits,      \* payments whose offer gave its price and features
  ledger,        \* rows of credit_ledger per payment (refId)
  grants,        \* history: billing periods activated per payment
  invoiced,      \* payments with a row in table invoices
  checkout,      \* where each open-page request stands
  handler        \* where each run of apply() stands

rows   == <<payment, page>>
tenant == <<subscription, paidUntil, coupon, redemptions, benefits, ledger, grants>>
vars   == <<now, rows, tenant, invoiced, checkout, handler>>

\* Mutant of Claimable: a settled row can be claimed again.
ClaimableAgain == {"pending", "superseded", "paid"}
Claimable == {"pending", "superseded"}

AbsentRow   == [kind |-> "absent", status |-> "absent", linked |-> FALSE]
IdleRequest == [pc |-> "idle", kind |-> "plan", discount |-> "none", payment |-> None, end |-> None]
IdleHandler == [pc |-> "idle", payment |-> None, verdict |-> "none", at |-> None, end |-> None]

(***************************************************************************)
(* nextPeriodEnd and accessUntil: a purchase extends the later of now and  *)
(* the current end, and access closes a grace window after it.             *)
(***************************************************************************)
NextPeriodEnd(end, at) == (IF end # None /\ end > at THEN end ELSE at) + Period
AccessUntil(end)       == end + Grace

\* A transaction that claimed p has not committed yet.
Locked(p) == \E h \in Handlers : handler[h].pc = "commit" /\ handler[h].payment = p

\* Nobody has opened a page or confirmed a payment yet.
NoActivity ==
  /\ now = 0
  /\ payment = [p \in Payments |-> AbsentRow]
  /\ page = [p \in Payments |-> "none"]
  /\ coupon \in InitialCoupons
  /\ redemptions = 0
  /\ benefits = {}
  /\ ledger = [p \in Payments |-> 0]
  /\ grants = [p \in Payments |-> 0]
  /\ invoiced = {}
  /\ checkout = [c \in Checkouts |-> IdleRequest]
  /\ handler = [h \in Handlers |-> IdleHandler]

\* An office in its trial: ensureSubscription writes a row without a period.
Init ==
  /\ NoActivity
  /\ subscription = [status |-> "trial", plan |-> "trial", end |-> None, card |-> FALSE]
  /\ paidUntil = None

-----------------------------------------------------------------------------
(***************************************************************************)
(* Opening a payment page.                                                 *)
(***************************************************************************)
Begin(c, pc, kind, discount) ==
  /\ checkout[c].pc = "idle"
  /\ checkout' = [checkout EXCEPT ![c] = [pc |-> pc, kind |-> kind, discount |-> discount,
                                          payment |-> None, end |-> None]]
  /\ UNCHANGED <<now, rows, tenant, invoiced, handler>>

\* startCheckout up to its first write.  The coupon is read here, long before
\* the row is written, and may be tied to another plan.
PricePlan(c) == \E discount \in {coupon, "none"} : Begin(c, "supersede", "plan", discount)

\* startOfferCheckout refuses an exhausted offer; no coupon on top of an offer.
PriceOffer(c) == redemptions < MaxRedemptions /\ Begin(c, "supersede", "offer", "none")

\* startCreditCheckout leaves the office's other pages alone.
PriceCredits(c) == Begin(c, "create", "credits", "none")

\* "One open payment per office": every pending row is superseded, whatever
\* it was for.
Supersede(c) ==
  /\ checkout[c].pc = "supersede"
  /\ \A p \in Payments : payment[p].status = "pending" => ~Locked(p)
  /\ payment' = [p \in Payments |->
                   IF payment[p].status = "pending"
                     THEN [payment[p] EXCEPT !.status = "superseded"]
                     ELSE payment[p]]
  /\ checkout' = [checkout EXCEPT ![c].pc =
                    IF checkout[c].discount = "full" THEN "free" ELSE "create"]
  /\ UNCHANGED <<now, page, tenant, invoiced, handler>>

CreateRow(c) ==
  /\ checkout[c].pc = "create"
  /\ \E p \in Payments :
       /\ payment[p].status = "absent"
       /\ payment' = [payment EXCEPT ![p] =
                        [kind |-> checkout[c].kind, status |-> "pending", linked |-> FALSE]]
       /\ checkout' = [checkout EXCEPT ![c].pc = "open", ![c].payment = p]
  /\ UNCHANGED <<now, page, tenant, invoiced, handler>>

\* Mutant of OpenPage: the coupon is spent when the page opens.
OpenPageSpendsCoupon(c) ==
  /\ checkout[c].pc = "open"
  /\ payment' = [payment EXCEPT ![checkout[c].payment].linked = TRUE]
  /\ page' = [page EXCEPT ![checkout[c].payment] = "open"]
  /\ coupon' = "none"
  /\ checkout' = [checkout EXCEPT ![c] = IdleRequest]
  /\ UNCHANGED <<now, subscription, paidUntil, redemptions, benefits, ledger, grants,
                 invoiced, handler>>

\* Cardcom answers with a page and its id is stored.  A page whose URL never
\* reached the browser cannot be paid, so the two awaits are one step.
OpenPage(c) ==
  /\ checkout[c].pc = "open"
  /\ payment' = [payment EXCEPT ![checkout[c].payment].linked = TRUE]
  /\ page' = [page EXCEPT ![checkout[c].payment] = "open"]
  /\ checkout' = [checkout EXCEPT ![c] = IdleRequest]
  /\ UNCHANGED <<now, tenant, invoiced, handler>>

OpenPageFails(c) ==
  /\ checkout[c].pc = "open"
  /\ payment' = [payment EXCEPT ![checkout[c].payment].status = "failed"]
  /\ checkout' = [checkout EXCEPT ![c] = IdleRequest]
  /\ UNCHANGED <<now, page, tenant, invoiced, handler>>

\* The API process dies in the middle of a request; a transaction rolls back.
CrashRequest(c) ==
  /\ checkout[c].pc # "idle"
  /\ checkout' = [checkout EXCEPT ![c] = IdleRequest]
  /\ UNCHANGED <<now, rows, tenant, invoiced, handler>>

-----------------------------------------------------------------------------
\* Mutant of Activate: access closes with the period, without the grace window.
ActivateWithoutGrace(p, end, card) ==
  /\ subscription' = [status |-> "active", plan |-> "paid", end |-> end,
                      card |-> card \/ subscription.card]
  /\ paidUntil' = end
  /\ coupon' = "none"
  /\ grants' = [grants EXCEPT ![p] = grants[p] + 1]

(***************************************************************************)
(* activateWithin: the core every successful purchase runs inside the      *)
(* transaction that claimed its row.  end was computed from the period the *)
(* transaction read.                                                       *)
(***************************************************************************)
Activate(p, end, card) ==
  /\ subscription' = [status |-> "active", plan |-> "paid", end |-> end,
                      card |-> card \/ subscription.card]
  /\ paidUntil' = AccessUntil(end)
  /\ coupon' = "none"
  /\ grants' = [grants EXCEPT ![p] = grants[p] + 1]

\* Mutant of RedeemOffer: the redemption is counted without its condition.
RedeemAlways(p) == redemptions' = redemptions + 1 /\ benefits' = benefits \cup {p}

\* applyOfferWithin: the redemption is counted first and conditionally; an
\* exhausted offer grants nothing, but the period stays.
RedeemOffer(p) ==
  IF redemptions < MaxRedemptions
    THEN redemptions' = redemptions + 1 /\ benefits' = benefits \cup {p}
    ELSE UNCHANGED <<redemptions, benefits>>

\* Another office redeems the same offer.
OtherOfficeRedeems ==
  /\ redemptions < MaxRedemptions
  /\ redemptions' = redemptions + 1
  /\ UNCHANGED <<now, rows, subscription, paidUntil, coupon, benefits, ledger, grants,
                 invoiced, checkout, handler>>

\* A 100% coupon has nothing to charge: one transaction creates a row that is
\* born paid and activates it.  Until it commits nobody sees the row.
ReadForFree(c) ==
  /\ checkout[c].pc = "free"
  /\ checkout' = [checkout EXCEPT ![c].pc = "commit",
                                  ![c].end = NextPeriodEnd(subscription.end, now)]
  /\ UNCHANGED <<now, rows, tenant, invoiced, handler>>

ActivateFree(c) ==
  /\ checkout[c].pc = "commit"
  /\ \E p \in Payments :
       /\ payment[p].status = "absent"
       /\ payment' = [payment EXCEPT ![p] = [kind |-> "plan", status |-> "paid", linked |-> FALSE]]
       /\ Activate(p, checkout[c].end, FALSE)
  /\ checkout' = [checkout EXCEPT ![c] = IdleRequest]
  /\ UNCHANGED <<now, page, redemptions, benefits, ledger, invoiced, handler>>

-----------------------------------------------------------------------------
(***************************************************************************)
(* The customer at Cardcom.  A page stays payable after a refused card and *)
(* after we opened another page in its place.                              *)
(***************************************************************************)
Pay(p) ==
  /\ page[p] \in {"open", "declined"}
  /\ page' = [page EXCEPT ![p] = "charged"]
  /\ UNCHANGED <<now, payment, tenant, invoiced, checkout, handler>>

Decline(p) ==
  /\ page[p] = "open"
  /\ page' = [page EXCEPT ![p] = "declined"]
  /\ UNCHANGED <<now, payment, tenant, invoiced, checkout, handler>>

-----------------------------------------------------------------------------
(***************************************************************************)
(* apply(lowProfileId).                                                    *)
(***************************************************************************)
Start(h, p) ==
  /\ handler[h].pc = "idle"
  /\ payment[p].linked
  /\ handler' = [handler EXCEPT ![h].pc = "verify", ![h].payment = p]
  /\ UNCHANGED <<now, rows, tenant, invoiced, checkout>>

\* Cardcom reports an attempt, possibly several times and at any delay.
Webhook(h, p) == page[p] \in {"declined", "charged"} /\ Start(h, p)

\* paymentStatus: the return page asks about a row that is not settled yet.
PollReturnPage(h, p) == payment[p].status \in Claimable /\ Start(h, p)

\* cardcom.verify.  An answer whose codes look fine but that carries no
\* transaction has no amount to compare.
Verify(h) ==
  /\ handler[h].pc = "verify"
  /\ \/ /\ page[handler[h].payment] = "charged"
        /\ handler' = [handler EXCEPT ![h].pc = "load", ![h].verdict = "paid"]
     \/ /\ page[handler[h].payment] # "charged"
        /\ handler' = [handler EXCEPT ![h].pc = "reject"]
     \/ /\ page[handler[h].payment] = "open"
        /\ handler' = [handler EXCEPT ![h].pc = "load", ![h].verdict = "noAmount"]
  /\ UNCHANGED <<now, rows, tenant, invoiced, checkout>>

\* The row is read after the answer: a paid row ends the run, an amount that
\* does not match rejects it, and anything else goes on, at the time read here.
Load(h) ==
  /\ handler[h].pc = "load"
  /\ \/ /\ payment[handler[h].payment].status = "paid"
        /\ handler' = [handler EXCEPT ![h] = IdleHandler]
     \/ /\ payment[handler[h].payment].status # "paid"
        /\ handler[h].verdict = "noAmount"
        /\ handler' = [handler EXCEPT ![h].pc = "reject", ![h].verdict = "none"]
     \/ /\ payment[handler[h].payment].status # "paid"
        /\ handler[h].verdict = "paid"
        /\ handler' = [handler EXCEPT ![h].pc = "claim", ![h].verdict = "none",
                                      ![h].at = now]
  /\ UNCHANGED <<now, rows, tenant, invoiced, checkout>>

\* Only a row that is still claimable is marked failed.
Reject(h) ==
  LET p == handler[h].payment IN
  /\ handler[h].pc = "reject"
  /\ ~Locked(p)
  /\ payment' = IF payment[p].status \in Claimable
                  THEN [payment EXCEPT ![p].status = "failed"]
                  ELSE payment
  /\ handler' = [handler EXCEPT ![h] = IdleHandler]
  /\ UNCHANGED <<now, page, tenant, invoiced, checkout>>

\* Mutant of ClaimLost: the run that lost the claim queues the invoice too.
ClaimLostQueues(h) ==
  /\ handler[h].pc = "claim"
  /\ payment[handler[h].payment].status \notin Claimable
  /\ handler' = [handler EXCEPT ![h].pc = "invoice"]
  /\ UNCHANGED <<now, rows, tenant, invoiced, checkout>>

\* The transaction lost the conditional update: somebody settled the row.
ClaimLost(h) ==
  /\ handler[h].pc = "claim"
  /\ payment[handler[h].payment].status \notin Claimable
  /\ handler' = [handler EXCEPT ![h] = IdleHandler]
  /\ UNCHANGED <<now, rows, tenant, invoiced, checkout>>

\* It won: the row is locked, and the current period is read.
Claim(h) ==
  LET p == handler[h].payment IN
  /\ handler[h].pc = "claim"
  /\ payment[p].status \in Claimable
  /\ ~Locked(p)
  /\ handler' = [handler EXCEPT ![h].pc = "commit", ![h].at = None,
                                ![h].end = NextPeriodEnd(subscription.end, handler[h].at)]
  /\ UNCHANGED <<now, rows, tenant, invoiced, checkout>>

\* The row becomes paid together with what was bought.
CommitCredits(p) ==
  /\ payment[p].kind = "credits"
  /\ ledger' = [ledger EXCEPT ![p] = ledger[p] + 1]
  /\ UNCHANGED <<subscription, paidUntil, coupon, redemptions, benefits, grants>>

CommitPlan(p, end) ==
  /\ payment[p].kind = "plan"
  /\ Activate(p, end, TRUE)
  /\ UNCHANGED <<redemptions, benefits, ledger>>

CommitOffer(p, end) ==
  /\ payment[p].kind = "offer"
  /\ Activate(p, end, TRUE)
  /\ RedeemOffer(p)
  /\ UNCHANGED ledger

Commit(h) ==
  LET p == handler[h].payment IN
  /\ handler[h].pc = "commit"
  /\ payment' = [payment EXCEPT ![p].status = "paid"]
  /\ CommitCredits(p) \/ CommitPlan(p, handler[h].end) \/ CommitOffer(p, handler[h].end)
  /\ handler' = [handler EXCEPT ![h].pc = "invoice", ![h].end = None]
  /\ UNCHANGED <<now, page, invoiced, checkout>>

\* queueForPayment, after the commit; the unique paymentId makes it idempotent.
QueueInvoice(h) ==
  /\ handler[h].pc = "invoice"
  /\ invoiced' = invoiced \cup {handler[h].payment}
  /\ handler' = [handler EXCEPT ![h] = IdleHandler]
  /\ UNCHANGED <<now, rows, tenant, checkout>>

\* The process dies or Cardcom does not answer; the webhook still returns 200.
Abandon(h) ==
  /\ handler[h].pc # "idle"
  /\ handler' = [handler EXCEPT ![h] = IdleHandler]
  /\ UNCHANGED <<now, rows, tenant, invoiced, checkout>>

-----------------------------------------------------------------------------
(***************************************************************************)
(* The office's own switches, and the clock.                               *)
(***************************************************************************)

\* Mutant of Cancel: the status is written as the column does not know it.
CancelMisspelt ==
  /\ subscription.status = "active"
  /\ subscription' = [subscription EXCEPT !.status = "canceled", !.card = FALSE]
  /\ UNCHANGED <<now, rows, paidUntil, coupon, redemptions, benefits, ledger, grants,
                 invoiced, checkout, handler>>

\* cancel: the paid period stays, the card goes.
Cancel ==
  /\ subscription.status = "active"
  /\ subscription' = [subscription EXCEPT !.status = "cancelled", !.card = FALSE]
  /\ UNCHANGED <<now, rows, paidUntil, coupon, redemptions, benefits, ledger, grants,
                 invoiced, checkout, handler>>

SwitchToFree ==
  /\ subscription' = [status |-> "active", plan |-> "free", end |-> None, card |-> FALSE]
  /\ paidUntil' = None
  /\ UNCHANGED <<now, rows, coupon, redemptions, benefits, ledger, grants,
                 invoiced, checkout, handler>>

Tick ==
  /\ now < MaxTime
  /\ now' = now + 1
  /\ UNCHANGED <<rows, tenant, invoiced, checkout, handler>>

OpenStep(c) ==
  \/ PricePlan(c) \/ PriceOffer(c) \/ PriceCredits(c) \/ Supersede(c) \/ CreateRow(c)
  \/ OpenPage(c) \/ OpenPageFails(c) \/ CrashRequest(c) \/ ReadForFree(c) \/ ActivateFree(c)

ApplyStep(h) ==
  \/ \E p \in Payments : Webhook(h, p) \/ PollReturnPage(h, p)
  \/ Verify(h) \/ Load(h) \/ Reject(h) \/ ClaimLost(h) \/ Claim(h) \/ Commit(h)
  \/ QueueInvoice(h) \/ Abandon(h)

Next ==
  \/ \E c \in Checkouts : OpenStep(c)
  \/ \E p \in Payments : Pay(p) \/ Decline(p)
  \/ \E h \in Handlers : ApplyStep(h)
  \/ OtherOfficeRedeems \/ Cancel \/ SwitchToFree \/ Tick

Spec == Init /\ [][Next]_vars

-----------------------------------------------------------------------------
(***************************************************************************)
(* What a correct checkout guarantees.                                     *)
(***************************************************************************)
Row     == [kind : {"absent", "plan", "offer", "credits", "renewal"},  \* renewals: SubscriptionRenewal
            status : {"absent", "pending", "superseded", "failed", "paid"},
            linked : BOOLEAN]
Request == [pc : {"idle", "supersede", "create", "open", "free", "commit"},
            kind : {"plan", "offer", "credits"}, discount : Coupons,
            payment : Payments \cup {None}, end : Nat \cup {None}]
Run     == [pc : {"idle", "verify", "load", "reject", "claim", "commit", "invoice"},
            payment : Payments \cup {None}, verdict : {"none", "paid", "noAmount"},
            at : Nat \cup {None}, end : Nat \cup {None}]

\* Every variable keeps to its table's columns.
TypeOK ==
  /\ now \in Nat
  /\ payment \in [Payments -> Row]
  /\ page \in [Payments -> {"none", "open", "declined", "charged"}]
  /\ subscription \in [status : {"trial", "active", "cancelled"}, plan : {"trial", "paid", "free"},
                       end : Nat \cup {None}, card : BOOLEAN]
  /\ paidUntil \in Nat \cup {None}
  /\ coupon \in Coupons
  /\ redemptions \in Nat
  /\ benefits \in SUBSET Payments
  /\ ledger \in [Payments -> Nat]
  /\ grants \in [Payments -> Nat]
  /\ invoiced \in SUBSET Payments
  /\ checkout \in [Checkouts -> Request]
  /\ handler \in [Handlers -> Run]

\* A payment gives what it bought exactly once: a paid row has activated one
\* period or credited the ledger once, and no other row has given anything,
\* however many webhooks and polls apply() it at the same time.
AppliedOnce ==
  \A p \in Payments :
    grants[p] + ledger[p] = IF payment[p].status = "paid" THEN 1 ELSE 0

\* A verdict reached before the customer paid never overturns a confirmed
\* payment: once paid, a row stays paid (the CLAIMABLE filter of both updates).
PaidStaysPaid ==
  [][\A p \in Payments : payment[p].status = "paid" => payment'[p].status = "paid"]_vars

\* The whole checkout, seen from outside: each payment is settled once and for
\* good, and gives its one period or its credits in the same step.
Abstract == INSTANCE PaymentSettlement WITH
  settled   <- {p \in Payments : payment[p].status = "paid"},
  delivered <- [p \in Payments |-> grants[p] + ledger[p]]

Settlement == Abstract!Spec

\* The offer's terms are given to at most maxRedemptions purchases in all, and
\* each one given is counted (the conditional increment of applyOfferWithin).
OfferQuota ==
  /\ redemptions <= MaxRedemptions
  /\ Cardinality(benefits) <= redemptions

\* Nobody loses the coupon by opening a page and walking away: it goes only in
\* a step that gives the office a period (couponPercentOff in activateWithin).
CouponKept ==
  [][coupon' # coupon => \E p \in Payments : grants'[p] > grants[p]]_vars

\* However purchases, cancellations and switches interleave, the gate closes
\* a grace window after the period the subscription records.
AccessFollowsPeriod ==
  IF subscription.end = None THEN paidUntil = None
                             ELSE paidUntil = AccessUntil(subscription.end)

\* Only a payment that was confirmed gets a tax document, although several runs
\* of apply() may finish for one payment and a row may have failed meanwhile.
InvoicedOnlyIfPaid == \A p \in invoiced : payment[p].status = "paid"

\* What was charged at Cardcom can be applied, or was: "charged without a
\* subscription and without a way back" is what SUPERSEDED was added to prevent.
ChargedStaysClaimable ==
  \A p \in Payments : page[p] = "charged" => payment[p].status \in Claimable \cup {"paid"}

\* A purchase never takes away paid time: it extends the later of now and the
\* period that was already there.
PurchaseAddsPeriod ==
  [][(\E p \in Payments : grants'[p] > grants[p]) =>
       \/ subscription.end = None
       \/ subscription'.end >= subscription.end + Period]_vars
=============================================================================
