--------------------- MODULE SubscriptionCheckoutProofs ---------------------
(***************************************************************************)
(* What holds of the checkout for any number of payments, requests and     *)
(* confirmations: the types, AppliedOnce, PaidStaysPaid and the refinement *)
(* of PaymentSettlement.                                                   *)
(***************************************************************************)
EXTENDS SubscriptionCheckout, FiniteSetTheorems, TLAPS

(***************************************************************************)
(* AppliedOnce is not inductive: the transaction that commits has to have  *)
(* the row to itself, and no other writer may touch a row it has claimed.  *)
(* The invariant says who may be writing a row at each point of the code.  *)
(***************************************************************************)

\* A run works on a row with a page; in its transaction the row is still
\* claimable, and after it the row is paid.
RunsOwnRows ==
  \A h \in Handlers :
    /\ handler[h].pc # "idle" => handler[h].payment \in Payments
    /\ handler[h].pc # "idle" => payment[handler[h].payment].linked
    /\ handler[h].pc = "claim" => handler[h].at \in Nat
    /\ handler[h].pc = "commit" => handler[h].end \in Nat
    /\ handler[h].pc = "commit" => payment[handler[h].payment].status \in Claimable
    /\ handler[h].pc = "invoice" => payment[handler[h].payment].status = "paid"

\* The row lock: two transactions never hold one payment.
OneTransactionPerRow ==
  \A g, h \in Handlers :
    (handler[g].pc = "commit" /\ handler[h].pc = "commit" /\ handler[g].payment = handler[h].payment)
      => g = h

\* A request opening a page works on a row nobody else can name yet.
RequestsOwnRows ==
  \A c \in Checkouts :
    /\ checkout[c].pc = "open" => checkout[c].payment \in Payments
    /\ checkout[c].pc = "open" => ~payment[checkout[c].payment].linked
    /\ checkout[c].pc = "open" => payment[checkout[c].payment].status \in Claimable
    /\ checkout[c].pc = "commit" => checkout[c].end \in Nat

OneRequestPerRow ==
  \A b, c \in Checkouts :
    (checkout[b].pc = "open" /\ checkout[c].pc = "open" /\ checkout[b].payment = checkout[c].payment)
      => b = c

AbsentRowsUnlinked == \A p \in Payments : payment[p].status = "absent" => ~payment[p].linked

IInv ==
  /\ TypeOK
  /\ AppliedOnce
  /\ RunsOwnRows
  /\ OneTransactionPerRow
  /\ RequestsOwnRows
  /\ OneRequestPerRow
  /\ AbsentRowsUnlinked

-----------------------------------------------------------------------------
\* nextPeriodEnd returns a time, whether or not a period was recorded.
LEMMA NextPeriodEndType ==
  ASSUME NEW end \in Nat \cup {None}, NEW at \in Nat
  PROVE  NextPeriodEnd(end, at) \in Nat
BY CheckoutAssumption DEF NextPeriodEnd

\* Writing columns of a request or of a run keeps its type.
LEMMA RequestUpdate ==
  ASSUME NEW r \in Request, NEW pc \in {"open", "commit"},
         NEW p \in Payments \cup {None}, NEW e \in Nat \cup {None}
  PROVE  /\ [r EXCEPT !.pc = pc, !.payment = p] \in Request
         /\ [r EXCEPT !.pc = pc, !.end = e] \in Request
BY DEF Request

LEMMA RunStarts ==
  ASSUME NEW r \in Run, NEW p \in Payments
  PROVE  [r EXCEPT !.pc = "verify", !.payment = p] \in Run
BY DEF Run

LEMMA RunClaims ==
  ASSUME NEW r \in Run, NEW e \in Nat
  PROVE  [r EXCEPT !.pc = "commit", !.at = None, !.end = e] \in Run
BY DEF Run

LEMMA RunCommits ==
  ASSUME NEW r \in Run
  PROVE  [r EXCEPT !.pc = "invoice", !.end = None] \in Run
BY DEF Run

\* The initial states satisfy the inductive invariant.
LEMMA InitIInv == Init => IInv
BY CheckoutAssumption
DEF Init, NoActivity, IInv, TypeOK, AppliedOnce, RunsOwnRows, OneTransactionPerRow, RequestsOwnRows,
    OneRequestPerRow, AbsentRowsUnlinked, Row, Request, Run, AbsentRow, IdleRequest,
    IdleHandler, Coupons

\* startCheckout prices a plan: only the request changes.
LEMMA PricePlanStep ==
  ASSUME IInv, NEW c \in Checkouts, PricePlan(c)
  PROVE  IInv'
<1>1. /\ payment \in [Payments -> Row]
     /\ checkout \in [Checkouts -> Request]
     /\ handler \in [Handlers -> Run]
  BY DEF IInv, TypeOK
<1>2. checkout' \in [Checkouts -> Request]
  <2>1. coupon \in Coupons
    BY DEF IInv, TypeOK
  <2> QED
    BY <1>1, <2>1, CheckoutAssumption DEF Request, PricePlan, Begin, Coupons
<1>3. TypeOK'
  BY <1>1, <1>2 DEF IInv, TypeOK, PricePlan, Begin, rows, tenant
<1>4. RequestsOwnRows'
  BY <1>1 DEF IInv, RunsOwnRows, RequestsOwnRows, OneRequestPerRow, AbsentRowsUnlinked, Row,
     Request, PricePlan, Begin, rows, tenant
<1>5. OneRequestPerRow'
  BY <1>1 DEF IInv, RequestsOwnRows, OneRequestPerRow, AbsentRowsUnlinked, Row, Request, PricePlan,
     Begin, rows, tenant
<1>6. AppliedOnce' /\ RunsOwnRows' /\ OneTransactionPerRow' /\ AbsentRowsUnlinked'
  BY DEF IInv, AppliedOnce, RunsOwnRows, OneTransactionPerRow, AbsentRowsUnlinked, PricePlan, Begin,
     rows, tenant
<1> QED
  BY <1>3, <1>4, <1>5, <1>6 DEF IInv

\* startOfferCheckout prices an offer.
LEMMA PriceOfferStep ==
  ASSUME IInv, NEW c \in Checkouts, PriceOffer(c)
  PROVE  IInv'
<1>1. /\ payment \in [Payments -> Row]
     /\ checkout \in [Checkouts -> Request]
     /\ handler \in [Handlers -> Run]
  BY DEF IInv, TypeOK
<1>2. checkout' \in [Checkouts -> Request]
  BY <1>1 DEF Request, PriceOffer, Begin, Coupons
<1>3. TypeOK'
  BY <1>1, <1>2 DEF IInv, TypeOK, PriceOffer, Begin, rows, tenant
<1>4. RequestsOwnRows'
  BY <1>1 DEF IInv, RunsOwnRows, RequestsOwnRows, OneRequestPerRow, AbsentRowsUnlinked, Row,
     Request, PriceOffer, Begin, rows, tenant
<1>5. OneRequestPerRow'
  BY <1>1 DEF IInv, RequestsOwnRows, OneRequestPerRow, AbsentRowsUnlinked, Row, Request, PriceOffer,
     Begin, rows, tenant
<1>6. AppliedOnce' /\ RunsOwnRows' /\ OneTransactionPerRow' /\ AbsentRowsUnlinked'
  BY DEF IInv, AppliedOnce, RunsOwnRows, OneTransactionPerRow, AbsentRowsUnlinked, PriceOffer,
     Begin, rows, tenant
<1> QED
  BY <1>3, <1>4, <1>5, <1>6 DEF IInv

\* startCreditCheckout prices credits.
LEMMA PriceCreditsStep ==
  ASSUME IInv, NEW c \in Checkouts, PriceCredits(c)
  PROVE  IInv'
<1>1. /\ payment \in [Payments -> Row]
     /\ checkout \in [Checkouts -> Request]
     /\ handler \in [Handlers -> Run]
  BY DEF IInv, TypeOK
<1>2. checkout' \in [Checkouts -> Request]
  BY <1>1 DEF Request, PriceCredits, Begin, Coupons
<1>3. TypeOK'
  BY <1>1, <1>2 DEF IInv, TypeOK, PriceCredits, Begin, rows, tenant
<1>4. RequestsOwnRows'
  BY <1>1 DEF IInv, RunsOwnRows, RequestsOwnRows, OneRequestPerRow, AbsentRowsUnlinked, Row,
     Request, PriceCredits, Begin, rows, tenant
<1>5. OneRequestPerRow'
  BY <1>1 DEF IInv, RequestsOwnRows, OneRequestPerRow, AbsentRowsUnlinked, Row, Request,
     PriceCredits, Begin, rows, tenant
<1>6. AppliedOnce' /\ RunsOwnRows' /\ OneTransactionPerRow' /\ AbsentRowsUnlinked'
  BY DEF IInv, AppliedOnce, RunsOwnRows, OneTransactionPerRow, AbsentRowsUnlinked, PriceCredits,
     Begin, rows, tenant
<1> QED
  BY <1>3, <1>4, <1>5, <1>6 DEF IInv

\* Superseding keeps claimable rows claimable.
LEMMA SupersedeStep ==
  ASSUME IInv, NEW c \in Checkouts, Supersede(c)
  PROVE  IInv'
<1>1. /\ payment \in [Payments -> Row]
     /\ checkout \in [Checkouts -> Request]
     /\ handler \in [Handlers -> Run]
  BY DEF IInv, TypeOK
<1>2. payment' \in [Payments -> Row]
  BY <1>1 DEF IInv, RunsOwnRows, RequestsOwnRows, Row, Request, Run, Supersede, Locked, Claimable
<1>3. checkout' \in [Checkouts -> Request]
  BY <1>1 DEF Request, Supersede, Locked, Claimable, Coupons
<1>4. TypeOK'
  BY <1>1, <1>2, <1>3 DEF IInv, TypeOK, Supersede, Locked, Claimable, rows, tenant
<1>5. AppliedOnce'
  BY <1>1, <1>2 DEF IInv, AppliedOnce, RunsOwnRows, RequestsOwnRows, Row, Supersede, Locked,
     Claimable, rows, tenant
<1>6. RunsOwnRows'
  BY <1>1, <1>2 DEF IInv, RunsOwnRows, OneTransactionPerRow, RequestsOwnRows, AbsentRowsUnlinked,
     Row, Run, Supersede, Locked, Claimable, rows, tenant
<1>7. RequestsOwnRows'
  BY <1>1, <1>2 DEF IInv, RunsOwnRows, RequestsOwnRows, OneRequestPerRow, AbsentRowsUnlinked, Row,
     Request, Supersede, Locked, Claimable, rows, tenant
<1>8. OneRequestPerRow'
  BY <1>1, <1>2 DEF IInv, RequestsOwnRows, OneRequestPerRow, AbsentRowsUnlinked, Row, Request,
     Supersede, Locked, Claimable, rows, tenant
<1>9. AbsentRowsUnlinked'
  BY <1>1, <1>2 DEF IInv, RunsOwnRows, RequestsOwnRows, AbsentRowsUnlinked, Row, Supersede, Locked,
     Claimable, rows, tenant
<1>10. OneTransactionPerRow'
  BY DEF IInv, OneTransactionPerRow, Supersede, Locked, Claimable, rows, tenant
<1> QED
  BY <1>4, <1>5, <1>6, <1>7, <1>8, <1>9, <1>10 DEF IInv

\* A new row was absent, so nobody was working on it.
LEMMA CreateRowStep ==
  ASSUME IInv, NEW c \in Checkouts, CreateRow(c)
  PROVE  IInv'
<1>1. /\ payment \in [Payments -> Row]
     /\ checkout \in [Checkouts -> Request]
     /\ handler \in [Handlers -> Run]
  BY DEF IInv, TypeOK
<1>2. payment' \in [Payments -> Row]
  BY <1>1 DEF IInv, RunsOwnRows, RequestsOwnRows, Row, Request, Run, CreateRow, Claimable
<1>3. checkout' \in [Checkouts -> Request]
  <2>1. PICK p \in Payments : checkout' = [checkout EXCEPT ![c].pc = "open", ![c].payment = p]
    BY DEF CreateRow
  <2>2. ASSUME NEW b \in Checkouts PROVE checkout'[b] \in Request
    <3>1. CASE b = c
      <4>1. checkout'[b] = [checkout[c] EXCEPT !.pc = "open", !.payment = p]
        BY <1>1, <2>1, <3>1
      <4>2. checkout[c] \in Request
        BY <1>1
      <4> QED
        BY <4>1, <4>2, RequestUpdate, Zenon
    <3>2. CASE b # c
      BY <1>1, <2>1, <3>2
    <3> QED
      BY <3>1, <3>2
  <2> QED
    BY <1>1, <2>1, <2>2
<1>4. TypeOK'
  BY <1>1, <1>2, <1>3 DEF IInv, TypeOK, CreateRow, Claimable, rows, tenant
<1>5. AppliedOnce'
  BY <1>1, <1>2 DEF IInv, AppliedOnce, RunsOwnRows, RequestsOwnRows, Row, CreateRow, Claimable,
     rows, tenant
<1>6. RunsOwnRows'
  BY <1>1, <1>2 DEF IInv, RunsOwnRows, OneTransactionPerRow, RequestsOwnRows, AbsentRowsUnlinked,
     Row, Run, CreateRow, Claimable, rows, tenant
<1>7. RequestsOwnRows'
  BY <1>1, <1>2 DEF IInv, RunsOwnRows, RequestsOwnRows, OneRequestPerRow, AbsentRowsUnlinked, Row,
     Request, CreateRow, Claimable, rows, tenant
<1>8. OneRequestPerRow'
  BY <1>1, <1>2 DEF IInv, RequestsOwnRows, OneRequestPerRow, AbsentRowsUnlinked, Row, Request,
     CreateRow, Claimable, rows, tenant
<1>9. AbsentRowsUnlinked'
  BY <1>1, <1>2 DEF IInv, RunsOwnRows, RequestsOwnRows, AbsentRowsUnlinked, Row, CreateRow,
     Claimable, rows, tenant
<1>10. OneTransactionPerRow'
  BY DEF IInv, OneTransactionPerRow, CreateRow, Claimable, rows, tenant
<1> QED
  BY <1>4, <1>5, <1>6, <1>7, <1>8, <1>9, <1>10 DEF IInv

\* The row becomes reachable only when its request is done with it.
LEMMA OpenPageStep ==
  ASSUME IInv, NEW c \in Checkouts, OpenPage(c)
  PROVE  IInv'
<1>1. /\ payment \in [Payments -> Row]
     /\ checkout \in [Checkouts -> Request]
     /\ handler \in [Handlers -> Run]
  BY DEF IInv, TypeOK
<1>2. payment' \in [Payments -> Row]
  <2>1. checkout[c].payment \in Payments
    BY DEF IInv, RequestsOwnRows, OpenPage
  <2> QED
    BY <1>1, <2>1 DEF Row, OpenPage
<1>3. checkout' \in [Checkouts -> Request]
  BY <1>1 DEF Request, OpenPage, IdleRequest, Claimable, Coupons
<1>4. TypeOK'
  BY <1>1, <1>2, <1>3 DEF IInv, TypeOK, OpenPage, IdleRequest, Claimable, rows, tenant
<1>5. AppliedOnce'
  BY <1>1, <1>2 DEF IInv, AppliedOnce, RunsOwnRows, RequestsOwnRows, Row, OpenPage, IdleRequest,
     Claimable, rows, tenant
<1>6. RunsOwnRows'
  BY <1>1, <1>2 DEF IInv, RunsOwnRows, OneTransactionPerRow, RequestsOwnRows, AbsentRowsUnlinked,
     Row, Run, OpenPage, IdleRequest, Claimable, rows, tenant
<1>7. RequestsOwnRows'
  BY <1>1, <1>2 DEF IInv, RunsOwnRows, RequestsOwnRows, OneRequestPerRow, AbsentRowsUnlinked, Row,
     Request, OpenPage, IdleRequest, Claimable, rows, tenant
<1>8. OneRequestPerRow'
  BY <1>1, <1>2 DEF IInv, RequestsOwnRows, OneRequestPerRow, AbsentRowsUnlinked, Row, Request,
     OpenPage, IdleRequest, Claimable, rows, tenant
<1>9. AbsentRowsUnlinked'
  BY <1>1, <1>2 DEF IInv, RunsOwnRows, RequestsOwnRows, AbsentRowsUnlinked, Row, OpenPage,
     IdleRequest, Claimable, rows, tenant
<1>10. OneTransactionPerRow'
  BY DEF IInv, OneTransactionPerRow, OpenPage, IdleRequest, Claimable, rows, tenant
<1> QED
  BY <1>4, <1>5, <1>6, <1>7, <1>8, <1>9, <1>10 DEF IInv

\* The row that fails is unlinked, so no run works on it.
LEMMA OpenPageFailsStep ==
  ASSUME IInv, NEW c \in Checkouts, OpenPageFails(c)
  PROVE  IInv'
<1>1. /\ payment \in [Payments -> Row]
     /\ checkout \in [Checkouts -> Request]
     /\ handler \in [Handlers -> Run]
  BY DEF IInv, TypeOK
<1>2. payment' \in [Payments -> Row]
  BY <1>1 DEF IInv, RunsOwnRows, RequestsOwnRows, Row, Request, Run, OpenPageFails, IdleRequest,
     Claimable
<1>3. checkout' \in [Checkouts -> Request]
  BY <1>1 DEF Request, OpenPageFails, IdleRequest, Claimable, Coupons
<1>4. TypeOK'
  BY <1>1, <1>2, <1>3 DEF IInv, TypeOK, OpenPageFails, IdleRequest, Claimable, rows, tenant
<1>5. AppliedOnce'
  BY <1>1, <1>2 DEF IInv, AppliedOnce, RunsOwnRows, RequestsOwnRows, Row, OpenPageFails,
     IdleRequest, Claimable, rows, tenant
<1>6. RunsOwnRows'
  BY <1>1, <1>2 DEF IInv, RunsOwnRows, OneTransactionPerRow, RequestsOwnRows, AbsentRowsUnlinked,
     Row, Run, OpenPageFails, IdleRequest, Claimable, rows, tenant
<1>7. RequestsOwnRows'
  BY <1>1, <1>2 DEF IInv, RunsOwnRows, RequestsOwnRows, OneRequestPerRow, AbsentRowsUnlinked, Row,
     Request, OpenPageFails, IdleRequest, Claimable, rows, tenant
<1>8. OneRequestPerRow'
  BY <1>1, <1>2 DEF IInv, RequestsOwnRows, OneRequestPerRow, AbsentRowsUnlinked, Row, Request,
     OpenPageFails, IdleRequest, Claimable, rows, tenant
<1>9. AbsentRowsUnlinked'
  BY <1>1, <1>2 DEF IInv, RunsOwnRows, RequestsOwnRows, AbsentRowsUnlinked, Row, OpenPageFails,
     IdleRequest, Claimable, rows, tenant
<1>10. OneTransactionPerRow'
  BY DEF IInv, OneTransactionPerRow, OpenPageFails, IdleRequest, Claimable, rows, tenant
<1> QED
  BY <1>4, <1>5, <1>6, <1>7, <1>8, <1>9, <1>10 DEF IInv

\* A crash leaves the tables alone.
LEMMA CrashRequestStep ==
  ASSUME IInv, NEW c \in Checkouts, CrashRequest(c)
  PROVE  IInv'
<1>1. /\ payment \in [Payments -> Row]
     /\ checkout \in [Checkouts -> Request]
     /\ handler \in [Handlers -> Run]
  BY DEF IInv, TypeOK
<1>2. checkout' \in [Checkouts -> Request]
  BY <1>1 DEF Request, CrashRequest, IdleRequest, Coupons
<1>3. TypeOK'
  BY <1>1, <1>2 DEF IInv, TypeOK, CrashRequest, IdleRequest, rows, tenant
<1>4. RequestsOwnRows'
  BY <1>1 DEF IInv, RunsOwnRows, RequestsOwnRows, OneRequestPerRow, AbsentRowsUnlinked, Row,
     Request, CrashRequest, IdleRequest, rows, tenant
<1>5. OneRequestPerRow'
  BY <1>1 DEF IInv, RequestsOwnRows, OneRequestPerRow, AbsentRowsUnlinked, Row, Request,
     CrashRequest, IdleRequest, rows, tenant
<1>6. AppliedOnce' /\ RunsOwnRows' /\ OneTransactionPerRow' /\ AbsentRowsUnlinked'
  BY DEF IInv, AppliedOnce, RunsOwnRows, OneTransactionPerRow, AbsentRowsUnlinked, CrashRequest,
     IdleRequest, rows, tenant
<1> QED
  BY <1>3, <1>4, <1>5, <1>6 DEF IInv

\* The free activation reads the period.
LEMMA ReadForFreeStep ==
  ASSUME IInv, NEW c \in Checkouts, ReadForFree(c)
  PROVE  IInv'
<1>1. /\ payment \in [Payments -> Row]
     /\ checkout \in [Checkouts -> Request]
     /\ handler \in [Handlers -> Run]
  BY DEF IInv, TypeOK
<1>2. checkout' \in [Checkouts -> Request]
  <2>1. NextPeriodEnd(subscription.end, now) \in Nat
    BY NextPeriodEndType DEF IInv, TypeOK, RunsOwnRows, ReadForFree
  <2>2. PICK e \in Nat : checkout' = [checkout EXCEPT ![c].pc = "commit", ![c].end = e]
    BY <2>1 DEF ReadForFree
  <2>3. ASSUME NEW b \in Checkouts PROVE checkout'[b] \in Request
    <3>1. CASE b = c
      <4>1. checkout'[b] = [checkout[c] EXCEPT !.pc = "commit", !.end = e]
        BY <1>1, <2>2, <3>1
      <4>2. checkout[c] \in Request
        BY <1>1
      <4> QED
        BY <4>1, <4>2, RequestUpdate, Zenon
    <3>2. CASE b # c
      BY <1>1, <2>2, <3>2
    <3> QED
      BY <3>1, <3>2
  <2> QED
    BY <1>1, <2>2, <2>3
<1>3. TypeOK'
  BY <1>1, <1>2 DEF IInv, TypeOK, ReadForFree, rows, tenant
<1>4. RequestsOwnRows'
  BY <1>1, CheckoutAssumption, NextPeriodEndType DEF IInv, TypeOK, RunsOwnRows, RequestsOwnRows,
     OneRequestPerRow, AbsentRowsUnlinked, Row, Request, ReadForFree, rows, tenant
<1>5. OneRequestPerRow'
  BY <1>1 DEF IInv, TypeOK, RequestsOwnRows, OneRequestPerRow, AbsentRowsUnlinked, Row, Request,
     ReadForFree, rows, tenant
<1>6. AppliedOnce' /\ RunsOwnRows' /\ OneTransactionPerRow' /\ AbsentRowsUnlinked'
  BY DEF IInv, AppliedOnce, RunsOwnRows, OneTransactionPerRow, AbsentRowsUnlinked, ReadForFree,
     rows, tenant
<1> QED
  BY <1>3, <1>4, <1>5, <1>6 DEF IInv

\* The free activation creates a paid row nobody knew.
LEMMA ActivateFreeStep ==
  ASSUME IInv, NEW c \in Checkouts, ActivateFree(c)
  PROVE  IInv'
<1>1. /\ payment \in [Payments -> Row]
     /\ checkout \in [Checkouts -> Request]
     /\ handler \in [Handlers -> Run]
  BY DEF IInv, TypeOK
<1>2. payment' \in [Payments -> Row]
  BY <1>1 DEF IInv, RunsOwnRows, RequestsOwnRows, Row, Request, Run, ActivateFree, Activate,
     AccessUntil, IdleRequest, Claimable, Coupons
<1>3. checkout' \in [Checkouts -> Request]
  BY <1>1 DEF Request, ActivateFree, Activate, AccessUntil, IdleRequest, Claimable, Coupons
<1>4. /\ subscription' \in [status : {"trial", "active", "cancelled"}, plan : {"trial", "paid", "free"},
                          end : Nat \cup {None}, card : BOOLEAN]
     /\ paidUntil' \in Nat \cup {None}
     /\ coupon' \in Coupons
     /\ redemptions' \in Nat
     /\ benefits' \in SUBSET Payments
     /\ ledger' \in [Payments -> Nat]
     /\ grants' \in [Payments -> Nat]
  <2>1. checkout[c].end \in Nat /\ AccessUntil(checkout[c].end) \in Nat
    BY CheckoutAssumption DEF IInv, RequestsOwnRows, AccessUntil, ActivateFree
  <2> QED
    BY <2>1 DEF IInv, TypeOK, ActivateFree, Activate, Coupons
<1>5. TypeOK'
  BY <1>1, <1>2, <1>3, <1>4 DEF IInv, TypeOK, ActivateFree
<1>6. AppliedOnce'
  BY <1>1, <1>2, <1>5 DEF IInv, TypeOK, AppliedOnce, RunsOwnRows, RequestsOwnRows, Row,
     ActivateFree, Activate, AccessUntil, IdleRequest, Claimable, Coupons, rows, tenant
<1>7. RunsOwnRows'
  BY <1>1, <1>2 DEF IInv, TypeOK, RunsOwnRows, OneTransactionPerRow, RequestsOwnRows,
     AbsentRowsUnlinked, Row, Run, ActivateFree, Activate, AccessUntil, IdleRequest, Claimable,
     Coupons, rows, tenant
<1>8. RequestsOwnRows'
  BY <1>1, <1>2 DEF IInv, TypeOK, RunsOwnRows, RequestsOwnRows, OneRequestPerRow,
     AbsentRowsUnlinked, Row, Request, ActivateFree, Activate, AccessUntil, IdleRequest, Claimable,
     Coupons, rows, tenant
<1>9. OneRequestPerRow'
  BY <1>1, <1>2 DEF IInv, TypeOK, RequestsOwnRows, OneRequestPerRow, AbsentRowsUnlinked, Row,
     Request, ActivateFree, Activate, AccessUntil, IdleRequest, Claimable, Coupons, rows, tenant
<1>10. AbsentRowsUnlinked'
  BY <1>1, <1>2 DEF IInv, TypeOK, RunsOwnRows, RequestsOwnRows, AbsentRowsUnlinked, Row,
     ActivateFree, Activate, AccessUntil, IdleRequest, Claimable, Coupons, rows, tenant
<1>11. OneTransactionPerRow'
  BY DEF IInv, OneTransactionPerRow, ActivateFree, Activate, AccessUntil, IdleRequest, Claimable,
     Coupons, rows, tenant
<1> QED
  BY <1>5, <1>6, <1>7, <1>8, <1>9, <1>10, <1>11 DEF IInv

\* A webhook starts a run on a linked row.
LEMMA WebhookStep ==
  ASSUME IInv, NEW h \in Handlers, NEW p \in Payments, Webhook(h, p)
  PROVE  IInv'
<1>1. /\ payment \in [Payments -> Row]
     /\ checkout \in [Checkouts -> Request]
     /\ handler \in [Handlers -> Run]
  BY DEF IInv, TypeOK
<1>2. handler' \in [Handlers -> Run]
  <2>1. ASSUME NEW g \in Handlers PROVE handler'[g] \in Run
    <3>1. CASE g = h
      <4>1. handler'[g] = [handler[h] EXCEPT !.pc = "verify", !.payment = p]
        BY <1>1, <3>1 DEF Webhook, Start
      <4>2. handler[h] \in Run
        BY <1>1
      <4> QED
        BY <4>1, <4>2, RunStarts, Zenon
    <3>2. CASE g # h
      BY <1>1, <3>2 DEF Webhook, Start
    <3> QED
      BY <3>1, <3>2
  <2> QED
    BY <1>1, <2>1 DEF Webhook, Start
<1>3. TypeOK'
  BY <1>1, <1>2 DEF IInv, TypeOK, Webhook, Start, rows, tenant
<1>4. RunsOwnRows'
  BY <1>1 DEF IInv, RunsOwnRows, OneTransactionPerRow, RequestsOwnRows, AbsentRowsUnlinked, Row,
     Run, Webhook, Start, rows, tenant
<1>5. OneTransactionPerRow'
  BY <1>1 DEF IInv, OneTransactionPerRow, Run, Webhook, Start, rows, tenant
<1>6. AppliedOnce' /\ RequestsOwnRows' /\ OneRequestPerRow' /\ AbsentRowsUnlinked'
  BY DEF IInv, AppliedOnce, RequestsOwnRows, OneRequestPerRow, AbsentRowsUnlinked, Webhook, Start,
     rows, tenant
<1> QED
  BY <1>3, <1>4, <1>5, <1>6 DEF IInv

\* A poll starts a run on a linked row.
LEMMA PollReturnPageStep ==
  ASSUME IInv, NEW h \in Handlers, NEW p \in Payments, PollReturnPage(h, p)
  PROVE  IInv'
<1>1. /\ payment \in [Payments -> Row]
     /\ checkout \in [Checkouts -> Request]
     /\ handler \in [Handlers -> Run]
  BY DEF IInv, TypeOK
<1>2. handler' \in [Handlers -> Run]
  <2>1. ASSUME NEW g \in Handlers PROVE handler'[g] \in Run
    <3>1. CASE g = h
      <4>1. handler'[g] = [handler[h] EXCEPT !.pc = "verify", !.payment = p]
        BY <1>1, <3>1 DEF PollReturnPage, Start
      <4>2. handler[h] \in Run
        BY <1>1
      <4> QED
        BY <4>1, <4>2, RunStarts, Zenon
    <3>2. CASE g # h
      BY <1>1, <3>2 DEF PollReturnPage, Start
    <3> QED
      BY <3>1, <3>2
  <2> QED
    BY <1>1, <2>1 DEF PollReturnPage, Start
<1>3. TypeOK'
  BY <1>1, <1>2 DEF IInv, TypeOK, PollReturnPage, Start, rows, tenant
<1>4. RunsOwnRows'
  BY <1>1 DEF IInv, RunsOwnRows, OneTransactionPerRow, RequestsOwnRows, AbsentRowsUnlinked, Row,
     Run, PollReturnPage, Start, rows, tenant
<1>5. OneTransactionPerRow'
  BY <1>1 DEF IInv, OneTransactionPerRow, Run, PollReturnPage, Start, rows, tenant
<1>6. AppliedOnce' /\ RequestsOwnRows' /\ OneRequestPerRow' /\ AbsentRowsUnlinked'
  BY DEF IInv, AppliedOnce, RequestsOwnRows, OneRequestPerRow, AbsentRowsUnlinked, PollReturnPage,
     Start, rows, tenant
<1> QED
  BY <1>3, <1>4, <1>5, <1>6 DEF IInv

\* Verifying changes no table.
LEMMA VerifyStep ==
  ASSUME IInv, NEW h \in Handlers, Verify(h)
  PROVE  IInv'
<1>1. /\ payment \in [Payments -> Row]
     /\ checkout \in [Checkouts -> Request]
     /\ handler \in [Handlers -> Run]
  BY DEF IInv, TypeOK
<1>2. handler' \in [Handlers -> Run]
  BY <1>1 DEF Run, Verify
<1>3. TypeOK'
  BY <1>1, <1>2 DEF IInv, TypeOK, Verify, rows, tenant
<1>4. RunsOwnRows'
  BY <1>1 DEF IInv, RunsOwnRows, OneTransactionPerRow, RequestsOwnRows, AbsentRowsUnlinked, Row,
     Run, Verify, rows, tenant
<1>5. OneTransactionPerRow'
  BY <1>1 DEF IInv, OneTransactionPerRow, Run, Verify, rows, tenant
<1>6. AppliedOnce' /\ RequestsOwnRows' /\ OneRequestPerRow' /\ AbsentRowsUnlinked'
  BY DEF IInv, AppliedOnce, RequestsOwnRows, OneRequestPerRow, AbsentRowsUnlinked, Verify, rows,
     tenant
<1> QED
  BY <1>3, <1>4, <1>5, <1>6 DEF IInv

\* Loading changes no table, and keeps the time.
LEMMA LoadStep ==
  ASSUME IInv, NEW h \in Handlers, Load(h)
  PROVE  IInv'
<1>1. /\ payment \in [Payments -> Row]
     /\ checkout \in [Checkouts -> Request]
     /\ handler \in [Handlers -> Run]
  BY DEF IInv, TypeOK
<1>2. handler' \in [Handlers -> Run]
  <2>1. now \in Nat
    BY DEF IInv, TypeOK
  <2> QED
    BY <1>1, <2>1 DEF Run, Load, IdleHandler
<1>3. TypeOK'
  BY <1>1, <1>2 DEF IInv, TypeOK, Load, IdleHandler, rows, tenant
<1>4. RunsOwnRows'
  <2> SUFFICES ASSUME NEW g \in Handlers PROVE RunsOwnRows!(g)'
    BY DEF RunsOwnRows
  <2>1. payment' = payment /\ now \in Nat
    BY DEF IInv, TypeOK, Load, rows
  <2>2. CASE g = h
    BY <1>1, <2>1, <2>2 DEF IInv, RunsOwnRows, Run, Load, IdleHandler
  <2>3. CASE g # h
    BY <1>1, <2>1, <2>3 DEF IInv, RunsOwnRows, Load
  <2> QED
    BY <2>2, <2>3
<1>5. OneTransactionPerRow'
  BY <1>1 DEF IInv, TypeOK, OneTransactionPerRow, Run, Load, IdleHandler, rows, tenant
<1>6. AppliedOnce' /\ RequestsOwnRows' /\ OneRequestPerRow' /\ AbsentRowsUnlinked'
  BY DEF IInv, AppliedOnce, RequestsOwnRows, OneRequestPerRow, AbsentRowsUnlinked, Load,
     IdleHandler, rows, tenant
<1> QED
  BY <1>3, <1>4, <1>5, <1>6 DEF IInv

\* A rejection writes neither a locked row nor a paid one.
LEMMA RejectStep ==
  ASSUME IInv, NEW h \in Handlers, Reject(h)
  PROVE  IInv'
<1>1. /\ payment \in [Payments -> Row]
     /\ checkout \in [Checkouts -> Request]
     /\ handler \in [Handlers -> Run]
  BY DEF IInv, TypeOK
<1>2. payment' \in [Payments -> Row]
  <2>1. handler[h].payment \in Payments
    BY DEF IInv, RunsOwnRows, Reject
  <2> QED
    BY <1>1, <2>1 DEF Row, Reject
<1>3. handler' \in [Handlers -> Run]
  BY <1>1 DEF Run, Reject, Locked, IdleHandler, Claimable
<1>4. TypeOK'
  BY <1>1, <1>2, <1>3 DEF IInv, TypeOK, Reject, Locked, IdleHandler, Claimable, rows, tenant
<1>5. AppliedOnce'
  BY <1>1, <1>2 DEF IInv, AppliedOnce, RunsOwnRows, RequestsOwnRows, Row, Reject, Locked,
     IdleHandler, Claimable, rows, tenant
<1>6. RunsOwnRows'
  BY <1>1, <1>2 DEF IInv, RunsOwnRows, OneTransactionPerRow, RequestsOwnRows, AbsentRowsUnlinked,
     Row, Run, Reject, Locked, IdleHandler, Claimable, rows, tenant
<1>7. OneTransactionPerRow'
  BY <1>1, <1>2 DEF IInv, OneTransactionPerRow, Run, Reject, Locked, IdleHandler, Claimable, rows,
     tenant
<1>8. RequestsOwnRows'
  BY <1>1, <1>2 DEF IInv, RunsOwnRows, RequestsOwnRows, OneRequestPerRow, AbsentRowsUnlinked, Row,
     Request, Reject, Locked, IdleHandler, Claimable, rows, tenant
<1>9. AbsentRowsUnlinked'
  BY <1>1, <1>2 DEF IInv, RunsOwnRows, RequestsOwnRows, AbsentRowsUnlinked, Row, Reject, Locked,
     IdleHandler, Claimable, rows, tenant
<1>10. OneRequestPerRow'
  BY DEF IInv, OneRequestPerRow, Reject, Locked, IdleHandler, Claimable, rows, tenant
<1> QED
  BY <1>4, <1>5, <1>6, <1>7, <1>8, <1>9, <1>10 DEF IInv

\* A lost claim ends the run.
LEMMA ClaimLostStep ==
  ASSUME IInv, NEW h \in Handlers, ClaimLost(h)
  PROVE  IInv'
<1>1. /\ payment \in [Payments -> Row]
     /\ checkout \in [Checkouts -> Request]
     /\ handler \in [Handlers -> Run]
  BY DEF IInv, TypeOK
<1>2. handler' \in [Handlers -> Run]
  BY <1>1 DEF Run, ClaimLost, IdleHandler
<1>3. TypeOK'
  BY <1>1, <1>2 DEF IInv, TypeOK, ClaimLost, IdleHandler, rows, tenant
<1>4. RunsOwnRows'
  BY <1>1 DEF IInv, RunsOwnRows, OneTransactionPerRow, RequestsOwnRows, AbsentRowsUnlinked, Row,
     Run, ClaimLost, IdleHandler, rows, tenant
<1>5. OneTransactionPerRow'
  BY <1>1 DEF IInv, OneTransactionPerRow, Run, ClaimLost, IdleHandler, rows, tenant
<1>6. AppliedOnce' /\ RequestsOwnRows' /\ OneRequestPerRow' /\ AbsentRowsUnlinked'
  BY DEF IInv, AppliedOnce, RequestsOwnRows, OneRequestPerRow, AbsentRowsUnlinked, ClaimLost,
     IdleHandler, rows, tenant
<1> QED
  BY <1>3, <1>4, <1>5, <1>6 DEF IInv

\* A claim takes the lock of a claimable row.
LEMMA ClaimStep ==
  ASSUME IInv, NEW h \in Handlers, Claim(h)
  PROVE  IInv'
<1>1. /\ payment \in [Payments -> Row]
     /\ checkout \in [Checkouts -> Request]
     /\ handler \in [Handlers -> Run]
  BY DEF IInv, TypeOK
<1>2. handler' \in [Handlers -> Run]
  <2>1. NextPeriodEnd(subscription.end, handler[h].at) \in Nat
    BY NextPeriodEndType DEF IInv, TypeOK, RunsOwnRows, Claim
  <2>2. PICK e \in Nat : handler' = [handler EXCEPT ![h].pc = "commit", ![h].at = None, ![h].end = e]
    BY <2>1 DEF Claim
  <2>3. ASSUME NEW g \in Handlers PROVE handler'[g] \in Run
    <3>1. CASE g = h
      <4>1. handler'[g] = [handler[h] EXCEPT !.pc = "commit", !.at = None, !.end = e]
        BY <1>1, <2>2, <3>1
      <4>2. handler[h] \in Run
        BY <1>1
      <4> QED
        BY <4>1, <4>2, RunClaims, Zenon
    <3>2. CASE g # h
      BY <1>1, <2>2, <3>2
    <3> QED
      BY <3>1, <3>2
  <2> QED
    BY <1>1, <2>2, <2>3 DEF Claim
<1>3. TypeOK'
  BY <1>1, <1>2 DEF IInv, TypeOK, Claim, Locked, rows, tenant
<1>4. RunsOwnRows'
  <2> SUFFICES ASSUME NEW g \in Handlers PROVE RunsOwnRows!(g)'
    BY DEF RunsOwnRows
  <2>1. payment' = payment
    BY DEF Claim, rows
  <2>2. NextPeriodEnd(subscription.end, handler[h].at) \in Nat
    BY NextPeriodEndType DEF IInv, TypeOK, RunsOwnRows, Claim
  <2>3. CASE g = h
    BY <1>1, <2>1, <2>2, <2>3 DEF IInv, RunsOwnRows, Run, Claim
  <2>4. CASE g # h
    BY <1>1, <2>1, <2>4 DEF IInv, RunsOwnRows, Claim
  <2> QED
    BY <2>3, <2>4
<1>5. OneTransactionPerRow'
  BY <1>1 DEF IInv, TypeOK, OneTransactionPerRow, Run, Claim, Locked, rows, tenant
<1>6. AppliedOnce' /\ RequestsOwnRows' /\ OneRequestPerRow' /\ AbsentRowsUnlinked'
  BY DEF IInv, AppliedOnce, RequestsOwnRows, OneRequestPerRow, AbsentRowsUnlinked, Claim, Locked,
     rows, tenant
<1> QED
  BY <1>3, <1>4, <1>5, <1>6 DEF IInv

\* The commit settles the row it holds the lock of, and gives once.
LEMMA CommitStep ==
  ASSUME IInv, NEW h \in Handlers, Commit(h)
  PROVE  IInv'
<1>1. /\ payment \in [Payments -> Row]
     /\ checkout \in [Checkouts -> Request]
     /\ handler \in [Handlers -> Run]
  BY DEF IInv, TypeOK
<1>2. payment' \in [Payments -> Row]
  BY <1>1 DEF IInv, RunsOwnRows, RequestsOwnRows, Row, Request, Run, Commit, CommitCredits,
     CommitPlan, CommitOffer, Activate, RedeemOffer, AccessUntil, Claimable, Coupons
<1>3. handler' \in [Handlers -> Run]
  <2>1. handler' = [handler EXCEPT ![h].pc = "invoice", ![h].end = None]
    BY DEF Commit
  <2>2. ASSUME NEW g \in Handlers PROVE handler'[g] \in Run
    <3>1. CASE g = h
      <4>1. handler'[g] = [handler[h] EXCEPT !.pc = "invoice", !.end = None]
        BY <1>1, <2>1, <3>1
      <4>2. handler[h] \in Run
        BY <1>1
      <4> QED
        BY <4>1, <4>2, RunCommits, Zenon
    <3>2. CASE g # h
      BY <1>1, <2>1, <3>2
    <3> QED
      BY <3>1, <3>2
  <2> QED
    BY <1>1, <2>1, <2>2
<1>4. /\ subscription' \in [status : {"trial", "active", "cancelled"}, plan : {"trial", "paid", "free"},
                          end : Nat \cup {None}, card : BOOLEAN]
     /\ paidUntil' \in Nat \cup {None}
     /\ coupon' \in Coupons
     /\ redemptions' \in Nat
     /\ benefits' \in SUBSET Payments
     /\ ledger' \in [Payments -> Nat]
     /\ grants' \in [Payments -> Nat]
  <2>1. /\ handler[h].end \in Nat
        /\ AccessUntil(handler[h].end) \in Nat
        /\ handler[h].payment \in Payments
    BY CheckoutAssumption DEF IInv, RunsOwnRows, AccessUntil, Commit
  <2> DEFINE p == handler[h].payment
             end == handler[h].end
  <2>2. CASE CommitCredits(p)
    BY <2>1, <2>2 DEF IInv, TypeOK, CommitCredits
  <2>3. CASE CommitPlan(p, end)
    BY <2>1, <2>3 DEF IInv, TypeOK, CommitPlan, Activate, Coupons
  <2>4. CASE CommitOffer(p, end)
    BY <2>1, <2>4 DEF IInv, TypeOK, CommitOffer, Activate, RedeemOffer, Coupons
  <2> QED
    BY <2>2, <2>3, <2>4 DEF Commit
<1>5. TypeOK'
  <2>1. now' = now /\ page' = page /\ invoiced' = invoiced /\ checkout' = checkout
    BY DEF Commit
  <2> QED
    BY <1>1, <1>2, <1>3, <1>4, <2>1 DEF IInv, TypeOK
<1>6. AppliedOnce'
  <2> DEFINE p == handler[h].payment
  <2>1. /\ p \in Payments
        /\ payment[p].status # "paid"
        /\ payment' = [payment EXCEPT ![p].status = "paid"]
    BY DEF IInv, RunsOwnRows, Claimable, Commit
  <2>2. \/ grants' = [grants EXCEPT ![p] = grants[p] + 1] /\ ledger' = ledger
        \/ ledger' = [ledger EXCEPT ![p] = ledger[p] + 1] /\ grants' = grants
    BY DEF Commit, CommitCredits, CommitPlan, CommitOffer, Activate
  <2>3. /\ grants \in [Payments -> Nat]
        /\ ledger \in [Payments -> Nat]
    BY DEF IInv, TypeOK
  <2>4. ASSUME NEW q \in Payments
        PROVE  grants'[q] + ledger'[q] = IF payment'[q].status = "paid" THEN 1 ELSE 0
    <3>1. CASE q = p
      <4>1. payment'[q].status = "paid"
        BY <1>1, <2>1, <3>1 DEF Row
      <4>2. grants[q] + ledger[q] = 0
        BY <2>1, <3>1 DEF IInv, AppliedOnce
      <4>3. grants'[q] + ledger'[q] = grants[q] + ledger[q] + 1
        BY <2>1, <2>2, <2>3, <3>1
      <4> QED
        BY <4>1, <4>2, <4>3
    <3>2. CASE q # p
      BY <1>1, <2>1, <2>2, <2>3, <3>2 DEF IInv, AppliedOnce, Row
    <3> QED
      BY <3>1, <3>2
  <2> QED
    BY <2>4 DEF AppliedOnce
<1>7. /\ handler[h].pc = "commit"
      /\ handler[h].payment \in Payments
      /\ payment[handler[h].payment].status \in Claimable
      /\ payment' = [payment EXCEPT ![handler[h].payment].status = "paid"]
      /\ handler' = [handler EXCEPT ![h].pc = "invoice", ![h].end = None]
      /\ checkout' = checkout
  BY DEF IInv, RunsOwnRows, Commit
<1>8. RunsOwnRows'
  <2> SUFFICES ASSUME NEW g \in Handlers PROVE RunsOwnRows!(g)'
    BY DEF RunsOwnRows
  <2> QED
    BY <1>1, <1>7 DEF IInv, RunsOwnRows, OneTransactionPerRow, Row, Run, Claimable
<1>9. OneTransactionPerRow'
  BY <1>1, <1>7 DEF IInv, OneTransactionPerRow, Run
<1>10. RequestsOwnRows'
  BY <1>1, <1>7 DEF IInv, RunsOwnRows, RequestsOwnRows, Row, Request, Claimable
<1>11. AbsentRowsUnlinked'
  BY <1>1, <1>7 DEF IInv, AbsentRowsUnlinked, Row
<1>12. OneRequestPerRow'
  BY <1>7 DEF IInv, OneRequestPerRow
<1> QED
  BY <1>5, <1>6, <1>8, <1>9, <1>10, <1>11, <1>12 DEF IInv

\* The invoice is queued after the commit.
LEMMA QueueInvoiceStep ==
  ASSUME IInv, NEW h \in Handlers, QueueInvoice(h)
  PROVE  IInv'
<1>1. /\ payment \in [Payments -> Row]
     /\ checkout \in [Checkouts -> Request]
     /\ handler \in [Handlers -> Run]
  BY DEF IInv, TypeOK
<1>2. handler' \in [Handlers -> Run]
  BY <1>1 DEF Run, QueueInvoice, IdleHandler
<1>3. TypeOK'
  BY <1>1, <1>2 DEF IInv, TypeOK, RunsOwnRows, QueueInvoice, IdleHandler, rows, tenant
<1>4. RunsOwnRows'
  BY <1>1 DEF IInv, RunsOwnRows, OneTransactionPerRow, RequestsOwnRows, AbsentRowsUnlinked, Row,
     Run, QueueInvoice, IdleHandler, rows, tenant
<1>5. OneTransactionPerRow'
  BY <1>1 DEF IInv, OneTransactionPerRow, Run, QueueInvoice, IdleHandler, rows, tenant
<1>6. AppliedOnce' /\ RequestsOwnRows' /\ OneRequestPerRow' /\ AbsentRowsUnlinked'
  BY DEF IInv, AppliedOnce, RequestsOwnRows, OneRequestPerRow, AbsentRowsUnlinked, QueueInvoice,
     IdleHandler, rows, tenant
<1> QED
  BY <1>3, <1>4, <1>5, <1>6 DEF IInv

\* A run that dies leaves the tables alone.
LEMMA AbandonStep ==
  ASSUME IInv, NEW h \in Handlers, Abandon(h)
  PROVE  IInv'
<1>1. /\ payment \in [Payments -> Row]
     /\ checkout \in [Checkouts -> Request]
     /\ handler \in [Handlers -> Run]
  BY DEF IInv, TypeOK
<1>2. handler' \in [Handlers -> Run]
  BY <1>1 DEF Run, Abandon, IdleHandler
<1>3. TypeOK'
  BY <1>1, <1>2 DEF IInv, TypeOK, Abandon, IdleHandler, rows, tenant
<1>4. RunsOwnRows'
  BY <1>1 DEF IInv, RunsOwnRows, OneTransactionPerRow, RequestsOwnRows, AbsentRowsUnlinked, Row,
     Run, Abandon, IdleHandler, rows, tenant
<1>5. OneTransactionPerRow'
  BY <1>1 DEF IInv, OneTransactionPerRow, Run, Abandon, IdleHandler, rows, tenant
<1>6. AppliedOnce' /\ RequestsOwnRows' /\ OneRequestPerRow' /\ AbsentRowsUnlinked'
  BY DEF IInv, AppliedOnce, RequestsOwnRows, OneRequestPerRow, AbsentRowsUnlinked, Abandon,
     IdleHandler, rows, tenant
<1> QED
  BY <1>3, <1>4, <1>5, <1>6 DEF IInv

\* The other steps write no row of payments, credits or periods.
LEMMA EnvironmentStep ==
  ASSUME IInv,
         \/ \E p \in Payments : Pay(p) \/ Decline(p)
         \/ OtherOfficeRedeems \/ Cancel \/ SwitchToFree \/ Tick \/ UNCHANGED vars
  PROVE  IInv'
<1>1. TypeOK'
  <2>1. ASSUME NEW p \in Payments, Pay(p) \/ Decline(p) PROVE TypeOK'
    BY <2>1 DEF IInv, TypeOK, Pay, Decline, rows, tenant
  <2>2. CASE OtherOfficeRedeems
    BY <2>2 DEF IInv, TypeOK, OtherOfficeRedeems, rows, tenant
  <2>3. CASE Cancel
    BY <2>3 DEF IInv, TypeOK, Cancel, rows, tenant
  <2>4. CASE SwitchToFree
    BY <2>4 DEF IInv, TypeOK, SwitchToFree, rows, tenant
  <2>5. CASE Tick \/ UNCHANGED vars
    BY <2>5, CheckoutAssumption DEF IInv, TypeOK, Tick, vars, rows, tenant
  <2> QED
    BY <2>1, <2>2, <2>3, <2>4, <2>5
<1>2. /\ AppliedOnce' /\ RunsOwnRows' /\ OneTransactionPerRow' /\ RequestsOwnRows' /\ OneRequestPerRow'
     /\ AbsentRowsUnlinked'
  BY DEF IInv, AppliedOnce, RunsOwnRows, OneTransactionPerRow, RequestsOwnRows, OneRequestPerRow,
     AbsentRowsUnlinked, Pay, Decline, OtherOfficeRedeems, Cancel, SwitchToFree, Tick, vars, rows, tenant
<1> QED
  BY <1>1, <1>2 DEF IInv

\* Every step of the checkout keeps the inductive invariant.
LEMMA NextIInv == IInv /\ [Next]_vars => IInv'
BY EnvironmentStep, PricePlanStep, PriceOfferStep, PriceCreditsStep, SupersedeStep, CreateRowStep,
   OpenPageStep, OpenPageFailsStep, CrashRequestStep, ReadForFreeStep, ActivateFreeStep,
   WebhookStep, PollReturnPageStep, VerifyStep, LoadStep, RejectStep, ClaimLostStep, ClaimStep,
   CommitStep, QueueInvoiceStep, AbandonStep
DEF Next, OpenStep, ApplyStep

THEOREM InductiveInvariant == Spec => []IInv
<1> QED
  BY InitIInv, NextIInv, PTL DEF Spec

-----------------------------------------------------------------------------
\* Every variable keeps to its table's columns, at every step of the checkout.
THEOREM TypeCorrect == Spec => []TypeOK
BY InductiveInvariant, PTL DEF IInv

\* For any number of payments and concurrent confirmations, a paid payment has
\* given exactly once and an unpaid one nothing (billing.service.ts, apply).
THEOREM AppliedExactlyOnce == Spec => []AppliedOnce
BY InductiveInvariant, PTL DEF IInv

-----------------------------------------------------------------------------
(***************************************************************************)
(* The set of paid payments grows by one payment at a time.  With          *)
(* AppliedOnce in both states, what was delivered is a function of that    *)
(* set, so every step that settles a payment is a Settle of the abstract   *)
(* specification, and every other step stutters.                           *)
(***************************************************************************)
Paid == {p \in Payments : payment[p].status = "paid"}

Given == [p \in Payments |-> grants[p] + ledger[p]]

\* A commit and a free activation settle one payment; nothing else does.
LEMMA PaidStep ==
  ASSUME IInv, [Next]_vars
  PROVE  Paid' = Paid \/ \E p \in Payments \ Paid : Paid' = Paid \cup {p}
<1> USE DEF IInv, TypeOK, Paid
<1>1. ASSUME NEW c \in Checkouts,
             PricePlan(c) \/ PriceOffer(c) \/ PriceCredits(c) \/ CrashRequest(c) \/ ReadForFree(c)
      PROVE  Paid' = Paid
  BY <1>1 DEF PricePlan, PriceOffer, PriceCredits, Begin, CrashRequest, ReadForFree, rows
<1>2. ASSUME NEW c \in Checkouts, Supersede(c) PROVE Paid' = Paid
  BY <1>2 DEF Supersede
<1>3. ASSUME NEW c \in Checkouts, CreateRow(c) PROVE Paid' = Paid
  BY <1>3 DEF CreateRow, Row
<1>4. ASSUME NEW c \in Checkouts, OpenPage(c) \/ OpenPageFails(c) PROVE Paid' = Paid
  <2> DEFINE q == checkout[c].payment
  <2>1. /\ q \in Payments
        /\ payment[q].status \in Claimable
        /\ \/ payment' = [payment EXCEPT ![q].linked = TRUE]
           \/ payment' = [payment EXCEPT ![q].status = "failed"]
    BY <1>4 DEF OpenPage, OpenPageFails, RequestsOwnRows
  <2>2. CASE payment' = [payment EXCEPT ![q].linked = TRUE]
    BY <2>1, <2>2 DEF Row
  <2>3. CASE payment' = [payment EXCEPT ![q].status = "failed"]
    BY <2>1, <2>3 DEF Claimable, Row
  <2> QED
    BY <2>1, <2>2, <2>3
<1>5. ASSUME NEW c \in Checkouts, ActivateFree(c)
      PROVE  \E p \in Payments \ Paid : Paid' = Paid \cup {p}
  BY <1>5 DEF ActivateFree, Row
<1>6. ASSUME NEW h \in Handlers, NEW p \in Payments, Webhook(h, p) \/ PollReturnPage(h, p)
      PROVE  Paid' = Paid
  BY <1>6 DEF Webhook, PollReturnPage, Start, rows
<1>7. ASSUME NEW h \in Handlers,
             Verify(h) \/ Load(h) \/ ClaimLost(h) \/ Claim(h) \/ QueueInvoice(h) \/ Abandon(h)
      PROVE  Paid' = Paid
  BY <1>7 DEF Verify, Load, ClaimLost, Claim, QueueInvoice, Abandon, rows
<1>8. ASSUME NEW h \in Handlers, Reject(h) PROVE Paid' = Paid
  BY <1>8 DEF Reject, Claimable, Row
<1>9. ASSUME NEW h \in Handlers, Commit(h)
      PROVE  \E p \in Payments \ Paid : Paid' = Paid \cup {p}
  <2>1. handler[h].payment \in Payments \ Paid
    BY <1>9 DEF Commit, RunsOwnRows, Claimable
  <2> QED
    BY <1>9, <2>1 DEF Commit, Row
<1>10. ASSUME \/ \E p \in Payments : Pay(p) \/ Decline(p)
              \/ OtherOfficeRedeems \/ Cancel \/ SwitchToFree \/ Tick \/ UNCHANGED vars
       PROVE  Paid' = Paid
  BY <1>10 DEF Pay, Decline, OtherOfficeRedeems, Cancel, SwitchToFree, Tick, vars, rows
<1> QED
  BY <1>1, <1>2, <1>3, <1>4, <1>5, <1>6, <1>7, <1>8, <1>9, <1>10 DEF Next, OpenStep, ApplyStep

\* Once paid, a payment stays paid: no late verdict overturns it.
THEOREM PaidIsFinal == Spec => PaidStaysPaid
<1>1. IInv /\ [Next]_vars =>
        [\A p \in Payments : payment[p].status = "paid" => payment'[p].status = "paid"]_vars
  BY PaidStep DEF Paid
<1> QED
  BY <1>1, InductiveInvariant, PTL DEF Spec, PaidStaysPaid

\* What was delivered follows from what is paid.
LEMMA GivenIsPaid ==
  ASSUME IInv
  PROVE  Given = [p \in Payments |-> IF p \in Paid THEN 1 ELSE 0]
BY DEF IInv, AppliedOnce, Given, Paid

\* A step that pays for one row, or for none, is a step of the abstraction.
LEMMA SettlementStep ==
  ASSUME IInv, IInv', Paid' = Paid \/ \E p \in Payments \ Paid : Paid' = Paid \cup {p}
  PROVE  [Abstract!Next]_<<Paid, Given>>
<1>1. Given' = [p \in Payments |-> IF p \in Paid' THEN 1 ELSE 0]
  BY GivenIsPaid DEF IInv, AppliedOnce, Given, Paid
<1>2. CASE Paid' = Paid
  BY <1>1, <1>2, GivenIsPaid
<1>3. ASSUME NEW p \in Payments \ Paid, Paid' = Paid \cup {p} PROVE Abstract!Settle(p)
  <2>1. Given = [q \in Payments |-> IF q \in Paid THEN 1 ELSE 0]
    BY GivenIsPaid
  <2>2. Given' = [Given EXCEPT ![p] = Given[p] + 1]
    BY <1>1, <1>3, <2>1
  <2> QED
    BY <1>3, <2>2 DEF Abstract!Settle, Paid, Given
<1> QED
  BY <1>2, <1>3 DEF Abstract!Next

\* The checkout implements PaymentSettlement: each payment is settled at most
\* once, for good, and gives what it bought in the step that settles it.
THEOREM ImplementsSettlement == Spec => Settlement
<1>1. Init => Abstract!Init
  BY DEF Init, NoActivity, Abstract!Init, AbsentRow
<1>2. IInv /\ IInv' /\ [Next]_vars => [Abstract!Next]_<<Paid, Given>>
  BY PaidStep, SettlementStep
<1> QED
  BY <1>1, <1>2, InductiveInvariant, PTL DEF Spec, Settlement, Abstract!Spec, Paid, Given

-----------------------------------------------------------------------------
\* The offer's terms are given to at most maxRedemptions purchases, whatever
\* other offices redeem meanwhile (applyOfferWithin).
THEOREM OfferQuotaKept == Spec => []OfferQuota
<1> DEFINE QInv == IsFiniteSet(benefits) /\ OfferQuota
<1>1. Init => QInv
  BY CheckoutAssumption, FS_EmptySet DEF Init, NoActivity, OfferQuota
<1>2. IInv /\ QInv /\ [Next]_vars => QInv'
  <2> SUFFICES ASSUME IInv, QInv, [Next]_vars PROVE QInv'
    OBVIOUS
  <2>1. CASE redemptions' = redemptions /\ benefits' = benefits
    BY <2>1 DEF OfferQuota
  <2>2. CASE redemptions < MaxRedemptions /\ redemptions' = redemptions + 1 /\ benefits' = benefits
    BY <2>2, FS_CardinalityType, CheckoutAssumption DEF OfferQuota, IInv, TypeOK
  <2>3. ASSUME NEW p \in Payments, RedeemOffer(p) PROVE QInv'
    <3>1. /\ IsFiniteSet(benefits \cup {p})
          /\ Cardinality(benefits \cup {p}) <= Cardinality(benefits) + 1
          /\ Cardinality(benefits \cup {p}) \in Nat
      <4>1. Cardinality(benefits) \in Nat
        BY FS_CardinalityType
      <4>2. /\ IsFiniteSet(benefits \cup {p})
            /\ Cardinality(benefits \cup {p}) \in {Cardinality(benefits), Cardinality(benefits) + 1}
        BY FS_AddElement
      <4> QED
        BY <4>1, <4>2
    <3>2. CASE redemptions < MaxRedemptions
      <4>1. redemptions' = redemptions + 1 /\ benefits' = benefits \cup {p}
        BY <2>3, <3>2 DEF RedeemOffer
      <4>2. Cardinality(benefits) \in Nat /\ redemptions \in Nat /\ MaxRedemptions \in Nat
        BY FS_CardinalityType, CheckoutAssumption DEF IInv, TypeOK
      <4>3. redemptions' <= MaxRedemptions /\ Cardinality(benefits \cup {p}) <= redemptions'
        BY <3>1, <3>2, <4>1, <4>2 DEF OfferQuota
      <4> QED
        BY <3>1, <4>1, <4>3 DEF OfferQuota
    <3>3. CASE ~(redemptions < MaxRedemptions)
      BY <2>1, <2>3, <3>3 DEF RedeemOffer
    <3> QED
      BY <3>2, <3>3
  <2>4. ASSUME NEW h \in Handlers, Commit(h) PROVE QInv'
    BY <2>1, <2>3, <2>4 DEF Commit, CommitCredits, CommitPlan, CommitOffer, IInv, RunsOwnRows
  <2>5. ASSUME NEW c \in Checkouts, OpenStep(c) PROVE QInv'
    BY <2>1, <2>5 DEF OpenStep, PricePlan, PriceOffer, PriceCredits, Begin, Supersede, CreateRow,
       OpenPage, OpenPageFails, CrashRequest, ReadForFree, ActivateFree, tenant
  <2>6. ASSUME NEW h \in Handlers, ApplyStep(h) PROVE QInv'
    BY <2>1, <2>4, <2>6 DEF ApplyStep, Webhook, PollReturnPage, Start, Verify, Load, Reject, ClaimLost,
       Claim, QueueInvoice, Abandon, tenant
  <2>7. CASE OtherOfficeRedeems
    BY <2>2, <2>7 DEF OtherOfficeRedeems
  <2>8. CASE (\E p \in Payments : Pay(p) \/ Decline(p)) \/ Cancel \/ SwitchToFree \/ Tick \/ UNCHANGED vars
    BY <2>1, <2>8 DEF Pay, Decline, Cancel, SwitchToFree, Tick, vars, tenant
  <2> QED
    BY <2>5, <2>6, <2>7, <2>8 DEF Next
<1> QED
  BY <1>1, <1>2, InductiveInvariant, PTL DEF Spec

-----------------------------------------------------------------------------
(***************************************************************************)
(* The columns of the tenant.  Only three kinds of step write the coupon,  *)
(* the gate or the period's end, and an activation writes them together.   *)
(***************************************************************************)
LEMMA TenantStep ==
  ASSUME IInv, [Next]_vars
  PROVE  \/ coupon' = coupon /\ paidUntil' = paidUntil /\ subscription'.end = subscription.end
         \/ \E p \in Payments, end \in Nat, card \in BOOLEAN : Activate(p, end, card)
         \/ SwitchToFree
<1> DEFINE Kept      == coupon' = coupon /\ paidUntil' = paidUntil /\ subscription'.end = subscription.end
           Activates == \E p \in Payments, end \in Nat, card \in BOOLEAN : Activate(p, end, card)
<1>1. ASSUME NEW h \in Handlers, Commit(h) PROVE Kept \/ Activates
  <2>1. handler[h].payment \in Payments /\ handler[h].end \in Nat
    BY <1>1 DEF Commit, IInv, RunsOwnRows
  <2>2. CASE CommitCredits(handler[h].payment)
    BY <2>2 DEF CommitCredits
  <2>3. CASE \/ CommitPlan(handler[h].payment, handler[h].end)
             \/ CommitOffer(handler[h].payment, handler[h].end)
    <3>1. Activate(handler[h].payment, handler[h].end, TRUE)
      BY <2>3 DEF CommitPlan, CommitOffer
    <3> HIDE DEF Kept
    <3> QED
      BY <2>1, <3>1
  <2> QED
    BY <1>1, <2>2, <2>3 DEF Commit
<1>2. ASSUME NEW c \in Checkouts, ActivateFree(c) PROVE Activates
  <2>1. checkout[c].end \in Nat
    BY <1>2 DEF ActivateFree, IInv, RequestsOwnRows
  <2>2. \E p \in Payments : Activate(p, checkout[c].end, FALSE)
    BY <1>2 DEF ActivateFree
  <2> QED
    BY <2>1, <2>2
<1>3. ASSUME NEW c \in Checkouts, OpenStep(c), ~ActivateFree(c) PROVE Kept
  BY <1>3 DEF OpenStep, PricePlan, PriceOffer, PriceCredits, Begin, Supersede, CreateRow,
     OpenPage, OpenPageFails, CrashRequest, ReadForFree, tenant
<1>4. ASSUME NEW h \in Handlers, ApplyStep(h), ~Commit(h) PROVE Kept
  BY <1>4 DEF ApplyStep, Webhook, PollReturnPage, Start, Verify, Load, Reject, ClaimLost, Claim,
     QueueInvoice, Abandon, tenant
<1>5. ASSUME (\E p \in Payments : Pay(p) \/ Decline(p)) \/ OtherOfficeRedeems \/ Tick \/ UNCHANGED vars
      PROVE  Kept
  BY <1>5 DEF Pay, Decline, OtherOfficeRedeems, Tick, vars, tenant
<1>6. ASSUME Cancel PROVE Kept
  BY <1>6 DEF Cancel, IInv, TypeOK
<1> QED
  BY <1>1, <1>2, <1>3, <1>4, <1>5, <1>6 DEF Next

\* Nobody loses the coupon without getting a period for it, in the same step.
THEOREM CouponGoesWithAPeriod == Spec => CouponKept
<1>1. IInv /\ [Next]_vars => [coupon' # coupon => \E p \in Payments : grants'[p] > grants[p]]_vars
  <2> SUFFICES ASSUME IInv, [Next]_vars, coupon' # coupon
               PROVE  \E p \in Payments : grants'[p] > grants[p]
    OBVIOUS
  <2>1. PICK p \in Payments, end \in Nat, card \in BOOLEAN : Activate(p, end, card)
    BY TenantStep DEF SwitchToFree
  <2>2. grants \in [Payments -> Nat] /\ grants' = [grants EXCEPT ![p] = grants[p] + 1]
    BY <2>1 DEF Activate, IInv, TypeOK
  <2> QED
    BY <2>2
<1> QED
  BY <1>1, InductiveInvariant, PTL DEF Spec, CouponKept

\* The access gate is a grace window after the recorded period at every step.
THEOREM GateFollowsSubscription == Spec => []AccessFollowsPeriod
<1>1. Init => AccessFollowsPeriod
  BY DEF Init, AccessFollowsPeriod
<1>2. IInv /\ AccessFollowsPeriod /\ [Next]_vars => AccessFollowsPeriod'
  <2> SUFFICES ASSUME IInv, AccessFollowsPeriod, [Next]_vars PROVE AccessFollowsPeriod'
    OBVIOUS
  <2>1. CASE paidUntil' = paidUntil /\ subscription'.end = subscription.end
    BY <2>1 DEF AccessFollowsPeriod, AccessUntil
  <2>2. ASSUME NEW p \in Payments, NEW end \in Nat, NEW card \in BOOLEAN, Activate(p, end, card)
        PROVE  AccessFollowsPeriod'
    BY <2>2, CheckoutAssumption DEF Activate, AccessFollowsPeriod, AccessUntil
  <2>3. CASE SwitchToFree
    BY <2>3 DEF SwitchToFree, AccessFollowsPeriod
  <2> QED
    BY <2>1, <2>2, <2>3, TenantStep
<1> QED
  BY <1>1, <1>2, InductiveInvariant, PTL DEF Spec

\* A document is queued after the payment was recorded as paid.
LEMMA DocumentStep ==
  ASSUME IInv, invoiced \subseteq Paid, [Next]_vars
  PROVE  invoiced' \subseteq Paid'
<1>1. Paid \subseteq Paid'
  BY PaidStep
<1>2. CASE UNCHANGED invoiced
  BY <1>1, <1>2
<1>3. ASSUME NEW h \in Handlers, QueueInvoice(h) PROVE invoiced' \subseteq Paid'
  <2>1. handler[h].payment \in Paid
    BY <1>3 DEF QueueInvoice, IInv, RunsOwnRows, Paid
  <2> QED
    BY <1>1, <1>3, <2>1 DEF QueueInvoice
<1>4. ASSUME NEW c \in Checkouts, OpenStep(c) PROVE UNCHANGED invoiced
  BY <1>4 DEF OpenStep, PricePlan, PriceOffer, PriceCredits, Begin, Supersede, CreateRow,
     OpenPage, OpenPageFails, CrashRequest, ReadForFree, ActivateFree
<1>5. ASSUME NEW h \in Handlers, ApplyStep(h), ~QueueInvoice(h) PROVE UNCHANGED invoiced
  BY <1>5 DEF ApplyStep, Webhook, PollReturnPage, Start, Verify, Load, Reject, ClaimLost, Claim,
     Commit, Abandon
<1>6. CASE \/ \E p \in Payments : Pay(p) \/ Decline(p)
           \/ OtherOfficeRedeems \/ Cancel \/ SwitchToFree \/ Tick \/ UNCHANGED vars
  BY <1>2, <1>6 DEF Pay, Decline, OtherOfficeRedeems, Cancel, SwitchToFree, Tick, vars
<1> QED
  BY <1>2, <1>3, <1>4, <1>5, <1>6 DEF Next

\* A tax document is queued only for a payment that was confirmed.
THEOREM DocumentsOnlyForPaid == Spec => []InvoicedOnlyIfPaid
<1> DEFINE DInv == invoiced \subseteq Paid
<1>1. Init => DInv
  BY DEF Init, NoActivity
<1>2. IInv /\ DInv /\ [Next]_vars => DInv'
  BY DocumentStep
<1>3. DInv => InvoicedOnlyIfPaid
  BY DEF InvoicedOnlyIfPaid, Paid
<1> QED
  BY <1>1, <1>2, <1>3, InductiveInvariant, PTL DEF Spec
=============================================================================
