---------------------------- MODULE NumberRental ----------------------------
(***************************************************************************)
(* Virtual numbers that offices rent from the platform: a page is opened   *)
(* for a number, a confirmed payment activates the row and then takes the  *)
(* number at 015 (NumberRentalService), every API replica renews, releases *)
(* and purges rows (NumberRentalRenewalService), the customer cancels, and *)
(* an administrator releases at once (PlatformController).                 *)
(*                                                                         *)
(* The account at 015 is no part of any transaction: a number is taken     *)
(* after the payment has committed and given back before the row is        *)
(* closed.  What is written by id meets whatever the row has become; only  *)
(* the partial unique index on live numbers stands in the way.             *)
(*                                                                         *)
(* A payment is claimed once (SubscriptionCheckout); here it is open, and  *)
(* then paid.  The payment rows of renewals meet nobody and are left out.  *)
(***************************************************************************)
EXTENDS Naturals

CONSTANTS
  Rentals,    \* identifiers of rows of rented_numbers
  Numbers,    \* numbers 015 offers
  Offices,    \* offices that rent
  Payments,   \* identifiers of payments for a rental
  Requests,   \* requests of customers, administrators and Cardcom
  Scanners,   \* replicas running tick()
  Period,     \* the month, in ticks
  MaxTime,    \* bounds the clock; the last instant lasts for ever
  MaxFaults,  \* bounds answers lost, refusals of 015 and kills
  None        \* SQL NULL

ASSUME RentalAssumption ==
  /\ Period \in Nat \ {0} /\ MaxTime \in Nat /\ MaxFaults \in Nat
  /\ None \notin Nat \cup Rentals \cup Numbers \cup Offices \cup Payments
  /\ Requests \cap Scanners = {}

VARIABLES
  now,      \* the clock
  rental,   \* table rented_numbers
  payment,  \* table payments, those for rentals
  job,      \* where each request and each replica stands
  held,     \* numbers in the platform's account at 015
  route,    \* table virtual_numbers, by office and number
  quit,     \* history: rentals cancelled since they were last paid for
  asked,    \* history: rentals somebody wanted released since then
  crossed,  \* history: rentals whose release and another write did not know of each other
  served,   \* history: payments that extended a rental
  reported, \* history: payments the administrators were told nothing was given for
  charged,  \* history: renewals answered "paid", by rental and start of period
  lost,     \* history: renewals that went through and whose answer was lost
  overlap,  \* history: two replicas were at their rounds at once
  told,     \* history: numbers the administrators have to look after
  faults    \* faults so far

world       == <<now, held, route>>
history     == <<quit, asked, crossed, served, reported, charged, lost, overlap, told, faults>>
rentalVars  == <<world, rental, payment, job, history>>

Jobs == Requests \cup Scanners

NoRow == [status |-> "absent", number |-> None, office |-> None, end |-> None,
          bought |-> FALSE, freed |-> FALSE]
Idle  == [pc |-> "idle", rental |-> None, payment |-> None, row |-> NoRow, to |-> None,
          due |-> {}, at |-> 0]

Live(r) == rental[r].status \notin {"absent", "released"}

\* Mutant of Clash: no index makes the live row of a number unique.
ClashNever(r, number) == FALSE

\* rented_numbers_live_number_key: another live row has the number.
Clash(r, number) == \E x \in Rentals \ {r} : Live(x) /\ rental[x].number = number

NextPeriodEnd(end, at) == (IF end # None /\ end > at THEN end ELSE at) + Period

\* Rows are absent, or paid up to the first tick.
RentalInit ==
  /\ now = 0
  /\ \E first \in SUBSET Rentals, n \in Numbers, o \in Offices :
       LET row == [NoRow EXCEPT !.status = "active", !.number = n, !.office = o, !.end = 1,
                                !.bought = TRUE]
       IN /\ \A r, x \in first : r = x
          /\ rental = [r \in Rentals |-> IF r \in first THEN row ELSE NoRow]
          /\ held = IF first = {} THEN {} ELSE {n}
          /\ route = [x \in Offices \X Numbers |->
                        IF first # {} /\ x = <<o, n>> THEN "on" ELSE "none"]
  /\ payment = [p \in Payments |-> [status |-> "absent", rental |-> None]]
  /\ job = [j \in Jobs |-> Idle]
  /\ quit = {} /\ asked = {} /\ crossed = {} /\ served = {} /\ reported = {} /\ lost = {} /\ told = {}
  /\ charged = [x \in Rentals \X (0 .. MaxTime + Period) |-> 0]
  /\ overlap = FALSE /\ faults = 0

Go(j, pc)  == job' = [job EXCEPT ![j].pc = pc]
\* A replica goes on with its list, a request is over.
Done(j)    == job' = [job EXCEPT ![j] = IF j \in Scanners
                                          THEN [Idle EXCEPT !.pc = "close", !.due = job[j].due] ELSE Idle]
Fault      == faults < MaxFaults /\ faults' = faults + 1

-----------------------------------------------------------------------------
(***************************************************************************)
(* The customer: startCheckout and cancel.                                 *)
(***************************************************************************)

\* 015 offers the number; an order that was not paid is reused.
Look(q) ==
  /\ job[q].pc = "idle"
  /\ \E o \in Offices, n \in Numbers \ held :
       LET row == [NoRow EXCEPT !.status = "pending", !.number = n, !.office = o]
           own == {r \in Rentals : rental[r] = row}
       IN \/ \E r \in own :
               job' = [job EXCEPT ![q] = [Idle EXCEPT !.pc = "supersede", !.rental = r]]
          \/ /\ own = {} /\ ~Clash(None, n)
             /\ job' = [job EXCEPT ![q] = [Idle EXCEPT !.pc = "create", !.row = row]]
  /\ UNCHANGED <<world, rental, payment, history>>

\* The index decides between two who looked at the same time.
CreateRental(q) ==
  LET row == job[q].row IN
  /\ job[q].pc = "create"
  /\ IF Clash(None, row.number)
       THEN job' = [job EXCEPT ![q] = Idle] /\ UNCHANGED rental
       ELSE \E r \in Rentals :
              /\ rental[r].status = "absent"
              /\ rental' = [rental EXCEPT ![r] = row]
              /\ job' = [job EXCEPT ![q] = [Idle EXCEPT !.pc = "supersede", !.rental = r]]
  /\ UNCHANGED <<world, payment, history>>

\* Pages opened before stay payable.
Supersede(q) ==
  LET Open == {p \in Payments : payment[p].rental = job[q].rental /\ payment[p].status = "pending"}
  IN
  /\ job[q].pc = "supersede"
  /\ \A x \in Requests : job[x].pc = "activate" => job[x].payment \notin Open
  /\ payment' = [p \in Payments |->
                   IF p \in Open THEN [payment[p] EXCEPT !.status = "superseded"] ELSE payment[p]]
  /\ Go(q, "open")
  /\ UNCHANGED <<world, rental, history>>

\* The row and the page, which Cardcom may refuse to open.
OpenPage(q) ==
  /\ job[q].pc = "open"
  /\ \E p \in Payments, status \in {"pending", "failed"} :
       /\ payment[p].status = "absent"
       /\ payment' = [payment EXCEPT ![p] = [status |-> status, rental |-> job[q].rental]]
  /\ job' = [job EXCEPT ![q] = Idle]
  /\ UNCHANGED <<world, rental, history>>

\* An order that was not paid is released at once, a rental when its period ends.
Cancel(q) ==
  /\ job[q].pc = "idle"
  /\ \E r \in Rentals :
       /\ rental[r].status \in {"pending", "active", "past_due"}
       /\ IF rental[r].status = "pending"
            THEN /\ job' = [job EXCEPT ![q] = [Idle EXCEPT !.pc = "release", !.rental = r]]
                 /\ asked' = asked \cup {r}
            ELSE /\ job' = [job EXCEPT ![q] = [Idle EXCEPT !.pc = "cancel", !.rental = r]]
                 /\ UNCHANGED asked
  /\ UNCHANGED <<world, rental, payment, quit, crossed, served, reported, charged, lost, overlap, told, faults>>

\* By id: the write fails only at the index.
CancelWrite(q) ==
  LET r == job[q].rental IN
  /\ job[q].pc = "cancel"
  /\ IF Clash(r, rental[r].number)
       THEN UNCHANGED <<rental, quit, crossed>>
       ELSE /\ rental' = [rental EXCEPT ![r].status = "cancelled"]
            /\ quit' = quit \cup {r}
            /\ crossed' = IF Live(r) THEN crossed ELSE crossed \cup {r}
  /\ job' = [job EXCEPT ![q] = Idle]
  /\ UNCHANGED <<world, payment, asked, served, reported, charged, lost, overlap, told, faults>>

-----------------------------------------------------------------------------
(***************************************************************************)
(* apply(): the transaction claims the payment, reads the row and writes   *)
(* it; what comes after it has committed is done once, or never.           *)
(***************************************************************************)
ClaimPayment(q) ==
  /\ job[q].pc = "idle"
  /\ \E p \in Payments :
       /\ payment[p].status \in {"pending", "superseded"}
       /\ \A x \in Requests : job[x].pc = "activate" => job[x].payment # p
       /\ job' = [job EXCEPT ![q] = [Idle EXCEPT !.pc = "activate", !.payment = p,
                    !.rental = payment[p].rental, !.row = rental[payment[p].rental]]]
  /\ UNCHANGED <<world, rental, payment, history>>

\* A release of the rental has begun and not yet closed the row.
Releasing(r) ==
  \E j \in Jobs : \/ job[j].rental = r /\ job[j].pc \in {"release", "drop", "close row"}
                  \/ r \in job[j].due /\ job[j].pc \in {"close", "release", "drop", "close row", "unroute"}
\* What was released does not come back to life.
Revivable(row) == row.status # "released"

\* A row that another live one has replaced meanwhile rolls the claim back.
Activate(q) ==
  LET r == job[q].rental
      p == job[q].payment
  IN
  /\ job[q].pc = "activate"
  /\ \/ /\ ~Revivable(job[q].row)
        /\ payment' = [payment EXCEPT ![p].status = "paid"]
        /\ Go(q, "orphan")
        /\ UNCHANGED <<rental, quit, asked, crossed, served>>
     \/ /\ Revivable(job[q].row) /\ Clash(r, rental[r].number)
        /\ job' = [job EXCEPT ![q] = Idle]
        /\ UNCHANGED <<rental, payment, quit, asked, crossed, served>>
     \/ /\ Revivable(job[q].row) /\ ~Clash(r, rental[r].number)
        /\ payment' = [payment EXCEPT ![p].status = "paid"]
        /\ rental' = [rental EXCEPT ![r].status = "active", ![r].end = NextPeriodEnd(job[q].row.end, now)]
        /\ Go(q, "provision")
        /\ quit' = quit \ {r} /\ asked' = asked \ {r} /\ served' = served \cup {p}
        /\ crossed' = IF Releasing(r) \/ job[q].row # rental[r] THEN crossed \cup {r} ELSE crossed
  /\ UNCHANGED <<world, reported, charged, lost, overlap, told, faults>>

\* Mutant of Activated: the rental need only be there.
ActivatedAnyway(r) == rental[r].status # "absent"

\* A parallel delivery has activated the rental.
Activated(r) == rental[r].status \in {"active", "past_due"}

\* reportOrphanPayment.
Report(q) ==
  /\ job[q].pc = "orphan"
  /\ reported' = IF Activated(job[q].rental) THEN reported
                 ELSE reported \cup {job[q].payment}
  /\ job' = [job EXCEPT ![q] = Idle]
  /\ UNCHANGED <<world, rental, payment, quit, asked, crossed, served, charged, lost, overlap, told, faults>>

\* provisionAfterPayment: a number that was taken before is not taken again.
Provision(q) ==
  LET row == rental[job[q].rental] IN
  /\ job[q].pc = "provision"
  /\ job' = [job EXCEPT ![q] = IF row.bought THEN Idle ELSE [@ EXCEPT !.pc = "purchase", !.row = row]]
  /\ UNCHANGED <<world, rental, payment, history>>

\* 015 sells the number, refuses it, or sells it and the answer is lost: the
\* administrators are told of whatever did not work.
Purchase(q) ==
  LET n == job[q].row.number
      r == job[q].rental
  IN
  /\ job[q].pc = "purchase"
  /\ \/ /\ n \notin held
        /\ held' = held \cup {n}
        /\ crossed' = IF Releasing(r) \/ ~Live(r) THEN crossed \cup {r} ELSE crossed
        /\ Go(q, "stamp")
        /\ UNCHANGED <<told, faults>>
     \/ /\ held' \in {held, held \cup {n}}
        /\ told' = told \cup {n}
        /\ job' = [job EXCEPT ![q] = Idle]
        /\ IF n \in held THEN UNCHANGED faults ELSE Fault
        /\ UNCHANGED crossed
  /\ UNCHANGED <<now, route, rental, payment, quit, asked, served, reported, charged, lost, overlap>>

StampPurchase(q) ==
  /\ job[q].pc = "stamp"
  /\ rental' = [rental EXCEPT ![job[q].rental].bought = TRUE]
  /\ Go(q, "route")
  /\ UNCHANGED <<world, payment, history>>

\* createRoutingRow: a row that is there stays as it is.
Route(q) ==
  LET x == <<job[q].row.office, job[q].row.number>> IN
  /\ job[q].pc = "route"
  /\ route' = IF route[x] = "none" THEN [route EXCEPT ![x] = "on"] ELSE route
  /\ job' = [job EXCEPT ![q] = Idle]
  /\ UNCHANGED <<now, held, rental, payment, history>>

-----------------------------------------------------------------------------
(***************************************************************************)
(* releaseNow: by an administrator, by a customer who cancels an order, by *)
(* a replica at the end of the period.                                     *)
(***************************************************************************)
AdminRelease(q) ==
  /\ job[q].pc = "idle"
  /\ \E r \in Rentals :
       /\ rental[r].status # "absent"
       /\ job' = [job EXCEPT ![q] = [Idle EXCEPT !.pc = "release", !.rental = r]]
       /\ asked' = asked \cup {r}
  /\ UNCHANGED <<world, rental, payment, quit, crossed, served, reported, charged, lost, overlap, told, faults>>

ReadRelease(j) ==
  LET row == rental[job[j].rental] IN
  /\ job[j].pc = "release"
  /\ IF row.status = "released" THEN Done(j)
     ELSE job' = [job EXCEPT ![j].row = row,
                             ![j].pc = IF row.bought /\ ~row.freed THEN "drop" ELSE "close row"]
  /\ UNCHANGED <<world, rental, payment, history>>

\* Mutant of AfterRefusal: the row is closed whatever 015 said.
AfterRefusalClosed(j) == Go(j, "close row")

\* The row stays as it is; the next round tries again.
AfterRefusal(j) == Done(j)

\* 015 gives the number up (one it does not have counts too), refuses, or
\* gives it up and the answer is lost.
Drop(j) ==
  LET n == job[j].row.number IN
  /\ job[j].pc = "drop"
  /\ \/ held' = held \ {n} /\ Go(j, "close row") /\ UNCHANGED faults
     \/ n \in held /\ Fault /\ held' \in {held, held \ {n}} /\ AfterRefusal(j)
  /\ UNCHANGED <<now, route, rental, payment, quit, asked, crossed, served, reported, charged, lost, overlap, told>>

CloseRow(j) ==
  LET r == job[j].rental IN
  /\ job[j].pc = "close row"
  /\ rental' = [rental EXCEPT ![r].status = "released", ![r].freed = TRUE]
  /\ crossed' = IF \/ job[j].row.bought # rental[r].bought
                  \/ \E q \in Jobs : job[q].rental = r /\ job[q].pc = "stamp"
                THEN crossed \cup {r} ELSE crossed
  /\ Go(j, "unroute")
  /\ UNCHANGED <<world, payment, quit, asked, served, reported, charged, lost, overlap, told, faults>>

Unroute(j) ==
  LET x == <<job[j].row.office, job[j].row.number>> IN
  /\ job[j].pc = "unroute"
  /\ route' = IF route[x] = "on" THEN [route EXCEPT ![x] = "off"] ELSE route
  /\ Done(j)
  /\ UNCHANGED <<now, held, rental, payment, history>>

-----------------------------------------------------------------------------
(***************************************************************************)
(* tick(): renewDue, releaseDue, purgeStalePending.                        *)
(***************************************************************************)

\* The round goes on with the next row of its list.
Resume(c) == job' = [job EXCEPT ![c] = [Idle EXCEPT !.pc = "renew", !.at = job[c].at, !.due = job[c].due]]

ListDue(c) ==
  /\ job[c].pc = "idle"
  /\ job' = [job EXCEPT ![c] = [Idle EXCEPT !.pc = "renew", !.at = now, !.due =
               {r \in Rentals : /\ rental[r].status = "active"
                                /\ rental[r].end # None /\ rental[r].end <= now}]]
  /\ overlap' = (overlap \/ \E d \in Scanners \ {c} : job[d].pc # "idle")
  /\ UNCHANGED <<world, rental, payment, quit, asked, crossed, served, reported, charged, lost, told, faults>>

\* renewOne reads the row again; an office without a saved card has nothing
\* to charge.
ReadRental(c) ==
  /\ job[c].pc = "renew"
  /\ \E r \in job[c].due :
       IF rental[r].status # "active"
         THEN job' = [job EXCEPT ![c].due = @ \ {r}]
         ELSE \E pc \in {"claim", "mark"} :
                job' = [job EXCEPT ![c] = [@ EXCEPT !.pc = pc, !.due = job[c].due \ {r}, !.rental = r,
                          !.row = rental[r], !.to = NextPeriodEnd(rental[r].end, job[c].at)]]
  /\ UNCHANGED <<world, rental, payment, history>>

\* Mutants of Claimable: one of the two conditions is missing.
ClaimableByPeriod(c) == rental[job[c].rental].end = job[c].row.end
ClaimableByStatus(c) == rental[job[c].rental].status = "active"

Claimable(c) ==
  LET row == rental[job[c].rental] IN row.end = job[c].row.end /\ row.status = "active"

ClaimPeriod(c) ==
  /\ job[c].pc = "claim"
  /\ IF Claimable(c)
       THEN rental' = [rental EXCEPT ![job[c].rental].end = job[c].to] /\ Go(c, "charge")
       ELSE Resume(c) /\ UNCHANGED rental
  /\ UNCHANGED <<world, payment, history>>

Month(c) == <<job[c].rental, job[c].row.end>>

\* chargeToken: paid, declined, or an exception after which nobody knows.
ChargePaid(c) ==
  /\ job[c].pc = "charge"
  /\ charged' = [charged EXCEPT ![Month(c)] = @ + 1]
  /\ Resume(c)
  /\ UNCHANGED <<world, rental, payment, quit, asked, crossed, served, reported, lost, overlap, told, faults>>

ChargeDeclined(c) ==
  /\ job[c].pc = "charge"
  /\ Go(c, "roll back")
  /\ UNCHANGED <<world, rental, payment, history>>

ChargeLost(c) ==
  /\ job[c].pc = "charge"
  /\ Fault
  /\ lost' = lost \cup {Month(c)}
  /\ Go(c, "roll back")
  /\ UNCHANGED <<world, rental, payment, quit, asked, crossed, served, reported, charged, overlap, told>>

RollBack(c) ==
  LET r == job[c].rental IN
  /\ job[c].pc = "roll back"
  /\ rental' = IF rental[r].end = job[c].to THEN [rental EXCEPT ![r].end = job[c].row.end] ELSE rental
  /\ Go(c, "mark")
  /\ UNCHANGED <<world, payment, history>>

\* Mutant of StatusUnpaid: an unpaid rental ends by itself.
StatusUnpaidEnds == "cancelled"

\* A phone number that is lost does not come back: people decide.
StatusUnpaid == "past_due"

\* By id: the write fails only at the index.
MarkPastDue(c) ==
  LET r == job[c].rental IN
  /\ job[c].pc = "mark"
  /\ IF Clash(r, rental[r].number)
       THEN UNCHANGED <<rental, crossed>>
       ELSE /\ rental' = [rental EXCEPT ![r].status = StatusUnpaid]
            /\ crossed' = IF Live(r) THEN crossed ELSE crossed \cup {r}
  /\ Resume(c)
  /\ UNCHANGED <<world, payment, quit, asked, served, reported, charged, lost, overlap, told, faults>>

\* Mutant of Ended: a rental that was paid for is not found at its end.
EndedUnpaid(r) == rental[r].status = "cancelled" /\ rental[r].end = None

Ended(r) == rental[r].status = "cancelled" /\ (rental[r].end = None \/ rental[r].end <= now)

ListCancelled(c) ==
  /\ job[c].pc = "renew" /\ job[c].due = {}
  /\ job' = [job EXCEPT ![c] = [Idle EXCEPT !.pc = "close", !.due = {r \in Rentals : Ended(r)}]]
  /\ UNCHANGED <<world, rental, payment, history>>

ReleaseNext(c) ==
  /\ job[c].pc = "close"
  /\ \E r \in job[c].due :
       job' = [job EXCEPT ![c] = [@ EXCEPT !.pc = "release", !.rental = r,
                                                  !.due = job[c].due \ {r}]]
  /\ UNCHANGED <<world, rental, payment, history>>

\* Which of the orders are three days old is left open.
Purge(c) ==
  /\ job[c].pc = "close" /\ job[c].due = {}
  /\ \E old \in SUBSET {r \in Rentals : rental[r].status = "pending"} :
       rental' = [r \in Rentals |-> IF r \in old THEN [rental[r] EXCEPT !.status = "released"]
                                    ELSE rental[r]]
  /\ job' = [job EXCEPT ![c] = Idle]
  /\ UNCHANGED <<world, payment, history>>

Pass ==
  /\ now < MaxTime
  /\ now' = now + 1
  /\ UNCHANGED <<held, route, rental, payment, job, history>>

\* The process is killed; the transaction of a claim is rolled back.
Kill(j) ==
  /\ job[j].pc # "idle"
  /\ Fault
  /\ job' = [job EXCEPT ![j] = Idle]
  /\ crossed' = IF job[j].pc \in {"stamp", "orphan"} THEN crossed \cup {job[j].rental} ELSE crossed
  /\ UNCHANGED <<world, rental, payment, quit, asked, served, reported, charged, lost, overlap, told>>

Checkout(q) == Look(q) \/ CreateRental(q) \/ Supersede(q) \/ OpenPage(q)
Confirm(q)  == ClaimPayment(q) \/ Activate(q) \/ Report(q) \/ Provision(q) \/ Purchase(q)
                 \/ StampPurchase(q) \/ Route(q)
Release(j)  == ReadRelease(j) \/ Drop(j) \/ CloseRow(j) \/ Unroute(j)
Tick(c) ==
  \/ ListDue(c) \/ ReadRental(c) \/ ClaimPeriod(c) \/ ChargePaid(c) \/ ChargeDeclined(c)
  \/ ChargeLost(c) \/ RollBack(c) \/ MarkPastDue(c) \/ ListCancelled(c) \/ ReleaseNext(c)
  \/ Purge(c) \/ Release(c)

RentalNext ==
  \/ \E q \in Requests : Checkout(q) \/ Cancel(q) \/ CancelWrite(q) \/ Confirm(q)
                           \/ AdminRelease(q) \/ Release(q)
  \/ \E c \in Scanners : Tick(c)
  \/ \E j \in Jobs : Kill(j)
  \/ Pass

\* The timers keep ticking, and time passes.
RentalFairness == WF_rentalVars(Pass) /\ \A c \in Scanners : WF_rentalVars(Tick(c))

RentalSpec == RentalInit /\ [][RentalNext]_rentalVars /\ RentalFairness

-----------------------------------------------------------------------------
(***************************************************************************)
(* What renting numbers promises.                                          *)
(***************************************************************************)
RentalRow ==
  [status : {"absent", "pending", "active", "past_due", "cancelled", "released"},
   number : Numbers \cup {None}, office : Offices \cup {None}, end : Nat \cup {None},
   bought : BOOLEAN, freed : BOOLEAN]

\* Every column keeps to its type, and a live number has one row.
RentalTypeOK ==
  /\ now \in 0 .. MaxTime /\ faults \in 0 .. MaxFaults
  /\ rental \in [Rentals -> RentalRow]
  /\ \A r, x \in Rentals : Live(r) /\ Live(x) /\ rental[r].number = rental[x].number => r = x
  /\ payment \in [Payments -> [status : {"absent", "pending", "superseded", "failed", "paid"},
                               rental : Rentals \cup {None}]]
  /\ held \subseteq Numbers /\ told \subseteq Numbers
  /\ route \in [Offices \X Numbers -> {"none", "on", "off"}]

\* "Money must not disappear in silence": a payment that was confirmed gave its
\* rental a month, or the administrators were told, or are about to be
\* (reportOrphanPayment).  A rental that another write revives and a process
\* killed before it reports are left out.
PaidServedOrReported ==
  \A p \in Payments : payment[p].status = "paid" =>
    \/ p \in served \cup reported
    \/ \E q \in Requests : job[q].pc = "orphan" /\ job[q].payment = p
    \/ payment[p].rental \in crossed

\* "A lost number does not come back": no failed charge, however it races with
\* cancellations, payments and other replicas, ends a rental nobody asked to
\* end.  A rental paid for while its release was under way is left out.
LostOnlyOnRequest ==
  \A r \in Rentals \ crossed : rental[r].bought /\ rental[r].status = "released" => r \in asked \cup quit

\* Replicas that renew the same rental at once never collect a month twice.  As
\* long as their rounds do not meet, and none is killed before its mark, not even
\* a charge whose answer was lost is repeated: past_due stops further attempts,
\* whatever the customer does meanwhile ("a further attempt would have charged
\* twice").  charged counts months that begin up to one after the clock's last.
RenewedOnce ==
  /\ \A x \in DOMAIN charged : charged[x] <= 1
  /\ ~overlap => \A x \in lost \cap DOMAIN charged : charged[x] = 0

\* A customer who has cancelled, and has not paid again, is not charged
\* anew, although a failed charge may overwrite the cancellation.
CancelledNotCharged ==
  [][\A c \in Scanners :
       job[c].pc = "claim" /\ job'[c].pc = "charge" => job[c].rental \notin quit]_rentalVars

\* The platform pays for no number that serves nobody: one it holds has a live
\* row, or the administrators know of it.  A row closed, or a process killed,
\* while the number was being taken is left out.
NoSilentLeak ==
  \A n \in held \ told : \E r \in Rentals : rental[r].number = n /\ (Live(r) \/ r \in crossed)

\* A renewal of r was under way: it may still write past_due over whatever the row is.
Renewing(r) ==
  \E c \in Scanners : job[c].rental = r /\ job[c].pc \in {"charge", "roll back", "mark"}

\* Rental r is released once it was cancelled, unless it is paid for again.
EndsInTime(r) ==
  r \in quit /\ rental[r].status = "cancelled" /\ rental[r].end <= MaxTime /\ ~Renewing(r)
    ~> rental[r].status = "released" \/ r \notin quit

\* A rental that was cancelled is released when its period is over, however often
\* 015 refuses to take the number back or a replica is killed meanwhile.  One whose
\* renewal is under way as the customer cancels is left out: markPastDue writes by
\* id, and releaseDue looks for cancelled rows only, so it may never end.
CancelledIsReleased == \A r \in Rentals : EndsInTime(r)

\* "A number is at once on the routing screen": one that is rented and taken is
\* routed to its office.
RentedIsRouted ==
  \A r \in Rentals :
    rental[r].status = "active" /\ rental[r].bought /\ (\A j \in Jobs : job[j].pc = "idle") =>
      route[<<rental[r].office, rental[r].number>>] = "on"
=============================================================================
