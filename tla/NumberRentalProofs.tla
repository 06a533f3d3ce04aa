------------------------- MODULE NumberRentalProofs -------------------------
(***************************************************************************)
(* Rented numbers, for any number of rentals, offices, payments, requests  *)
(* and replicas, any clock and any number of faults.                       *)
(*                                                                         *)
(* TypeInv adds to the types what a row, a payment and a job know of each  *)
(* other.  RequestInv then follows a release from whoever asked for it to  *)
(* the row it closes: what a job is about to release is asked for, quit or *)
(* crossed, who is "cancelled" has quit, and what was found released stays *)
(* so unless it is crossed.  What the administrators are told of payments  *)
(* rests on the last of these.  LeakInv follows a number from its purchase *)
(* to the row that notes it and from there to its release.  MonthInv and   *)
(* LostInv follow a month from the replica that claims it to its payment.  *)
(***************************************************************************)
EXTENDS NumberRental, TLAPS

Pcs == {"idle", "supersede", "create", "open", "cancel", "activate", "orphan", "provision",
        "purchase", "stamp", "route", "release", "drop", "close row", "unroute",
        "renew", "claim", "charge", "roll back", "mark", "close"}

JobRecord ==
  [pc : Pcs, rental : Rentals \cup {None}, payment : Payments \cup {None}, row : RentalRow,
   to : Nat \cup {None}, due : SUBSET Rentals, at : Nat]

\* Where a job stands, its rental and its payment are there, and it knows the
\* rental's number.
Placed(x) ==
  /\ x.pc \notin {"idle", "create", "renew", "close"} =>
       x.rental \in Rentals /\ rental[x.rental].status # "absent"
  /\ x.pc = "create" =>
       x.row.status = "pending" /\ x.row.number \in Numbers /\ ~x.row.bought /\ ~x.row.freed
  /\ x.pc \in {"activate", "orphan"} =>
       /\ x.payment \in Payments /\ payment[x.payment].rental = x.rental
       /\ payment[x.payment].status # "absent"
  /\ x.pc = "orphan" => x.row.status = "released"
  /\ x.pc \in {"provision", "purchase", "stamp", "route"} => rental[x.rental].status # "pending"
  /\ x.pc \in {"purchase", "stamp", "route", "drop", "close row", "unroute"} =>
       x.row.number = rental[x.rental].number
  /\ \A r \in x.due : rental[r].status # "absent"

RowsTyped == rental \in [Rentals -> RentalRow]

OneLiveRow ==
  \A r, x \in Rentals : Live(r) /\ Live(x) /\ rental[r].number = rental[x].number => r = x

RestTyped ==
  /\ now \in 0 .. MaxTime /\ faults \in 0 .. MaxFaults
  /\ payment \in [Payments -> [status : {"absent", "pending", "superseded", "failed", "paid"},
                               rental : Rentals \cup {None}]]
  /\ held \subseteq Numbers /\ told \subseteq Numbers
  /\ route \in [Offices \X Numbers -> {"none", "on", "off"}]

\* A row has a number from its order on, and it is taken after it was paid for.
RowsFit ==
  \A r \in Rentals :
    /\ rental[r].status = "absent" => rental[r].number = None
    /\ rental[r].status # "absent" => rental[r].number \in Numbers
    /\ rental[r].status \in {"absent", "pending"} => ~rental[r].bought /\ ~rental[r].freed

PaymentsFit ==
  \A p \in Payments : payment[p].status # "absent" =>
    payment[p].rental \in Rentals /\ rental[payment[p].rental].status # "absent"

JobsFit == job \in [Jobs -> JobRecord] /\ \A j \in Jobs : Placed(job[j])

TypeInv == RowsTyped /\ OneLiveRow /\ RestTyped /\ RowsFit /\ PaymentsFit /\ JobsFit

LEMMA TypeParts == RentalTypeOK <=> RowsTyped /\ OneLiveRow /\ RestTyped
BY DEF RentalTypeOK, RowsTyped, OneLiveRow, RestTyped

\* Rows and payments only go on.
Onward ==
  /\ \A r \in Rentals : rental[r].status # "absent" =>
       /\ rental'[r].status # "absent" /\ rental'[r].number = rental[r].number
       /\ rental[r].status # "pending" => rental'[r].status # "pending"
  /\ \A p \in Payments : payment[p].status # "absent" =>
       payment'[p].status # "absent" /\ payment'[p].rental = payment[p].rental

LEMMA NoRowType == NoRow \in RentalRow /\ Idle \in JobRecord
BY DEF NoRow, RentalRow, Idle, JobRecord, Pcs

LEMMA IdlePlaced == Placed(Idle) /\ Placed(Idle)'
BY DEF Placed, Idle

\* Steps that write no row of a rental or a payment.
LEMMA MoveKeepsTypes ==
  ASSUME TypeInv, NEW j \in Jobs, NEW x \in JobRecord, job' = [job EXCEPT ![j] = x], Placed(x),
         UNCHANGED <<rental, payment>>, RestTyped'
  PROVE  TypeInv'
<1>1. JobsFit'
  BY ZenonT(60) DEF TypeInv, JobsFit, Placed
<1> QED
  BY <1>1 DEF TypeInv, RowsTyped, OneLiveRow, RowsFit, PaymentsFit, Live

\* Steps that do.
LEMMA WriteKeepsTypes ==
  ASSUME TypeInv, NEW j \in Jobs, NEW x \in JobRecord, job' = [job EXCEPT ![j] = x], Placed(x)',
         Onward, RowsTyped', OneLiveRow', RestTyped', RowsFit', PaymentsFit'
  PROVE  TypeInv'
<1>1. ASSUME NEW k \in Jobs, k # j PROVE Placed(job[k])'
  <2>1. job'[k] = job[k] /\ job[k] \in JobRecord /\ Placed(job[k])
    BY <1>1 DEF TypeInv, JobsFit
  <2> QED
    BY ZenonT(60), <2>1 DEF Placed, Onward, JobRecord
<1>2. JobsFit'
  BY <1>1 DEF TypeInv, JobsFit
<1> QED
  BY <1>2 DEF TypeInv

\* One row of a rental is written.
LEMMA RowWritten ==
  ASSUME TypeInv, NEW r \in Rentals, NEW row \in RentalRow, rental' = [rental EXCEPT ![r] = row],
         row.status # "absent", row.number \in Numbers,
         rental[r].status # "absent" => row.number = rental[r].number,
         row.status = "pending" => rental[r].status \in {"absent", "pending"} /\ ~row.bought /\ ~row.freed,
         row.status # "released" => ~Clash(r, row.number)
  PROVE  RowsTyped' /\ OneLiveRow' /\ RowsFit'
<1>1. RowsTyped'
  BY DEF TypeInv, RowsTyped
<1>2. OneLiveRow'
  BY DEF TypeInv, RowsTyped, OneLiveRow, Live, Clash
<1>3. RowsFit'
  BY DEF TypeInv, RowsTyped, RowsFit
<1> QED
  BY <1>1, <1>2, <1>3

\* A live row clashes with none.
LEMMA LiveIsAlone ==
  ASSUME TypeInv, NEW r \in Rentals, Live(r) PROVE ~Clash(r, rental[r].number)
BY DEF TypeInv, OneLiveRow, Clash

-----------------------------------------------------------------------------
\* The customer.
LEMMA CheckoutKeepsTypes ==
  ASSUME TypeInv, NEW q \in Requests, Checkout(q) PROVE TypeInv'
<1> USE NoRowType, RentalAssumption DEF Jobs
<1>0. /\ job[q] \in JobRecord /\ Placed(job[q])
      /\ q \in Jobs /\ RestTyped /\ RowsTyped
  BY DEF TypeInv, JobsFit
<1>1. CASE Look(q)
  <2> PICK o \in Offices, n \in Numbers \ held :
        LET row == [NoRow EXCEPT !.status = "pending", !.number = n, !.office = o]
            own == {r \in Rentals : rental[r] = row}
        IN \/ \E r \in own :
                job' = [job EXCEPT ![q] = [Idle EXCEPT !.pc = "supersede", !.rental = r]]
           \/ /\ own = {} /\ ~Clash(None, n)
              /\ job' = [job EXCEPT ![q] = [Idle EXCEPT !.pc = "create", !.row = row]]
    BY <1>1 DEF Look
  <2> DEFINE row == [NoRow EXCEPT !.status = "pending", !.number = n, !.office = o]
  <2>1. row \in RentalRow
    BY DEF RentalRow, NoRow
  <2>2. UNCHANGED <<rental, payment, now, held, route, told, faults>>
    BY <1>1 DEF Look, world, history
  <2>3. RestTyped'
    BY <1>0, <2>2 DEF RestTyped
  <2>4. ASSUME NEW r \in Rentals, rental[r] = row,
               job' = [job EXCEPT ![q] = [Idle EXCEPT !.pc = "supersede", !.rental = r]]
        PROVE  TypeInv'
    <3> DEFINE x == [Idle EXCEPT !.pc = "supersede", !.rental = r]
    <3>1. x \in JobRecord /\ Placed(x)
      BY <2>4 DEF JobRecord, Idle, Pcs, Placed, NoRow
    <3> HIDE DEF x
    <3> QED
      BY <1>0, <2>2, <2>3, <2>4, <3>1, MoveKeepsTypes DEF x
  <2>5. ASSUME job' = [job EXCEPT ![q] = [Idle EXCEPT !.pc = "create", !.row = row]]
        PROVE  TypeInv'
    <3> DEFINE x == [Idle EXCEPT !.pc = "create", !.row = row]
    <3>1. x \in JobRecord /\ Placed(x)
      BY <2>1 DEF JobRecord, Idle, Pcs, Placed, NoRow
    <3> HIDE DEF x
    <3> QED
      BY <1>0, <2>2, <2>3, <2>5, <3>1, MoveKeepsTypes DEF x
  <2> QED
    BY <2>4, <2>5
<1>2. CASE CreateRental(q)
  <2> DEFINE row == job[q].row
  <2>0. /\ row \in RentalRow /\ row.status = "pending" /\ row.number \in Numbers
        /\ ~row.bought /\ ~row.freed
    BY <1>0, <1>2 DEF CreateRental, JobRecord, Placed
  <2>1. CASE Clash(None, row.number)
    BY <1>0, <1>2, <2>1, IdlePlaced, MoveKeepsTypes DEF CreateRental, world, history, RestTyped
  <2>2. CASE ~Clash(None, row.number)
    <3> PICK r \in Rentals :
          /\ rental[r].status = "absent"
          /\ rental' = [rental EXCEPT ![r] = row]
          /\ job' = [job EXCEPT ![q] = [Idle EXCEPT !.pc = "supersede", !.rental = r]]
      BY <1>2, <2>2 DEF CreateRental
    <3>1. ~Clash(r, row.number)
      BY <2>2 DEF Clash
    <3>2. RowsTyped' /\ OneLiveRow' /\ RowsFit'
      BY <2>0, <3>1, RowWritten
    <3>3. UNCHANGED <<payment, now, held, route, told, faults>>
      BY <1>2 DEF CreateRental, world, history
    <3>4. RestTyped' /\ PaymentsFit' /\ Onward
      BY <1>0, <3>3, <2>0 DEF RestTyped, PaymentsFit, TypeInv, Onward, RowsTyped
    <3> DEFINE x == [Idle EXCEPT !.pc = "supersede", !.rental = r]
    <3>5. x \in JobRecord
      BY DEF JobRecord, Idle, Pcs
    <3>6. Placed(x)'
      BY <1>0, <2>0 DEF Idle, Placed, RowsTyped
    <3> HIDE DEF x
    <3> QED
      BY <1>0, <3>2, <3>4, <3>5, <3>6, WriteKeepsTypes DEF x
  <2> QED
    BY <2>1, <2>2
<1>3. CASE Supersede(q)
  <2> PICK x \in JobRecord : x = [job[q] EXCEPT !.pc = "open"]
    BY <1>0 DEF JobRecord, Pcs
  <2>1. job' = [job EXCEPT ![q] = x]
    BY <1>0, <1>3 DEF Supersede, Go, TypeInv, JobsFit
  <2>2. UNCHANGED <<rental, now, held, route, told, faults>>
    BY <1>3 DEF Supersede, world, history
  <2>3. ASSUME NEW p \in Payments
        PROVE  /\ payment'[p] \in {payment[p], [payment[p] EXCEPT !.status = "superseded"]}
               /\ payment'[p].rental = payment[p].rental
               /\ payment'[p].status = "absent" <=> payment[p].status = "absent"
    BY <1>0, <1>3 DEF Supersede, RestTyped
  <2>4. RestTyped'
    <3>1. payment' \in [Payments -> [status : {"absent", "pending", "superseded", "failed", "paid"},
                                     rental : Rentals \cup {None}]]
      BY <1>0, <1>3 DEF Supersede, RestTyped
    <3> QED
      BY <1>0, <2>2, <3>1 DEF RestTyped
  <2>5. Onward /\ PaymentsFit'
    BY <2>2, <2>3 DEF Onward, PaymentsFit, TypeInv
  <2>6. Placed(x)'
    BY <1>0, <1>3, <2>2 DEF Placed, Supersede, JobRecord
  <2>7. RowsTyped' /\ OneLiveRow' /\ RowsFit'
    BY <2>2 DEF TypeInv, RowsTyped, OneLiveRow, RowsFit, Live
  <2> QED
    BY <1>0, <2>1, <2>4, <2>5, <2>6, <2>7, WriteKeepsTypes
<1>4. CASE OpenPage(q)
  <2> PICK p \in Payments, status \in {"pending", "failed"} :
        /\ payment[p].status = "absent"
        /\ payment' = [payment EXCEPT ![p] = [status |-> status, rental |-> job[q].rental]]
    BY <1>4 DEF OpenPage
  <2>1. job[q].rental \in Rentals /\ rental[job[q].rental].status # "absent"
    BY <1>0, <1>4 DEF OpenPage, Placed
  <2>2. UNCHANGED <<rental, now, held, route, told, faults>> /\ job' = [job EXCEPT ![q] = Idle]
    BY <1>4 DEF OpenPage, world, history
  <2>3. RestTyped'
    BY <1>0, <2>1, <2>2 DEF RestTyped
  <2>4. Onward /\ PaymentsFit'
    BY <1>0, <2>1, <2>2 DEF Onward, PaymentsFit, TypeInv, RestTyped
  <2>5. RowsTyped' /\ OneLiveRow' /\ RowsFit'
    BY <2>2 DEF TypeInv, RowsTyped, OneLiveRow, RowsFit, Live
  <2> QED
    BY <1>0, <2>2, <2>3, <2>4, <2>5, IdlePlaced, WriteKeepsTypes
<1> QED
  BY <1>1, <1>2, <1>3, <1>4 DEF Checkout

LEMMA CancelKeepsTypes ==
  ASSUME TypeInv, NEW q \in Requests, Cancel(q) \/ CancelWrite(q) \/ AdminRelease(q) PROVE TypeInv'
<1> USE NoRowType, RentalAssumption DEF Jobs
<1>0. /\ job[q] \in JobRecord /\ Placed(job[q])
      /\ q \in Jobs /\ RestTyped /\ RowsTyped
  BY DEF TypeInv, JobsFit
<1>1. ASSUME NEW r \in Rentals, rental[r].status # "absent", NEW pc \in {"release", "cancel"},
             job' = [job EXCEPT ![q] = [Idle EXCEPT !.pc = pc, !.rental = r]],
             UNCHANGED <<rental, payment, now, held, route, told, faults>>
      PROVE  TypeInv'
  <2> DEFINE x == [Idle EXCEPT !.pc = pc, !.rental = r]
  <2>1. x \in JobRecord /\ Placed(x) /\ RestTyped'
    BY <1>0, <1>1 DEF JobRecord, Idle, Pcs, Placed, NoRow, RestTyped
  <2> HIDE DEF x
  <2> QED
    BY <1>0, <1>1, <2>1, MoveKeepsTypes DEF x
<1>2. CASE Cancel(q)
  BY <1>1, <1>2 DEF Cancel, world
<1>3. CASE AdminRelease(q)
  BY <1>1, <1>3 DEF AdminRelease, world
<1>4. CASE CancelWrite(q)
  <2> DEFINE r == job[q].rental
             row == [rental[r] EXCEPT !.status = "cancelled"]
  <2>1. r \in Rentals /\ rental[r].status # "absent" /\ rental[r] \in RentalRow
    BY <1>0, <1>4 DEF CancelWrite, Placed, RowsTyped
  <2>2. /\ UNCHANGED <<payment, now, held, route, told, faults>> /\ RestTyped'
        /\ job' = [job EXCEPT ![q] = Idle]
    BY <1>0, <1>4 DEF CancelWrite, world, RestTyped
  <2>3. CASE Clash(r, rental[r].number)
    BY <1>0, <1>4, <2>2, <2>3, IdlePlaced, MoveKeepsTypes DEF CancelWrite
  <2>4. CASE ~Clash(r, rental[r].number)
    <3>1. rental' = [rental EXCEPT ![r] = row]
      BY <1>4, <2>4 DEF CancelWrite
    <3>2. /\ row \in RentalRow /\ row.status = "cancelled" /\ row.number = rental[r].number
          /\ row.number \in Numbers
      BY <2>1 DEF RentalRow, TypeInv, RowsFit
    <3> HIDE DEF row
    <3>3. RowsTyped' /\ OneLiveRow' /\ RowsFit'
      BY <2>1, <2>4, <3>1, <3>2, RowWritten
    <3>4. PaymentsFit' /\ Onward
      BY <1>0, <2>1, <2>2, <3>1, <3>2 DEF PaymentsFit, TypeInv, Onward, RowsTyped
    <3> QED
      BY <1>0, <2>2, <3>3, <3>4, IdlePlaced, WriteKeepsTypes
  <2> QED
    BY <2>3, <2>4
<1> QED
  BY <1>2, <1>3, <1>4

-----------------------------------------------------------------------------
\* apply(), and what comes after it.
LEMMA ConfirmKeepsTypes ==
  ASSUME TypeInv, NEW q \in Requests, Confirm(q) PROVE TypeInv'
<1> USE NoRowType, RentalAssumption DEF Jobs
<1>0. /\ job[q] \in JobRecord /\ Placed(job[q])
      /\ q \in Jobs /\ RestTyped /\ RowsTyped
  BY DEF TypeInv, JobsFit
<1>1. CASE ClaimPayment(q)
  <2> PICK p \in Payments :
        /\ payment[p].status \in {"pending", "superseded"}
        /\ job' = [job EXCEPT ![q] = [Idle EXCEPT !.pc = "activate", !.payment = p,
                     !.rental = payment[p].rental, !.row = rental[payment[p].rental]]]
    BY <1>1 DEF ClaimPayment
  <2> DEFINE x == [Idle EXCEPT !.pc = "activate", !.payment = p, !.rental = payment[p].rental,
                               !.row = rental[payment[p].rental]]
  <2>1. payment[p].rental \in Rentals /\ rental[payment[p].rental].status # "absent"
    BY DEF TypeInv, PaymentsFit
  <2>2. x \in JobRecord /\ Placed(x)
    BY <1>0, <2>1 DEF JobRecord, Idle, Pcs, Placed, RowsTyped
  <2>3. UNCHANGED <<rental, payment>> /\ RestTyped'
    BY <1>0, <1>1 DEF ClaimPayment, world, history, RestTyped
  <2> HIDE DEF x
  <2> QED
    BY <1>0, <2>2, <2>3, MoveKeepsTypes DEF x
<1>2. CASE Activate(q)
  <2> DEFINE r == job[q].rental
             p == job[q].payment
  <2>0. /\ r \in Rentals /\ rental[r].status # "absent" /\ rental[r] \in RentalRow
        /\ p \in Payments /\ payment[p].rental = r /\ payment[p].status # "absent"
    BY <1>0, <1>2 DEF Activate, Placed, RowsTyped
  <2>1. UNCHANGED <<now, held, route, told, faults>>
    BY <1>2 DEF Activate, world
  <2>2. ASSUME payment' = [payment EXCEPT ![p].status = "paid"],
               \/ rental' = rental
               \/ /\ RowsTyped' /\ OneLiveRow' /\ RowsFit'
                  /\ \A x \in Rentals :
                       \/ rental'[x] = rental[x]
                       \/ rental'[x].status = "active" /\ rental'[x].number = rental[x].number
        PROVE  RestTyped' /\ PaymentsFit' /\ Onward /\ RowsTyped' /\ OneLiveRow' /\ RowsFit'
    <3>1. RestTyped'
      BY <1>0, <2>0, <2>1, <2>2 DEF RestTyped
    <3>2. \A x \in Payments : payment'[x].rental = payment[x].rental
                              /\ (payment[x].status # "absent" <=> payment'[x].status # "absent")
      BY <1>0, <2>0, <2>2 DEF RestTyped
    <3>3. PaymentsFit' /\ Onward
      BY <2>2, <3>2 DEF Onward, PaymentsFit, TypeInv
    <3> QED
      BY <2>2, <3>1, <3>3 DEF TypeInv, RowsTyped, OneLiveRow, RowsFit, Live
  <2>3. CASE ~Revivable(job[q].row)
    <3>1. payment' = [payment EXCEPT ![p].status = "paid"] /\ rental' = rental /\ Go(q, "orphan")
      BY <1>2, <2>3 DEF Activate
    <3> PICK x \in JobRecord : x = [job[q] EXCEPT !.pc = "orphan"]
      BY <1>0 DEF JobRecord, Pcs
    <3>2. Placed(x)'
      BY SMTT(30), <1>0, <1>2, <2>0, <2>2, <2>3, <3>1 DEF Placed, JobRecord, Revivable, Onward, Activate
    <3>3. job' = [job EXCEPT ![q] = x]
      BY <1>0, <3>1 DEF Go, TypeInv, JobsFit
    <3>4. RestTyped' /\ PaymentsFit' /\ Onward /\ RowsTyped' /\ OneLiveRow' /\ RowsFit'
      BY <2>2, <3>1
    <3> QED
      BY <1>0, <3>2, <3>3, <3>4, WriteKeepsTypes
  <2>4. CASE Revivable(job[q].row) /\ Clash(r, rental[r].number)
    <3>1. job' = [job EXCEPT ![q] = Idle] /\ UNCHANGED <<rental, payment>>
      BY <1>2, <2>4 DEF Activate
    <3> QED
      BY <1>0, <2>1, <3>1, IdlePlaced, MoveKeepsTypes DEF RestTyped
  <2>5. CASE Revivable(job[q].row) /\ ~Clash(r, rental[r].number)
    <3>1. /\ payment' = [payment EXCEPT ![p].status = "paid"]
          /\ rental' = [rental EXCEPT ![r].status = "active", ![r].end = NextPeriodEnd(job[q].row.end, now)]
          /\ Go(q, "provision")
      BY <1>2, <2>5 DEF Activate
    <3> DEFINE row == [rental[r] EXCEPT !.status = "active", !.end = NextPeriodEnd(job[q].row.end, now)]
    <3>2. NextPeriodEnd(job[q].row.end, now) \in Nat
      BY <1>0 DEF NextPeriodEnd, JobRecord, RentalRow, RestTyped
    <3>3. /\ row \in RentalRow /\ row.status = "active" /\ row.number = rental[r].number
          /\ row.number \in Numbers
      BY <2>0, <3>2 DEF RentalRow, TypeInv, RowsFit
    <3>4. rental' = [rental EXCEPT ![r] = row]
      BY <2>0, <3>1 DEF RowsTyped
    <3> HIDE DEF row
    <3>5. RowsTyped' /\ OneLiveRow' /\ RowsFit'
      BY <2>0, <2>5, <3>3, <3>4, RowWritten
    <3>6. \A x \in Rentals :
            \/ rental'[x] = rental[x]
            \/ rental'[x].status = "active" /\ rental'[x].number = rental[x].number
      BY <1>0, <2>0, <3>3, <3>4 DEF RowsTyped
    <3> PICK x \in JobRecord : x = [job[q] EXCEPT !.pc = "provision"]
      BY <1>0 DEF JobRecord, Pcs
    <3>7. Placed(x)'
      <4>1. rental'[r].status = "active"
        BY <1>0, <2>0, <3>3, <3>4 DEF RowsTyped
      <4>2. x.pc = "provision" /\ x.rental = r /\ x.due = job[q].due
        BY <1>0 DEF JobRecord
      <4>3. \A y \in x.due : rental'[y].status # "absent"
        BY <1>0, <2>2, <3>1, <3>5, <3>6, <4>2 DEF Placed, Onward, JobRecord
      <4> QED
        BY <2>0, <4>1, <4>2, <4>3 DEF Placed
    <3>8. job' = [job EXCEPT ![q] = x]
      BY <1>0, <3>1 DEF Go, TypeInv, JobsFit
    <3> QED
      BY <1>0, <2>2, <3>1, <3>5, <3>6, <3>7, <3>8, WriteKeepsTypes
  <2> QED
    BY <2>3, <2>4, <2>5
<1>3. CASE Report(q)
  BY <1>0, <1>3, IdlePlaced, MoveKeepsTypes DEF Report, world, RestTyped
<1>4. CASE Provision(q)
  <2> DEFINE row == rental[job[q].rental]
             x == [job[q] EXCEPT !.pc = "purchase", !.row = row]
  <2>1. row \in RentalRow
    BY <1>0, <1>4 DEF Provision, Placed, RowsTyped
  <2>2. x \in JobRecord /\ Placed(x)
    BY ZenonT(60), <1>0, <1>4, <2>1 DEF Provision, JobRecord, Pcs, Placed
  <2>3. UNCHANGED <<rental, payment>> /\ RestTyped'
    BY <1>0, <1>4 DEF Provision, world, history, RestTyped
  <2>4. job' = [job EXCEPT ![q] = x] \/ job' = [job EXCEPT ![q] = Idle]
    BY <1>0, <1>4 DEF Provision, TypeInv, JobsFit
  <2> HIDE DEF x
  <2> QED
    BY <1>0, <2>2, <2>3, <2>4, IdlePlaced, MoveKeepsTypes
<1>5. CASE Purchase(q)
  <2> DEFINE n == job[q].row.number
             x == [job[q] EXCEPT !.pc = "stamp"]
  <2>1. n \in Numbers
    BY <1>0, <1>5 DEF Purchase, Placed, TypeInv, RowsFit
  <2>2. UNCHANGED <<now, route, rental, payment>> /\ held' \subseteq Numbers /\ told' \subseteq Numbers
    BY <1>0, <1>5, <2>1 DEF Purchase, RestTyped
  <2>3. faults' \in 0 .. MaxFaults
    BY <1>0, <1>5 DEF Purchase, Fault, RestTyped
  <2>4. job' = [job EXCEPT ![q] = x] \/ job' = [job EXCEPT ![q] = Idle]
    BY <1>0, <1>5 DEF Purchase, Go, TypeInv, JobsFit
  <2>5. RestTyped'
    BY <1>0, <2>2, <2>3 DEF RestTyped
  <2>6. x \in JobRecord /\ Placed(x)
    BY ZenonT(60), <1>0, <1>5 DEF Purchase, JobRecord, Pcs, Placed
  <2> HIDE DEF x
  <2> QED
    BY <1>0, <2>2, <2>4, <2>5, <2>6, IdlePlaced, MoveKeepsTypes
<1>6. CASE StampPurchase(q)
  <2> DEFINE r == job[q].rental
             row == [rental[r] EXCEPT !.bought = TRUE]
  <2>0. /\ r \in Rentals /\ rental[r].status \notin {"absent", "pending"} /\ rental[r] \in RentalRow
    BY <1>0, <1>6 DEF StampPurchase, Placed, RowsTyped
  <2>1. /\ rental' = [rental EXCEPT ![r] = row] /\ UNCHANGED payment /\ RestTyped'
    BY <1>0, <1>6, <2>0 DEF StampPurchase, world, history, RowsTyped, RestTyped
  <2>2. /\ row \in RentalRow /\ row.status = rental[r].status /\ row.number = rental[r].number
        /\ row.number \in Numbers
    BY <2>0 DEF RentalRow, TypeInv, RowsFit
  <2>3. row.status # "released" => ~Clash(r, row.number)
    BY <2>0, <2>2, LiveIsAlone DEF Live
  <2> HIDE DEF row
  <2>4. RowsTyped' /\ OneLiveRow' /\ RowsFit'
    BY <2>0, <2>1, <2>2, <2>3, RowWritten
  <2>5. \A y \in Rentals : rental'[y].status = rental[y].status /\ rental'[y].number = rental[y].number
    BY <1>0, <2>0, <2>1, <2>2 DEF RowsTyped
  <2>6. PaymentsFit' /\ Onward
    BY <2>1, <2>5 DEF PaymentsFit, TypeInv, Onward
  <2> PICK x \in JobRecord : x = [job[q] EXCEPT !.pc = "route"]
    BY <1>0 DEF JobRecord, Pcs
  <2>7. Placed(x)'
    BY <1>0, <1>6, <2>0, <2>5 DEF Placed, JobRecord, StampPurchase
  <2>8. job' = [job EXCEPT ![q] = x]
    BY <1>0, <1>6 DEF StampPurchase, Go, TypeInv, JobsFit
  <2> QED
    BY <1>0, <2>1, <2>4, <2>6, <2>7, <2>8, WriteKeepsTypes
<1>7. CASE Route(q)
  <2>1. UNCHANGED <<rental, payment>> /\ job' = [job EXCEPT ![q] = Idle]
    BY <1>7 DEF Route
  <2>2. RestTyped'
    BY <1>0, <1>7 DEF Route, RestTyped, history
  <2> QED
    BY <1>0, <2>1, <2>2, IdlePlaced, MoveKeepsTypes
<1> QED
  BY <1>1, <1>2, <1>3, <1>4, <1>5, <1>6, <1>7 DEF Confirm

-----------------------------------------------------------------------------
\* releaseNow.
LEMMA ReleaseKeepsTypes ==
  ASSUME TypeInv, NEW j \in Jobs, Release(j) PROVE TypeInv'
<1> USE NoRowType, RentalAssumption
<1>0. job[j] \in JobRecord /\ Placed(job[j]) /\ RestTyped /\ RowsTyped
  BY DEF TypeInv, JobsFit
\* A replica keeps its list.
<1> DEFINE over == IF j \in Scanners THEN [Idle EXCEPT !.pc = "close", !.due = job[j].due] ELSE Idle
<1>1. over \in JobRecord /\ Placed(over) /\ (Done(j) => job' = [job EXCEPT ![j] = over])
  <2>1. CASE j \in Scanners
    BY <1>0, <2>1 DEF JobRecord, Pcs, Idle, Placed, Done
  <2>2. CASE j \notin Scanners
    BY <2>2, IdlePlaced DEF Done
  <2> QED
    BY <2>1, <2>2
<1> HIDE DEF over
<1>2. ASSUME ReadRelease(j) PROVE TypeInv'
  <2> DEFINE row == rental[job[j].rental]
             x == [job[j] EXCEPT !.row = row,
                                 !.pc = IF row.bought /\ ~row.freed THEN "drop" ELSE "close row"]
  <2>1. row \in RentalRow
    BY <1>0, <1>2 DEF ReadRelease, Placed, RowsTyped
  <2>2. x \in JobRecord /\ Placed(x)
    <3>1. PICK pc \in {"drop", "close row"} : x = [job[j] EXCEPT !.row = row, !.pc = pc]
      OBVIOUS
    <3> HIDE DEF row, x
    <3>2. /\ x \in JobRecord /\ x.pc = pc /\ x.row = row
          /\ x.rental = job[j].rental /\ x.due = job[j].due
      BY <1>0, <2>1, <3>1 DEF JobRecord, Pcs
    <3>3. /\ x.rental \in Rentals /\ rental[x.rental].status # "absent"
          /\ \A r \in x.due : rental[r].status # "absent"
      BY <1>0, <1>2, <3>2 DEF ReadRelease, Placed
    <3>4. x.row.number = rental[x.rental].number
      BY <3>2 DEF row
    <3> QED
      BY <3>2, <3>3, <3>4 DEF Placed
  <2>3. UNCHANGED <<rental, payment>> /\ RestTyped'
    BY <1>0, <1>2 DEF ReadRelease, world, history, RestTyped
  <2>4. job' = [job EXCEPT ![j] = over] \/ job' = [job EXCEPT ![j] = x]
    BY <1>0, <1>1, <1>2 DEF ReadRelease, TypeInv, JobsFit
  <2> HIDE DEF x
  <2> QED
    BY <1>1, <2>2, <2>3, <2>4, MoveKeepsTypes
<1>3. ASSUME Drop(j) PROVE TypeInv'
  <2> DEFINE x == [job[j] EXCEPT !.pc = "close row"]
  <2>1. x \in JobRecord /\ Placed(x)
    BY ZenonT(60), <1>0, <1>3 DEF Drop, JobRecord, Pcs, Placed
  <2>2. UNCHANGED <<rental, payment>> /\ RestTyped'
    <3>1. held' \subseteq held /\ faults' \in {faults, faults + 1} /\ (faults' # faults => faults < MaxFaults)
      BY <1>3 DEF Drop, Fault
    <3>2. UNCHANGED <<now, route, rental, payment, told>>
      BY <1>3 DEF Drop
    <3> QED
      BY <1>0, <3>1, <3>2 DEF RestTyped
  <2>3. job' = [job EXCEPT ![j] = over] \/ job' = [job EXCEPT ![j] = x]
    BY <1>0, <1>1, <1>3 DEF Drop, AfterRefusal, Go, TypeInv, JobsFit
  <2> HIDE DEF x
  <2> QED
    BY <1>1, <2>1, <2>2, <2>3, MoveKeepsTypes
<1>4. ASSUME CloseRow(j) PROVE TypeInv'
  <2> DEFINE r == job[j].rental
             row == [rental[r] EXCEPT !.status = "released", !.freed = TRUE]
  <2>0. /\ r \in Rentals /\ rental[r].status # "absent" /\ rental[r] \in RentalRow
    BY <1>0, <1>4 DEF CloseRow, Placed, RowsTyped
  <2>1. /\ rental' = [rental EXCEPT ![r] = row] /\ UNCHANGED payment /\ RestTyped'
    BY <1>0, <1>4, <2>0 DEF CloseRow, world, RowsTyped, RestTyped
  <2>2. /\ row \in RentalRow /\ row.status = "released" /\ row.number = rental[r].number
        /\ row.number \in Numbers
    BY <2>0 DEF RentalRow, TypeInv, RowsFit
  <2> HIDE DEF row
  <2>4. RowsTyped' /\ OneLiveRow' /\ RowsFit'
    BY <2>0, <2>1, <2>2, RowWritten
  <2>5. \A y \in Rentals : /\ rental'[y].number = rental[y].number
                           /\ rental'[y].status \in {rental[y].status, "released"}
    BY <1>0, <2>0, <2>1, <2>2 DEF RowsTyped
  <2>6. PaymentsFit' /\ Onward
    BY <2>1, <2>5 DEF PaymentsFit, TypeInv, Onward
  <2> PICK x \in JobRecord : x = [job[j] EXCEPT !.pc = "unroute"]
    BY <1>0 DEF JobRecord, Pcs
  <2>7. Placed(x)'
    <3>1. x.pc = "unroute" /\ x.rental = r /\ x.row = job[j].row /\ x.due = job[j].due
      BY <1>0 DEF JobRecord
    <3>2. \A y \in x.due : rental'[y].status # "absent"
      BY <1>0, <2>6, <3>1 DEF Placed, Onward, JobRecord
    <3>3. rental'[r].status # "absent" /\ job[j].row.number = rental'[r].number
      BY <1>0, <1>4, <2>0, <2>5, <2>6 DEF Placed, CloseRow, Onward
    <3> QED
      BY <2>0, <3>1, <3>2, <3>3 DEF Placed
  <2>8. job' = [job EXCEPT ![j] = x]
    BY <1>0, <1>4 DEF CloseRow, Go, TypeInv, JobsFit
  <2> QED
    BY <1>0, <2>1, <2>4, <2>6, <2>7, <2>8, WriteKeepsTypes
<1>5. ASSUME Unroute(j) PROVE TypeInv'
  <2>1. UNCHANGED <<rental, payment>> /\ job' = [job EXCEPT ![j] = over]
    BY <1>1, <1>5 DEF Unroute
  <2>2. RestTyped'
    BY <1>0, <1>5 DEF Unroute, RestTyped, history
  <2> QED
    BY <1>1, <2>1, <2>2, MoveKeepsTypes
<1> QED
  BY <1>2, <1>3, <1>4, <1>5 DEF Release

-----------------------------------------------------------------------------
\* tick(): what writes no row.
LEMMA ScanKeepsTypes ==
  ASSUME TypeInv, NEW c \in Scanners,
         \/ ListDue(c) \/ ReadRental(c) \/ ChargePaid(c) \/ ChargeDeclined(c) \/ ChargeLost(c)
         \/ ListCancelled(c) \/ ReleaseNext(c)
  PROVE  TypeInv'
<1> USE NoRowType, RentalAssumption DEF Jobs
<1>0. /\ job[c] \in JobRecord /\ Placed(job[c])
      /\ c \in Jobs /\ RestTyped /\ RowsTyped /\ now \in Nat
  BY DEF TypeInv, JobsFit, RestTyped
<1>1. UNCHANGED <<rental, payment>> /\ RestTyped'
  <2>1. UNCHANGED <<now, held, route, rental, payment, told>>
    BY DEF ListDue, ReadRental, ChargePaid, ChargeDeclined, ChargeLost, ListCancelled, ReleaseNext,
           world, history
  <2>2. CASE ChargeLost(c)
    <3>1. faults' = faults + 1 /\ faults < MaxFaults
      BY <2>2 DEF ChargeLost, Fault
    <3> QED
      BY <1>0, <2>1, <3>1 DEF RestTyped
  <2>3. CASE ~ChargeLost(c)
    <3>1. UNCHANGED faults
      BY <2>3 DEF ListDue, ReadRental, ChargePaid, ChargeDeclined, ListCancelled, ReleaseNext, history
    <3> QED
      BY <1>0, <2>1, <3>1 DEF RestTyped
  <2> QED
    BY <2>1, <2>2, <2>3
<1>2. CASE ListDue(c)
  <2> DEFINE due == {r \in Rentals : /\ rental[r].status = "active"
                                     /\ rental[r].end # None /\ rental[r].end <= now}
             x   == [Idle EXCEPT !.pc = "renew", !.at = now, !.due = due]
  <2>1. x \in JobRecord /\ Placed(x)
    BY <1>0 DEF JobRecord, Pcs, Idle, Placed
  <2>2. job' = [job EXCEPT ![c] = x]
    BY <1>2 DEF ListDue
  <2> HIDE DEF x
  <2> QED
    BY <1>0, <1>1, <2>1, <2>2, MoveKeepsTypes
<1>3. CASE ReadRental(c)
  <2> PICK r \in job[c].due :
        IF rental[r].status # "active"
          THEN job' = [job EXCEPT ![c].due = @ \ {r}]
          ELSE \E pc \in {"claim", "mark"} :
                 job' = [job EXCEPT ![c] = [@ EXCEPT !.pc = pc, !.due = job[c].due \ {r}, !.rental = r,
                           !.row = rental[r], !.to = NextPeriodEnd(rental[r].end, job[c].at)]]
    BY <1>3 DEF ReadRental
  <2>0. /\ r \in Rentals /\ rental[r].status # "absent" /\ rental[r] \in RentalRow
        /\ job[c].pc = "renew"
    BY <1>0, <1>3 DEF ReadRental, JobRecord, Placed, RowsTyped
  <2>1. CASE rental[r].status # "active"
    <3> DEFINE x == [job[c] EXCEPT !.due = @ \ {r}]
    <3>1. x \in JobRecord /\ Placed(x)
      BY <1>0, <2>0 DEF JobRecord, Placed
    <3>2. job' = [job EXCEPT ![c] = x]
      BY <1>0, <2>1 DEF TypeInv, JobsFit
    <3> HIDE DEF x
    <3> QED
      BY <1>0, <1>1, <3>1, <3>2, MoveKeepsTypes
  <2>2. CASE rental[r].status = "active"
    <3> PICK pc \in {"claim", "mark"} :
          job' = [job EXCEPT ![c] = [@ EXCEPT !.pc = pc, !.due = job[c].due \ {r}, !.rental = r,
                    !.row = rental[r], !.to = NextPeriodEnd(rental[r].end, job[c].at)]]
      BY <2>2
    <3> DEFINE x == [job[c] EXCEPT !.pc = pc, !.due = @ \ {r}, !.rental = r, !.row = rental[r],
                                   !.to = NextPeriodEnd(rental[r].end, job[c].at)]
    <3>1. NextPeriodEnd(rental[r].end, job[c].at) \in Nat
      BY <1>0, <2>0 DEF NextPeriodEnd, JobRecord, RentalRow
    <3>2. x \in JobRecord
      BY <1>0, <2>0, <3>1 DEF JobRecord, Pcs
    <3>3. Placed(x)
      BY <1>0, <2>0 DEF JobRecord, Placed
    <3>4. job' = [job EXCEPT ![c] = x]
      OBVIOUS
    <3> HIDE DEF x
    <3> QED
      BY <1>0, <1>1, <3>2, <3>3, <3>4, MoveKeepsTypes
  <2> QED
    BY <2>1, <2>2
<1>4. CASE ChargePaid(c)
  <2> DEFINE x == [Idle EXCEPT !.pc = "renew", !.at = job[c].at, !.due = job[c].due]
  <2>1. x \in JobRecord /\ Placed(x)
    BY <1>0 DEF JobRecord, Pcs, Idle, Placed
  <2>2. job' = [job EXCEPT ![c] = x]
    BY <1>4 DEF ChargePaid, Resume
  <2> HIDE DEF x
  <2> QED
    BY <1>0, <1>1, <2>1, <2>2, MoveKeepsTypes
<1>5. CASE ChargeDeclined(c) \/ ChargeLost(c)
  <2> DEFINE x == [job[c] EXCEPT !.pc = "roll back"]
  <2>1. x \in JobRecord /\ Placed(x)
    BY ZenonT(60), <1>0, <1>5 DEF JobRecord, Pcs, Placed, ChargeDeclined, ChargeLost
  <2>2. job' = [job EXCEPT ![c] = x]
    BY <1>0, <1>5 DEF ChargeDeclined, ChargeLost, Go, TypeInv, JobsFit
  <2> HIDE DEF x
  <2> QED
    BY <1>0, <1>1, <2>1, <2>2, MoveKeepsTypes
<1>6. CASE ListCancelled(c)
  <2> DEFINE x == [Idle EXCEPT !.pc = "close", !.due = {r \in Rentals : Ended(r)}]
  <2>1. x \in JobRecord /\ Placed(x)
    BY <1>0 DEF JobRecord, Pcs, Idle, Placed, Ended
  <2>2. job' = [job EXCEPT ![c] = x]
    BY <1>6 DEF ListCancelled
  <2> HIDE DEF x
  <2> QED
    BY <1>0, <1>1, <2>1, <2>2, MoveKeepsTypes
<1>7. CASE ReleaseNext(c)
  <2> PICK r \in job[c].due :
        job' = [job EXCEPT ![c] = [@ EXCEPT !.pc = "release", !.rental = r,
                                                  !.due = job[c].due \ {r}]]
    BY <1>7 DEF ReleaseNext
  <2> DEFINE x == [job[c] EXCEPT !.pc = "release", !.rental = r, !.due = @ \ {r}]
  <2>1. r \in Rentals
    BY <1>0 DEF JobRecord
  <2>2. x \in JobRecord
    BY <1>0, <2>1 DEF JobRecord, Pcs
  <2>3. Placed(x)
    <3>1. x.pc = "release" /\ x.rental = r /\ x.due = job[c].due \ {r}
      BY <1>0 DEF JobRecord
    <3> HIDE DEF x
    <3> QED
      BY <1>0, <2>1, <3>1 DEF Placed
  <2>4. job' = [job EXCEPT ![c] = x]
    OBVIOUS
  <2> HIDE DEF x
  <2> QED
    BY <1>0, <1>1, <2>2, <2>3, <2>4, MoveKeepsTypes
<1> QED
  BY <1>2, <1>3, <1>4, <1>5, <1>6, <1>7

\* The end of a period is claimed, and given back: one row has another end.
LEMMA PeriodSteps ==
  ASSUME TypeInv, NEW c \in Scanners, ClaimPeriod(c) \/ RollBack(c)
  PROVE  LET r == job[c].rental IN
         /\ r \in Rentals /\ rental[r].status # "absent"
         /\ \E row \in RentalRow :
              /\ rental' = [rental EXCEPT ![r] = row]
              /\ row.status = rental[r].status /\ row.number = rental[r].number
              /\ row.bought = rental[r].bought /\ row.freed = rental[r].freed
         /\ \E x \in JobRecord :
              /\ job' = [job EXCEPT ![c] = x] /\ x.due = job[c].due
              /\ x.pc \in {"charge", "mark", "renew"} /\ (x.pc # "renew" => x.rental = r)
<1> USE NoRowType, RentalAssumption DEF Jobs
<1> DEFINE r == job[c].rental
<1>0. /\ job[c] \in JobRecord /\ Placed(job[c]) /\ c \in Jobs /\ RowsTyped
      /\ r \in Rentals /\ rental[r].status # "absent" /\ rental[r] \in RentalRow
  BY DEF TypeInv, JobsFit, Placed, ClaimPeriod, RollBack, RowsTyped
<1>2. PICK end \in Nat \cup {None} : rental' = [rental EXCEPT ![r].end = end]
  <2>1. rental = [rental EXCEPT ![r].end = rental[r].end] /\ rental[r].end \in Nat \cup {None}
    BY <1>0 DEF RowsTyped, RentalRow
  <2>2. job[c].to \in Nat \cup {None} /\ job[c].row.end \in Nat \cup {None}
    BY <1>0 DEF JobRecord, RentalRow
  <2>3. CASE ClaimPeriod(c)
    BY <2>1, <2>2, <2>3 DEF ClaimPeriod
  <2>4. CASE RollBack(c)
    BY <2>1, <2>2, <2>4 DEF RollBack
  <2> QED
    BY <2>3, <2>4
<1> DEFINE row == [rental[r] EXCEPT !.end = end]
<1>3. /\ row \in RentalRow /\ row.status = rental[r].status /\ row.number = rental[r].number
      /\ row.bought = rental[r].bought /\ row.freed = rental[r].freed
  BY <1>0 DEF RentalRow
<1>4. rental' = [rental EXCEPT ![r] = row]
  BY <1>0, <1>2 DEF RowsTyped
<1> HIDE DEF row
<1>10. PICK x \in JobRecord :
         /\ job' = [job EXCEPT ![c] = x] /\ x.due = job[c].due
         /\ x.pc \in {"charge", "mark", "renew"} /\ (x.pc # "renew" => x.rental = r)
  <2> DEFINE go(pc) == [job[c] EXCEPT !.pc = pc]
             back == [Idle EXCEPT !.pc = "renew", !.at = job[c].at, !.due = job[c].due]
  <2>1. \A pc \in {"charge", "mark"} :
          go(pc) \in JobRecord /\ go(pc).pc = pc /\ go(pc).due = job[c].due /\ go(pc).rental = r
    BY <1>0 DEF JobRecord, Pcs
  <2>2. back \in JobRecord /\ back.pc = "renew" /\ back.due = job[c].due
    BY <1>0 DEF JobRecord, Pcs, Idle
  <2>3. CASE ClaimPeriod(c)
    <3>1. job' = [job EXCEPT ![c] = go("charge")] \/ job' = [job EXCEPT ![c] = back]
      BY <1>0, <2>3 DEF ClaimPeriod, Go, Resume, TypeInv, JobsFit
    <3> HIDE DEF go, back
    <3> QED
      BY <2>1, <2>2, <3>1
  <2>4. CASE RollBack(c)
    <3>1. job' = [job EXCEPT ![c] = go("mark")]
      BY <1>0, <2>4 DEF RollBack, Go, TypeInv, JobsFit
    <3> HIDE DEF go
    <3> QED
      BY <2>1, <3>1
  <2> QED
    BY <2>3, <2>4
<1> QED
  BY <1>0, <1>3, <1>4, <1>10

LEMMA PeriodKeepsTypes ==
  ASSUME TypeInv, NEW c \in Scanners, ClaimPeriod(c) \/ RollBack(c) PROVE TypeInv'
<1> USE RentalAssumption DEF Jobs
<1> DEFINE r == job[c].rental
<1>0. /\ job[c] \in JobRecord /\ Placed(job[c]) /\ c \in Jobs /\ RestTyped /\ RowsTyped
      /\ r \in Rentals /\ rental[r].status # "absent"
  BY PeriodSteps DEF TypeInv, JobsFit
<1>1. RestTyped' /\ UNCHANGED payment
  BY <1>0 DEF ClaimPeriod, RollBack, world, history, RestTyped
<1>2. PICK row \in RentalRow :
        /\ rental' = [rental EXCEPT ![r] = row]
        /\ row.status = rental[r].status /\ row.number = rental[r].number
        /\ row.bought = rental[r].bought /\ row.freed = rental[r].freed
  BY PeriodSteps
<1>3. PICK x \in JobRecord :
        /\ job' = [job EXCEPT ![c] = x] /\ x.due = job[c].due
        /\ x.pc \in {"charge", "mark", "renew"} /\ (x.pc # "renew" => x.rental = r)
  BY PeriodSteps
<1>4. row.status # "released" => ~Clash(r, row.number)
  BY <1>0, <1>2, LiveIsAlone DEF Live
<1>5. row.number \in Numbers /\ (row.status = "pending" => ~row.bought /\ ~row.freed)
  BY <1>0, <1>2 DEF TypeInv, RowsFit
<1>6. RowsTyped' /\ OneLiveRow' /\ RowsFit'
  BY <1>0, <1>2, <1>4, <1>5, RowWritten
<1>7. \A y \in Rentals : rental'[y].status = rental[y].status /\ rental'[y].number = rental[y].number
  BY <1>0, <1>2 DEF RowsTyped
<1>8. PaymentsFit' /\ Onward
  BY <1>1, <1>7 DEF PaymentsFit, TypeInv, Onward
<1>9. Placed(x)'
  BY <1>0, <1>3, <1>7 DEF Placed, JobRecord
<1> QED
  BY <1>0, <1>1, <1>3, <1>6, <1>8, <1>9, WriteKeepsTypes

LEMMA MarkKeepsTypes ==
  ASSUME TypeInv, NEW c \in Scanners, MarkPastDue(c) PROVE TypeInv'
<1> USE NoRowType, RentalAssumption DEF Jobs
<1> DEFINE r   == job[c].rental
           row == [rental[r] EXCEPT !.status = "past_due"]
<1>0. /\ job[c] \in JobRecord /\ Placed(job[c]) /\ c \in Jobs /\ RestTyped /\ RowsTyped
      /\ r \in Rentals /\ rental[r].status # "absent" /\ rental[r] \in RentalRow
  BY DEF TypeInv, JobsFit, Placed, MarkPastDue, RowsTyped
<1>1. RestTyped' /\ UNCHANGED payment
  BY <1>0 DEF MarkPastDue, world, RestTyped
<1>2. PICK x \in JobRecord : job' = [job EXCEPT ![c] = x] /\ x.due = job[c].due /\ x.pc = "renew"
  <2> DEFINE back == [Idle EXCEPT !.pc = "renew", !.at = job[c].at, !.due = job[c].due]
  <2>1. back \in JobRecord /\ back.pc = "renew" /\ back.due = job[c].due
    BY <1>0 DEF JobRecord, Pcs, Idle
  <2>2. job' = [job EXCEPT ![c] = back]
    BY DEF MarkPastDue, Resume
  <2> HIDE DEF back
  <2> QED
    BY <2>1, <2>2
<1>3. CASE Clash(r, rental[r].number)
  <2>1. rental' = rental
    BY <1>3 DEF MarkPastDue
  <2>2. Placed(x)
    BY <1>0, <1>2 DEF Placed
  <2> QED
    BY <1>0, <1>1, <1>2, <2>1, <2>2, MoveKeepsTypes
<1>4. CASE ~Clash(r, rental[r].number)
  <2>1. rental' = [rental EXCEPT ![r] = row]
    BY <1>4 DEF MarkPastDue, StatusUnpaid
  <2>2. /\ row \in RentalRow /\ row.status = "past_due" /\ row.number = rental[r].number
        /\ row.number \in Numbers
    BY <1>0 DEF RentalRow, TypeInv, RowsFit
  <2> HIDE DEF row
  <2>3. RowsTyped' /\ OneLiveRow' /\ RowsFit'
    BY <1>0, <1>4, <2>1, <2>2, RowWritten
  <2>4. \A y \in Rentals : /\ rental'[y].number = rental[y].number
                           /\ rental'[y].status \in {rental[y].status, "past_due"}
    BY <1>0, <2>1, <2>2 DEF RowsTyped
  <2>5. PaymentsFit' /\ Onward
    BY <1>1, <2>4 DEF PaymentsFit, TypeInv, Onward
  <2>6. Placed(x)'
    BY <1>0, <1>2, <2>4, <2>5 DEF Placed, Onward, JobRecord
  <2> QED
    BY <1>0, <1>1, <1>2, <2>3, <2>5, <2>6, WriteKeepsTypes
<1> QED
  BY <1>3, <1>4

LEMMA PurgeKeepsTypes ==
  ASSUME TypeInv, NEW c \in Scanners, Purge(c) PROVE TypeInv'
<1> USE NoRowType, RentalAssumption DEF Jobs
<1>0. job[c] \in JobRecord /\ c \in Jobs /\ RestTyped /\ RowsTyped
  BY DEF TypeInv, JobsFit
<1>1. RestTyped' /\ UNCHANGED payment /\ job' = [job EXCEPT ![c] = Idle]
  BY <1>0 DEF Purge, world, history, RestTyped
<1>2. PICK old \in SUBSET {r \in Rentals : rental[r].status = "pending"} :
        rental' = [r \in Rentals |-> IF r \in old THEN [rental[r] EXCEPT !.status = "released"]
                                     ELSE rental[r]]
  BY DEF Purge
<1>3. ASSUME NEW r \in Rentals
      PROVE  /\ rental'[r] \in RentalRow
             /\ rental'[r].number = rental[r].number /\ rental'[r].bought = rental[r].bought
             /\ rental'[r].freed = rental[r].freed
             /\ \/ rental'[r].status = rental[r].status
                \/ rental[r].status = "pending" /\ rental'[r].status = "released"
  <2>1. rental[r] \in RentalRow
    BY <1>0 DEF RowsTyped
  <2>2. \/ rental'[r] = rental[r]
        \/ rental[r].status = "pending" /\ rental'[r] = [rental[r] EXCEPT !.status = "released"]
    BY <1>2
  <2> QED
    BY <2>1, <2>2 DEF RentalRow
<1>4. RowsTyped'
  BY <1>2, <1>3 DEF RowsTyped
<1>5. OneLiveRow'
  BY <1>3 DEF OneLiveRow, Live, TypeInv
<1>6. RowsFit' /\ PaymentsFit' /\ Onward
  BY <1>1, <1>3 DEF RowsFit, PaymentsFit, Onward, TypeInv
<1> QED
  BY <1>0, <1>1, <1>4, <1>5, <1>6, IdlePlaced, WriteKeepsTypes

LEMMA StepKeepsTypes == TypeInv /\ [RentalNext]_rentalVars => TypeInv'
<1> SUFFICES ASSUME TypeInv, [RentalNext]_rentalVars PROVE TypeInv'
  OBVIOUS
<1>1. ASSUME NEW j \in Jobs, Kill(j) PROVE TypeInv'
  <2>1. /\ UNCHANGED <<rental, payment, now, held, route, told>>
        /\ faults' \in 0 .. MaxFaults /\ job' = [job EXCEPT ![j] = Idle]
    BY <1>1, RentalAssumption DEF Kill, Fault, world, TypeInv, RestTyped
  <2>2. RestTyped'
    BY <2>1 DEF TypeInv, RestTyped
  <2> QED
    BY <2>1, <2>2, NoRowType, IdlePlaced, MoveKeepsTypes
<1>2. CASE Pass
  <2>1. UNCHANGED <<rental, payment, job>> /\ RestTyped'
    BY <1>2, RentalAssumption DEF Pass, history, TypeInv, RestTyped
  <2> QED
    BY <2>1 DEF TypeInv, RowsTyped, OneLiveRow, Live, RowsFit, PaymentsFit, JobsFit, Placed
<1>3. CASE UNCHANGED rentalVars
  BY <1>3 DEF rentalVars, world, history, TypeInv, RowsTyped, OneLiveRow, Live, RowsFit, PaymentsFit,
              JobsFit, Placed, RestTyped
<1>4. ASSUME NEW c \in Scanners, Tick(c) PROVE TypeInv'
  BY <1>4, ScanKeepsTypes, PeriodKeepsTypes, MarkKeepsTypes, PurgeKeepsTypes, ReleaseKeepsTypes
  DEF Tick, Jobs
<1> QED
  BY <1>1, <1>2, <1>3, <1>4, CheckoutKeepsTypes, CancelKeepsTypes, ConfirmKeepsTypes, ReleaseKeepsTypes
  DEF RentalNext, Jobs

LEMMA InitTypes == RentalInit => TypeInv
<1> SUFFICES ASSUME RentalInit PROVE TypeInv
  OBVIOUS
<1> USE NoRowType, RentalAssumption
<1> PICK first \in SUBSET Rentals, n \in Numbers, o \in Offices :
       LET row == [NoRow EXCEPT !.status = "active", !.number = n, !.office = o, !.end = 1,
                                !.bought = TRUE]
       IN /\ \A r, x \in first : r = x
          /\ rental = [r \in Rentals |-> IF r \in first THEN row ELSE NoRow]
          /\ held = IF first = {} THEN {} ELSE {n}
          /\ route = [x \in Offices \X Numbers |->
                        IF first # {} /\ x = <<o, n>> THEN "on" ELSE "none"]
  BY DEF RentalInit
<1> DEFINE row == [NoRow EXCEPT !.status = "active", !.number = n, !.office = o, !.end = 1,
                                !.bought = TRUE]
<1>1. row \in RentalRow /\ row.status = "active" /\ row.number = n
  BY DEF RentalRow, NoRow
<1>2. rental = [r \in Rentals |-> IF r \in first THEN row ELSE NoRow]
  OBVIOUS
<1>3. NoRow.status = "absent" /\ NoRow.number = None /\ ~NoRow.bought /\ ~NoRow.freed
  BY DEF NoRow
<1> HIDE DEF row
<1>4. RowsTyped /\ RowsFit
  BY <1>1, <1>2, <1>3 DEF RowsTyped, RowsFit
<1>5. OneLiveRow
  <2>1. \A r, x \in first : r = x
    OBVIOUS
  <2> QED
    BY <1>2, <1>3, <2>1 DEF OneLiveRow, Live
<1>6. RestTyped
  <2>1. held \subseteq Numbers /\ route \in [Offices \X Numbers -> {"none", "on", "off"}]
    OBVIOUS
  <2>2. now = 0 /\ faults = 0 /\ told = {} /\ payment = [p \in Payments |-> [status |-> "absent", rental |-> None]]
    BY DEF RentalInit
  <2> QED
    BY <2>1, <2>2 DEF RestTyped
<1>7. PaymentsFit /\ JobsFit
  BY IdlePlaced DEF RentalInit, PaymentsFit, JobsFit
<1> QED
  BY <1>4, <1>5, <1>6, <1>7 DEF TypeInv

-----------------------------------------------------------------------------
(***************************************************************************)
(* What is released was to be released, and who cancelled is not active.   *)
(***************************************************************************)

\* A release of the rental has begun and not yet closed the row.
Closing(x, r) ==
  \/ x.rental = r /\ x.pc \in {"release", "drop", "close row"}
  \/ r \in x.due /\ x.pc \in {"close", "release", "drop", "close row", "unroute"}

\* What a job releases, somebody wanted released, or it is known to be crossed.
Wanted(x) == \A r \in Rentals : Closing(x, r) => r \in asked \cup quit \cup crossed

\* A number is taken for a live rental, or it is known to be crossed.
Stamping(x) ==
  x.pc = "stamp" => rental[x.rental].status # "released" \/ x.rental \in crossed

\* A rental that was found released stays so, or is known to be crossed.
Outlived(x) ==
  x.pc \in {"activate", "orphan"} /\ x.row.status = "released" =>
    rental[x.rental].status = "released" \/ x.rental \in crossed

Agreed(x) == Wanted(x) /\ Stamping(x) /\ Outlived(x)

FreedFit == \A r \in Rentals : rental[r].freed => rental[r].status = "released" \/ r \in crossed

QuitFit ==
  \A r \in Rentals :
    /\ rental[r].status = "cancelled" => r \in quit
    /\ r \in quit => rental[r].status \in {"cancelled", "past_due", "released"}

RequestInv ==
  /\ \A j \in Jobs : Agreed(job[j])
  /\ FreedFit
  /\ QuitFit
  /\ LostOnlyOnRequest

\* Steps that write no row of a rental.
LEMMA MoveKeepsRequests ==
  ASSUME TypeInv, RequestInv, NEW j \in Jobs, NEW x \in JobRecord, job' = [job EXCEPT ![j] = x],
         Agreed(x)', UNCHANGED <<rental, quit>>, asked \subseteq asked', crossed \subseteq crossed'
  PROVE  RequestInv'
<1>1. ASSUME NEW k \in Jobs, k # j PROVE Agreed(job[k])'
  <2>1. job'[k] = job[k] /\ Agreed(job[k])
    BY <1>1 DEF TypeInv, JobsFit, RequestInv
  <2> QED
    BY <2>1 DEF Agreed, Wanted, Stamping, Outlived, Closing
<1>2. \A k \in Jobs : Agreed(job[k])'
  BY <1>1 DEF TypeInv, JobsFit
<1> QED
  BY <1>2 DEF RequestInv, FreedFit, QuitFit, LostOnlyOnRequest

\* One row of a rental is written.
LEMMA RowKeepsRequests ==
  ASSUME TypeInv, RequestInv, NEW j \in Jobs, NEW x \in JobRecord, job' = [job EXCEPT ![j] = x],
         Agreed(x)', NEW r \in Rentals, NEW row \in RentalRow, rental' = [rental EXCEPT ![r] = row],
         crossed \subseteq crossed',
         \A y \in Rentals \ {r} : (y \in asked' <=> y \in asked) /\ (y \in quit' <=> y \in quit),
         r \in asked \cup quit \cup crossed => r \in asked' \cup quit' \cup crossed' \/ ~Releasing(r),
         rental[r].status = "released" /\ row.status # "released" => r \in crossed',
         row.status = "released" /\ (\E k \in Jobs : job[k].pc = "stamp" /\ job[k].rental = r) =>
           rental[r].status = "released" \/ r \in crossed',
         row.freed => row.status = "released" \/ r \in crossed',
         row.status = "cancelled" => r \in quit',
         r \in quit' => row.status \in {"cancelled", "past_due", "released"},
         row.bought /\ row.status = "released" => r \in asked' \cup quit' \cup crossed'
  PROVE  RequestInv'
<1>0. \A y \in Rentals : rental'[y] = IF y = r THEN row ELSE rental[y]
  BY DEF TypeInv, RowsTyped
<1>1. ASSUME NEW k \in Jobs, k # j PROVE Agreed(job[k])'
  <2>1. job'[k] = job[k] /\ Agreed(job[k]) /\ Placed(job[k])
    BY <1>1 DEF TypeInv, JobsFit, RequestInv
  <2>2. Wanted(job[k])'
    <3> SUFFICES ASSUME NEW y \in Rentals, Closing(job[k], y)
                 PROVE  y \in asked' \cup quit' \cup crossed'
      BY <2>1 DEF Wanted, Closing
    <3>1. y \in asked \cup quit \cup crossed /\ Releasing(y)
      BY <2>1 DEF Agreed, Wanted, Releasing, Closing
    <3> QED
      BY <3>1
  <2>3. Stamping(job[k])'
    BY <1>0, <2>1 DEF Agreed, Stamping, Placed
  <2>4. Outlived(job[k])'
    BY ZenonT(60), <1>0, <2>1 DEF Agreed, Outlived, Placed
  <2> QED
    BY <2>2, <2>3, <2>4 DEF Agreed
<1>2. \A k \in Jobs : Agreed(job[k])'
  BY <1>1 DEF TypeInv, JobsFit
<1>3. FreedFit' /\ QuitFit' /\ LostOnlyOnRequest'
  BY <1>0 DEF RequestInv, FreedFit, QuitFit, LostOnlyOnRequest
<1> QED
  BY <1>2, <1>3 DEF RequestInv

\* A job that releases, stamps and activates nothing.
LEMMA HarmlessAgreed ==
  ASSUME NEW x \in JobRecord,
         x.pc \notin {"activate", "orphan", "stamp", "close", "release", "drop", "close row", "unroute"}
  PROVE  Agreed(x)'
BY DEF Agreed, Wanted, Stamping, Outlived, Closing

LEMMA CheckoutKeepsRequests ==
  ASSUME TypeInv, RequestInv, NEW q \in Requests, Checkout(q) PROVE RequestInv'
<1> USE NoRowType, RentalAssumption DEF Jobs
<1>0. job[q] \in JobRecord /\ Placed(job[q]) /\ q \in Jobs /\ RowsTyped
  BY DEF TypeInv, JobsFit
<1>1. UNCHANGED <<quit, asked, crossed>>
  BY DEF Checkout, Look, CreateRental, Supersede, OpenPage, history
\* Where the request goes is not where anything is released.
<1>2. PICK x \in JobRecord :
        job' = [job EXCEPT ![q] = x] /\ x.pc \in {"idle", "supersede", "create", "open"}
  <2> DEFINE row(o, n) == [NoRow EXCEPT !.status = "pending", !.number = n, !.office = o]
             found(r) == [Idle EXCEPT !.pc = "supersede", !.rental = r]
             new(o, n) == [Idle EXCEPT !.pc = "create", !.row = row(o, n)]
             opened == [job[q] EXCEPT !.pc = "open"]
  <2>1. \A r \in Rentals : found(r) \in JobRecord /\ found(r).pc = "supersede"
    BY DEF Idle, JobRecord, Pcs
  <2>2. ASSUME NEW o \in Offices, NEW n \in Numbers
        PROVE  new(o, n) \in JobRecord /\ new(o, n).pc = "create"
    BY DEF Idle, JobRecord, Pcs, RentalRow, NoRow
  <2>3. opened \in JobRecord /\ opened.pc = "open" /\ Idle.pc = "idle"
    BY <1>0 DEF Idle, JobRecord, Pcs
  <2>4. CASE Look(q)
    <3>1. \E o \in Offices, n \in Numbers :
            \/ \E r \in Rentals : job' = [job EXCEPT ![q] = found(r)]
            \/ job' = [job EXCEPT ![q] = new(o, n)]
      BY <2>4 DEF Look
    <3> HIDE DEF found, new
    <3> QED
      BY <2>1, <2>2, <3>1
  <2>5. CASE CreateRental(q)
    <3>1. \/ job' = [job EXCEPT ![q] = Idle]
          \/ \E r \in Rentals : job' = [job EXCEPT ![q] = found(r)]
      BY <2>5 DEF CreateRental
    <3> HIDE DEF found
    <3> QED
      BY <2>1, <2>3, <3>1
  <2>6. CASE Supersede(q)
    <3>1. job' = [job EXCEPT ![q] = opened]
      BY <1>0, <2>6 DEF Supersede, Go, TypeInv, JobsFit
    <3> HIDE DEF opened
    <3> QED
      BY <2>3, <3>1
  <2>7. CASE OpenPage(q)
    BY <2>3, <2>7 DEF OpenPage
  <2> QED
    BY <2>4, <2>5, <2>6, <2>7 DEF Checkout
<1>3. Agreed(x)'
  BY <1>2, HarmlessAgreed
<1>4. CASE rental' = rental
  BY <1>0, <1>1, <1>2, <1>3, <1>4, MoveKeepsRequests
<1>5. CASE rental' # rental
  <2>1. CreateRental(q)
    BY <1>5 DEF Checkout, Look, Supersede, OpenPage
  <2>2. PICK r \in Rentals : rental[r].status = "absent" /\ rental' = [rental EXCEPT ![r] = job[q].row]
    BY <1>5, <2>1 DEF CreateRental
  <2>3. PICK row \in RentalRow : row = job[q].row /\ row.status = "pending" /\ ~row.bought /\ ~row.freed
    BY <1>0, <2>1 DEF CreateRental, JobRecord, Placed
  <2>4. r \notin quit
    BY <2>2 DEF RequestInv, QuitFit
  <2> QED
    BY <1>0, <1>1, <1>2, <1>3, <2>2, <2>3, <2>4, RowKeepsRequests
<1> QED
  BY <1>4, <1>5

LEMMA CancelKeepsRequests ==
  ASSUME TypeInv, RequestInv, NEW q \in Requests, Cancel(q) \/ CancelWrite(q) \/ AdminRelease(q)
  PROVE  RequestInv'
<1> USE NoRowType, RentalAssumption DEF Jobs
<1>0. job[q] \in JobRecord /\ Placed(job[q]) /\ q \in Jobs /\ RowsTyped
  BY DEF TypeInv, JobsFit
<1> DEFINE go(r, pc) == [Idle EXCEPT !.pc = pc, !.rental = r]
<1>1. \A r \in Rentals, pc \in {"release", "cancel"} :
        go(r, pc) \in JobRecord /\ go(r, pc).pc = pc /\ go(r, pc).rental = r /\ go(r, pc).due = {}
  BY ZenonT(60) DEF Idle, JobRecord, Pcs
<1> HIDE DEF go
\* An order is released at once, and anything an administrator wants to be.
<1>2. ASSUME NEW r \in Rentals, job' = [job EXCEPT ![q] = go(r, "release")],
             asked' = asked \cup {r}, UNCHANGED <<rental, quit, crossed>>
      PROVE  RequestInv'
  <2> PICK x \in JobRecord : x = go(r, "release")
    BY <1>1
  <2>1. Agreed(x)'
    BY <1>1, <1>2 DEF Agreed, Wanted, Stamping, Outlived, Closing
  <2> QED
    BY <1>0, <1>2, <2>1, MoveKeepsRequests
<1>3. CASE AdminRelease(q)
  BY <1>2, <1>3 DEF AdminRelease, go
<1>4. CASE Cancel(q)
  <2> PICK r \in Rentals :
        IF rental[r].status = "pending"
          THEN /\ job' = [job EXCEPT ![q] = go(r, "release")]
               /\ asked' = asked \cup {r}
          ELSE /\ job' = [job EXCEPT ![q] = go(r, "cancel")]
               /\ UNCHANGED asked
    BY <1>4 DEF Cancel, go
  <2>1. UNCHANGED <<rental, quit, crossed>>
    BY <1>4 DEF Cancel
  <2>2. CASE rental[r].status # "pending"
    <3> PICK x \in JobRecord : x = go(r, "cancel")
      BY <1>1
    <3>1. Agreed(x)'
      BY <1>1, HarmlessAgreed
    <3> QED
      BY <1>0, <2>1, <2>2, <3>1, MoveKeepsRequests
  <2> QED
    BY <1>2, <2>1, <2>2
<1>5. CASE CancelWrite(q)
  <2> DEFINE r == job[q].rental
  <2>1. r \in Rentals /\ rental[r].status # "absent" /\ rental[r] \in RentalRow
    BY <1>0, <1>5 DEF CancelWrite, Placed, RowsTyped
  <2>2. job' = [job EXCEPT ![q] = Idle] /\ UNCHANGED asked /\ Agreed(Idle)'
    BY <1>5, HarmlessAgreed DEF CancelWrite, Idle, Agreed, Wanted, Stamping, Outlived, Closing
  <2>3. CASE Clash(r, rental[r].number)
    BY <1>0, <1>5, <2>2, <2>3, MoveKeepsRequests DEF CancelWrite
  <2>4. CASE ~Clash(r, rental[r].number)
    <3> DEFINE row == [rental[r] EXCEPT !.status = "cancelled"]
    <3>1. /\ rental' = [rental EXCEPT ![r] = row]
          /\ quit' = quit \cup {r}
          /\ crossed' = IF Live(r) THEN crossed ELSE crossed \cup {r}
      BY <1>5, <2>4 DEF CancelWrite
    <3>2. row \in RentalRow /\ row.status = "cancelled" /\ row.freed = rental[r].freed
      BY <2>1 DEF RentalRow
    <3> HIDE DEF row
    <3>3. rental[r].status = "released" => r \in crossed'
      BY <3>1 DEF Live
    <3>4. row.freed => r \in crossed'
      BY <2>1, <3>1, <3>2, <3>3 DEF RequestInv, FreedFit
    <3> QED
      BY <1>0, <2>1, <2>2, <3>1, <3>2, <3>3, <3>4, RowKeepsRequests
  <2> QED
    BY <2>3, <2>4
<1> QED
  BY <1>3, <1>4, <1>5

LEMMA ConfirmKeepsRequests ==
  ASSUME TypeInv, RequestInv, NEW q \in Requests, Confirm(q) PROVE RequestInv'
<1> USE NoRowType, RentalAssumption DEF Jobs
<1>0. /\ job[q] \in JobRecord /\ Placed(job[q]) /\ Agreed(job[q])
      /\ q \in Jobs /\ RowsTyped
  BY DEF TypeInv, JobsFit, RequestInv
<1>i. Agreed(Idle)'
  BY DEF Idle, Agreed, Wanted, Stamping, Outlived, Closing
<1>1. CASE ClaimPayment(q)
  <2> PICK p \in Payments :
        /\ payment[p].status \in {"pending", "superseded"}
        /\ job' = [job EXCEPT ![q] = [Idle EXCEPT !.pc = "activate", !.payment = p,
                     !.rental = payment[p].rental, !.row = rental[payment[p].rental]]]
    BY <1>1 DEF ClaimPayment
  <2>1. payment[p].rental \in Rentals
    BY DEF TypeInv, PaymentsFit
  <2>2. PICK x \in JobRecord : x = [Idle EXCEPT !.pc = "activate", !.payment = p,
                     !.rental = payment[p].rental, !.row = rental[payment[p].rental]]
    BY <1>0, <2>1 DEF JobRecord, Idle, Pcs, RowsTyped
  <2>3. UNCHANGED <<rental, quit, asked, crossed>>
    BY <1>1 DEF ClaimPayment, history
  <2>4. x.pc = "activate" /\ x.due = {} /\ x.row = rental[x.rental]
    BY <2>2 DEF Idle
  <2>5. Agreed(x)'
    BY <2>3, <2>4 DEF Agreed, Wanted, Stamping, Outlived, Closing
  <2> QED
    BY <1>0, <2>2, <2>3, <2>5, MoveKeepsRequests
<1>2. CASE Activate(q)
  <2> DEFINE r == job[q].rental
  <2>0. r \in Rentals /\ rental[r].status # "absent" /\ rental[r] \in RentalRow
    BY <1>0, <1>2 DEF Activate, Placed, RowsTyped
  <2>1. CASE ~Revivable(job[q].row)
    <3>1. UNCHANGED <<rental, quit, asked, crossed>> /\ Go(q, "orphan")
      BY <1>2, <2>1 DEF Activate
    <3> PICK x \in JobRecord : x = [job[q] EXCEPT !.pc = "orphan"]
      BY <1>0 DEF JobRecord, Pcs
    <3>2. x.pc = "orphan" /\ x.due = job[q].due /\ x.rental = r /\ x.row = job[q].row
      BY <1>0 DEF JobRecord
    <3>3. Agreed(x)'
      BY <1>0, <1>2, <3>1, <3>2 DEF Activate, Agreed, Wanted, Stamping, Outlived, Closing
    <3>4. job' = [job EXCEPT ![q] = x]
      BY <1>0, <3>1 DEF Go, TypeInv, JobsFit
    <3> QED
      BY <1>0, <3>1, <3>3, <3>4, MoveKeepsRequests
  <2>2. CASE Revivable(job[q].row) /\ Clash(r, rental[r].number)
    BY <1>0, <1>2, <1>i, <2>2, MoveKeepsRequests DEF Activate
  <2>3. CASE Revivable(job[q].row) /\ ~Clash(r, rental[r].number)
    <3> DEFINE row == [rental[r] EXCEPT !.status = "active", !.end = NextPeriodEnd(job[q].row.end, now)]
    <3>1. /\ rental' = [rental EXCEPT ![r] = row]
          /\ Go(q, "provision")
          /\ quit' = quit \ {r} /\ asked' = asked \ {r}
          /\ crossed' = IF Releasing(r) \/ job[q].row # rental[r] THEN crossed \cup {r} ELSE crossed
      BY <1>2, <2>0, <2>3 DEF Activate, RowsTyped, TypeInv
    <3>2. row \in RentalRow /\ row.status = "active" /\ row.freed = rental[r].freed
      <4>1. NextPeriodEnd(job[q].row.end, now) \in Nat
        BY <1>0 DEF NextPeriodEnd, JobRecord, RentalRow, TypeInv, RestTyped
      <4> QED
        BY <2>0, <4>1 DEF RentalRow
    <3> HIDE DEF row
    <3>3. rental[r].status = "released" => r \in crossed'
      BY <2>3, <3>1 DEF Revivable
    <3>4. row.freed => r \in crossed'
      BY <2>0, <3>1, <3>2, <3>3 DEF RequestInv, FreedFit
    <3> PICK x \in JobRecord : x = [job[q] EXCEPT !.pc = "provision"]
      BY <1>0 DEF JobRecord, Pcs
    <3>5. Agreed(x)' /\ job' = [job EXCEPT ![q] = x]
      <4>1. x.pc = "provision"
        BY <1>0 DEF JobRecord
      <4> QED
        BY <1>0, <3>1, <4>1, HarmlessAgreed DEF Go, TypeInv, JobsFit
    <3> QED
      BY <1>0, <2>0, <3>1, <3>2, <3>3, <3>4, <3>5, RowKeepsRequests
  <2> QED
    BY <2>1, <2>2, <2>3
<1>3. CASE Report(q)
  BY <1>0, <1>3, <1>i, MoveKeepsRequests DEF Report
<1>4. CASE Provision(q)
  <2>1. UNCHANGED <<rental, quit, asked, crossed>>
    BY <1>4 DEF Provision, history
  <2> DEFINE row == rental[job[q].rental]
  <2>2. row \in RentalRow
    BY <1>0, <1>4 DEF Provision, Placed, RowsTyped
  <2> PICK x \in JobRecord : x = [job[q] EXCEPT !.pc = "purchase", !.row = row]
    BY <1>0, <2>2 DEF JobRecord, Pcs
  <2>3. Agreed(x)'
    <3>1. x.pc = "purchase"
      BY <1>0 DEF JobRecord
    <3> QED
      BY <3>1, HarmlessAgreed
  <2>4. job' = [job EXCEPT ![q] = x] \/ job' = [job EXCEPT ![q] = Idle]
    BY <1>0, <1>4 DEF Provision, TypeInv, JobsFit
  <2> QED
    BY <1>0, <1>i, <2>1, <2>3, <2>4, MoveKeepsRequests
<1>5. CASE Purchase(q)
  <2> DEFINE r == job[q].rental
  <2> PICK x \in JobRecord : x = [job[q] EXCEPT !.pc = "stamp"]
    BY <1>0 DEF JobRecord, Pcs
  <2>0. x.pc = "stamp" /\ x.rental = r /\ x.due = job[q].due /\ job[q].pc = "purchase"
    BY <1>0, <1>5 DEF JobRecord, Purchase
  <2>1. UNCHANGED <<rental, quit, asked>> /\ crossed \subseteq crossed'
    BY <1>5 DEF Purchase
  <2>2. \/ job' = [job EXCEPT ![q] = Idle]
        \/ /\ job' = [job EXCEPT ![q] = x]
           /\ crossed' = IF Releasing(r) \/ ~Live(r) THEN crossed \cup {r} ELSE crossed
    BY <1>0, <1>5 DEF Purchase, Go, TypeInv, JobsFit
  <2>3. ASSUME crossed' = IF Releasing(r) \/ ~Live(r) THEN crossed \cup {r} ELSE crossed
        PROVE  Agreed(x)'
    BY <2>0, <2>1, <2>3 DEF Live, Agreed, Wanted, Stamping, Outlived, Closing
  <2> QED
    BY <1>0, <1>i, <2>1, <2>2, <2>3, MoveKeepsRequests
<1>6. CASE StampPurchase(q)
  <2> DEFINE r == job[q].rental
             row == [rental[r] EXCEPT !.bought = TRUE]
  <2>0. r \in Rentals /\ rental[r] \in RentalRow /\ job[q].pc = "stamp"
    BY <1>0, <1>6 DEF StampPurchase, Placed, RowsTyped
  <2>1. rental' = [rental EXCEPT ![r] = row] /\ UNCHANGED <<quit, asked, crossed>>
    BY <1>0, <1>6, <2>0 DEF StampPurchase, history, RowsTyped
  <2>2. row \in RentalRow /\ row.status = rental[r].status /\ row.freed = rental[r].freed
    BY <2>0 DEF RentalRow
  <2> HIDE DEF row
  <2>3. row.status = "released" => r \in crossed
    BY <1>0, <2>0, <2>2 DEF Agreed, Stamping
  <2>4. /\ row.freed => row.status = "released" \/ r \in crossed
        /\ row.status = "cancelled" => r \in quit
        /\ r \in quit => row.status \in {"cancelled", "past_due", "released"}
    BY <2>0, <2>2 DEF RequestInv, FreedFit, QuitFit
  <2> PICK x \in JobRecord : x = [job[q] EXCEPT !.pc = "route"]
    BY <1>0 DEF JobRecord, Pcs
  <2>5. Agreed(x)' /\ job' = [job EXCEPT ![q] = x]
    <3>1. x.pc = "route"
      BY <1>0 DEF JobRecord
    <3> QED
      BY <1>0, <1>6, <3>1, HarmlessAgreed DEF StampPurchase, Go, TypeInv, JobsFit
  <2> QED
    BY <1>0, <2>0, <2>1, <2>2, <2>3, <2>4, <2>5, RowKeepsRequests
<1>7. CASE Route(q)
  BY <1>0, <1>7, <1>i, MoveKeepsRequests DEF Route, history
<1> QED
  BY <1>1, <1>2, <1>3, <1>4, <1>5, <1>6, <1>7 DEF Confirm

LEMMA ReleaseKeepsRequests ==
  ASSUME TypeInv, RequestInv, NEW j \in Jobs, Release(j) PROVE RequestInv'
<1> USE NoRowType, RentalAssumption
<1>0. job[j] \in JobRecord /\ Placed(job[j]) /\ Agreed(job[j]) /\ RowsTyped
  BY DEF TypeInv, JobsFit, RequestInv
<1> DEFINE r == job[j].rental
<1>1. /\ r \in Rentals /\ rental[r].status # "absent" /\ rental[r] \in RentalRow
      /\ job[j].pc \in {"release", "drop", "close row", "unroute"}
  BY <1>0 DEF Release, ReadRelease, Drop, CloseRow, Unroute, Placed, RowsTyped
\* Wherever the release goes, its list and its rental were wanted before.
<1>2. ASSUME NEW x \in JobRecord, x.rental = r \/ x.pc = "close", x.due \subseteq job[j].due,
             x.pc \in {"close", "drop", "close row", "unroute", "idle"},
             x.pc \in {"drop", "close row"} => job[j].pc \in {"release", "drop"},
             UNCHANGED <<quit, asked>>, crossed \subseteq crossed'
      PROVE  Agreed(x)'
  BY <1>0, <1>1, <1>2 DEF Agreed, Wanted, Stamping, Outlived, Closing
<1>3. PICK over \in JobRecord :
        /\ over.due \subseteq job[j].due /\ over.pc \in {"close", "idle"}
        /\ over.pc = "idle" => over = Idle
        /\ Done(j) => job' = [job EXCEPT ![j] = over]
  <2>1. CASE j \in Scanners
    <3> DEFINE back == [Idle EXCEPT !.pc = "close", !.due = job[j].due]
    <3>1. back \in JobRecord /\ back.pc = "close" /\ back.due = job[j].due
      BY <1>0 DEF JobRecord, Pcs, Idle
    <3>2. Done(j) => job' = [job EXCEPT ![j] = back]
      BY <2>1 DEF Done
    <3> HIDE DEF back
    <3> QED
      BY <3>1, <3>2
  <2>2. CASE j \notin Scanners
    <3>1. Idle.due = {} /\ Idle.pc = "idle"
      BY DEF Idle
    <3> QED
      BY <2>2, <3>1 DEF Done
  <2> QED
    BY <2>1, <2>2
<1>4. ASSUME UNCHANGED <<quit, asked>>, crossed \subseteq crossed' PROVE Agreed(over)'
  BY <1>0, <1>1, <1>3, <1>4 DEF Agreed, Wanted, Stamping, Outlived, Closing, Idle
<1>5. ASSUME ReadRelease(j) PROVE RequestInv'
  <2>1. UNCHANGED <<rental, quit, asked, crossed>>
    BY <1>5 DEF ReadRelease, history
  <2> PICK x \in JobRecord :
        x = [job[j] EXCEPT !.row = rental[r],
                           !.pc = IF rental[r].bought /\ ~rental[r].freed THEN "drop" ELSE "close row"]
    BY <1>0, <1>1 DEF JobRecord, Pcs
  <2>2. x.rental = r /\ x.due = job[j].due /\ x.pc \in {"drop", "close row"} /\ job[j].pc = "release"
    BY <1>0, <1>5 DEF JobRecord, ReadRelease
  <2>3. Agreed(x)'
    BY <1>2, <2>1, <2>2
  <2>4. job' = [job EXCEPT ![j] = over] \/ job' = [job EXCEPT ![j] = x]
    BY <1>0, <1>3, <1>5 DEF ReadRelease, TypeInv, JobsFit
  <2> QED
    BY <1>4, <2>1, <2>3, <2>4, MoveKeepsRequests
<1>6. ASSUME Drop(j) PROVE RequestInv'
  <2>1. UNCHANGED <<rental, quit, asked, crossed>>
    BY <1>6 DEF Drop
  <2> PICK x \in JobRecord : x = [job[j] EXCEPT !.pc = "close row"]
    BY <1>0 DEF JobRecord, Pcs
  <2>2. x.rental = r /\ x.due = job[j].due /\ x.pc = "close row" /\ job[j].pc = "drop"
    BY <1>0, <1>6 DEF JobRecord, Drop
  <2>3. Agreed(x)'
    BY <1>2, <2>1, <2>2
  <2>4. job' = [job EXCEPT ![j] = over] \/ job' = [job EXCEPT ![j] = x]
    BY <1>0, <1>3, <1>6 DEF Drop, AfterRefusal, Go, TypeInv, JobsFit
  <2> QED
    BY <1>4, <2>1, <2>3, <2>4, MoveKeepsRequests
<1>7. ASSUME CloseRow(j) PROVE RequestInv'
  <2> DEFINE row == [rental[r] EXCEPT !.status = "released", !.freed = TRUE]
  <2>1. /\ rental' = [rental EXCEPT ![r] = row] /\ UNCHANGED <<quit, asked>>
        /\ crossed \subseteq crossed' /\ job[j].pc = "close row"
        /\ (\E q \in Jobs : job[q].rental = r /\ job[q].pc = "stamp") => r \in crossed'
    BY <1>0, <1>1, <1>7 DEF CloseRow, RowsTyped
  <2>2. row \in RentalRow /\ row.status = "released"
    BY <1>1 DEF RentalRow
  <2> HIDE DEF row
  <2>3. r \in asked \cup quit \cup crossed
    BY <1>0, <1>1, <2>1 DEF Agreed, Wanted, Closing
  <2> PICK x \in JobRecord : x = [job[j] EXCEPT !.pc = "unroute"]
    BY <1>0 DEF JobRecord, Pcs
  <2>4. x.rental = r /\ x.due = job[j].due /\ x.pc = "unroute"
    BY <1>0 DEF JobRecord
  <2>5. Agreed(x)'
    BY <1>2, <2>1, <2>4
  <2>6. job' = [job EXCEPT ![j] = x]
    BY <1>0, <1>7 DEF CloseRow, Go, TypeInv, JobsFit
  <2>7. r \in quit' => rental[r].status # "absent"
    BY <1>1
  <2> QED
    BY <1>1, <2>1, <2>2, <2>3, <2>5, <2>6, RowKeepsRequests
<1>8. ASSUME Unroute(j) PROVE RequestInv'
  BY <1>3, <1>4, <1>8, MoveKeepsRequests DEF Unroute, history
<1> QED
  BY <1>5, <1>6, <1>7, <1>8 DEF Release

LEMMA ScanKeepsRequests ==
  ASSUME TypeInv, RequestInv, NEW c \in Scanners,
         \/ ListDue(c) \/ ReadRental(c) \/ ChargePaid(c) \/ ChargeDeclined(c) \/ ChargeLost(c)
         \/ ListCancelled(c) \/ ReleaseNext(c)
  PROVE  RequestInv'
<1> USE NoRowType, RentalAssumption DEF Jobs
<1>0. /\ job[c] \in JobRecord /\ Placed(job[c]) /\ Agreed(job[c])
      /\ c \in Jobs /\ RowsTyped /\ now \in Nat
  BY DEF TypeInv, JobsFit, RestTyped, RequestInv
<1>1. UNCHANGED <<rental, quit, asked, crossed>>
  BY DEF ListDue, ReadRental, ChargePaid, ChargeDeclined, ChargeLost, ListCancelled, ReleaseNext, history
<1>2. ASSUME NEW x \in JobRecord, job' = [job EXCEPT ![c] = x],
             x.pc \in {"renew", "claim", "mark", "roll back"}
      PROVE  RequestInv'
  BY <1>0, <1>1, <1>2, HarmlessAgreed, MoveKeepsRequests
<1>3. CASE ListDue(c)
  <2> DEFINE x == [Idle EXCEPT !.pc = "renew", !.at = now, !.due =
                     {r \in Rentals : /\ rental[r].status = "active"
                                      /\ rental[r].end # None /\ rental[r].end <= now}]
  <2>1. x \in JobRecord /\ x.pc = "renew" /\ job' = [job EXCEPT ![c] = x]
    BY <1>0, <1>3 DEF JobRecord, Pcs, Idle, ListDue
  <2> HIDE DEF x
  <2> QED
    BY <1>2, <2>1
<1>4. CASE ReadRental(c)
  <2> PICK r \in job[c].due :
        IF rental[r].status # "active"
          THEN job' = [job EXCEPT ![c].due = @ \ {r}]
          ELSE \E pc \in {"claim", "mark"} :
                 job' = [job EXCEPT ![c] = [@ EXCEPT !.pc = pc, !.due = job[c].due \ {r}, !.rental = r,
                           !.row = rental[r], !.to = NextPeriodEnd(rental[r].end, job[c].at)]]
    BY <1>4 DEF ReadRental
  <2>0. r \in Rentals /\ rental[r] \in RentalRow /\ job[c].pc = "renew"
    BY <1>0, <1>4 DEF ReadRental, JobRecord, RowsTyped
  <2>1. CASE rental[r].status # "active"
    <3> DEFINE x == [job[c] EXCEPT !.due = @ \ {r}]
    <3>1. x \in JobRecord /\ x.pc = "renew"
      BY <1>0, <2>0 DEF JobRecord
    <3>2. job' = [job EXCEPT ![c] = x]
      BY <1>0, <2>1 DEF TypeInv, JobsFit
    <3> HIDE DEF x
    <3> QED
      BY <1>2, <3>1, <3>2
  <2>2. CASE rental[r].status = "active"
    <3> PICK pc \in {"claim", "mark"} :
          job' = [job EXCEPT ![c] = [@ EXCEPT !.pc = pc, !.due = job[c].due \ {r}, !.rental = r,
                    !.row = rental[r], !.to = NextPeriodEnd(rental[r].end, job[c].at)]]
      BY <2>2
    <3> DEFINE x == [job[c] EXCEPT !.pc = pc, !.due = job[c].due \ {r}, !.rental = r, !.row = rental[r],
                                   !.to = NextPeriodEnd(rental[r].end, job[c].at)]
    <3>1. NextPeriodEnd(rental[r].end, job[c].at) \in Nat
      BY <1>0, <2>0 DEF NextPeriodEnd, JobRecord, RentalRow
    <3>2. x \in JobRecord /\ x.pc = pc
      BY <1>0, <2>0, <3>1 DEF JobRecord, Pcs
    <3>3. job' = [job EXCEPT ![c] = x]
      OBVIOUS
    <3> HIDE DEF x
    <3> QED
      BY <1>2, <3>2, <3>3
  <2> QED
    BY <2>1, <2>2
<1>5. CASE ChargePaid(c)
  <2> DEFINE x == [Idle EXCEPT !.pc = "renew", !.at = job[c].at, !.due = job[c].due]
  <2>1. x \in JobRecord /\ x.pc = "renew" /\ job' = [job EXCEPT ![c] = x]
    BY <1>0, <1>5 DEF JobRecord, Pcs, Idle, ChargePaid, Resume
  <2> HIDE DEF x
  <2> QED
    BY <1>2, <2>1
<1>6. CASE ChargeDeclined(c) \/ ChargeLost(c)
  <2> DEFINE x == [job[c] EXCEPT !.pc = "roll back"]
  <2>1. x \in JobRecord /\ x.pc = "roll back"
    BY <1>0 DEF JobRecord, Pcs
  <2>2. job' = [job EXCEPT ![c] = x]
    BY <1>0, <1>6 DEF ChargeDeclined, ChargeLost, Go, TypeInv, JobsFit
  <2> HIDE DEF x
  <2> QED
    BY <1>2, <2>1, <2>2
\* Who has cancelled and has reached the end of the period.
<1>7. CASE ListCancelled(c)
  <2> PICK x \in JobRecord : x = [Idle EXCEPT !.pc = "close", !.due = {r \in Rentals : Ended(r)}]
    BY DEF JobRecord, Pcs, Idle
  <2>1. x.pc = "close" /\ x.due = {r \in Rentals : Ended(r)} /\ job' = [job EXCEPT ![c] = x]
    BY <1>7 DEF ListCancelled, Idle
  <2>2. \A r \in x.due : r \in quit
    BY <2>1 DEF Ended, RequestInv, QuitFit
  <2>3. Agreed(x)'
    BY <1>1, <2>1, <2>2 DEF Agreed, Wanted, Stamping, Outlived, Closing
  <2> QED
    BY <1>0, <1>1, <2>1, <2>3, MoveKeepsRequests
<1>8. CASE ReleaseNext(c)
  <2> PICK r \in job[c].due :
        job' = [job EXCEPT ![c] = [@ EXCEPT !.pc = "release", !.rental = r, !.due = job[c].due \ {r}]]
    BY <1>8 DEF ReleaseNext
  <2>1. r \in Rentals /\ job[c].pc = "close"
    BY <1>0, <1>8 DEF JobRecord, ReleaseNext
  <2> PICK x \in JobRecord :
        x = [job[c] EXCEPT !.pc = "release", !.rental = r, !.due = job[c].due \ {r}]
    BY <1>0, <2>1 DEF JobRecord, Pcs
  <2>2. x.pc = "release" /\ x.rental = r /\ x.due = job[c].due \ {r}
    BY <1>0 DEF JobRecord
  <2>3. Agreed(x)'
    BY <1>0, <1>1, <2>1, <2>2 DEF Agreed, Wanted, Stamping, Outlived, Closing
  <2>4. job' = [job EXCEPT ![c] = x]
    OBVIOUS
  <2> QED
    BY <1>0, <1>1, <2>3, <2>4, MoveKeepsRequests
<1> QED
  BY <1>3, <1>4, <1>5, <1>6, <1>7, <1>8

LEMMA RenewalKeepsRequests ==
  ASSUME TypeInv, RequestInv, NEW c \in Scanners,
         ClaimPeriod(c) \/ RollBack(c) \/ MarkPastDue(c) \/ Purge(c)
  PROVE  RequestInv'
<1> USE NoRowType, RentalAssumption DEF Jobs
<1>0. /\ job[c] \in JobRecord /\ Placed(job[c]) /\ c \in Jobs /\ RowsTyped
  BY DEF TypeInv, JobsFit, RequestInv
<1>1. CASE ClaimPeriod(c) \/ RollBack(c)
  <2> DEFINE r == job[c].rental
  <2>1. UNCHANGED <<quit, asked, crossed>> /\ r \in Rentals /\ rental[r].status # "absent"
    BY <1>1, PeriodSteps DEF ClaimPeriod, RollBack, history
  <2>2. PICK row \in RentalRow :
          /\ rental' = [rental EXCEPT ![r] = row]
          /\ row.status = rental[r].status /\ row.number = rental[r].number
          /\ row.bought = rental[r].bought /\ row.freed = rental[r].freed
    BY <1>1, PeriodSteps
  <2>3. PICK x \in JobRecord : job' = [job EXCEPT ![c] = x] /\ x.pc \in {"charge", "mark", "renew"}
    BY <1>1, PeriodSteps
  <2>4. Agreed(x)'
    BY <2>3, HarmlessAgreed
  <2>5. /\ row.freed => row.status = "released" \/ r \in crossed
        /\ row.status = "cancelled" => r \in quit
        /\ r \in quit => row.status \in {"cancelled", "past_due", "released"}
        /\ row.bought /\ row.status = "released" => r \in asked \cup quit \cup crossed
    BY <2>1, <2>2 DEF RequestInv, FreedFit, QuitFit, LostOnlyOnRequest
  <2> QED
    BY <1>0, <2>1, <2>2, <2>3, <2>4, <2>5, RowKeepsRequests
<1>2. CASE MarkPastDue(c)
  <2> DEFINE r   == job[c].rental
             row == [rental[r] EXCEPT !.status = "past_due"]
  <2>0. r \in Rentals /\ rental[r].status # "absent" /\ rental[r] \in RentalRow
    BY <1>0, <1>2 DEF Placed, MarkPastDue, RowsTyped
  <2>1. UNCHANGED <<quit, asked>> /\ crossed \subseteq crossed'
    BY <1>2 DEF MarkPastDue
  <2> PICK x \in JobRecord : x = [Idle EXCEPT !.pc = "renew", !.at = job[c].at, !.due = job[c].due]
    BY <1>0 DEF JobRecord, Pcs, Idle
  <2>2. Agreed(x)' /\ job' = [job EXCEPT ![c] = x]
    <3>1. x.pc = "renew"
      BY DEF Idle
    <3> QED
      BY <1>2, <3>1, HarmlessAgreed DEF MarkPastDue, Resume
  <2>3. CASE Clash(r, rental[r].number)
    BY <1>0, <1>2, <2>1, <2>2, <2>3, MoveKeepsRequests DEF MarkPastDue
  <2>4. CASE ~Clash(r, rental[r].number)
    <3>1. /\ rental' = [rental EXCEPT ![r] = row]
          /\ crossed' = IF Live(r) THEN crossed ELSE crossed \cup {r}
      BY <1>2, <2>4 DEF MarkPastDue, StatusUnpaid
    <3>2. row \in RentalRow /\ row.status = "past_due" /\ row.freed = rental[r].freed
      BY <2>0 DEF RentalRow
    <3> HIDE DEF row
    <3>3. rental[r].status = "released" => r \in crossed'
      BY <3>1 DEF Live
    <3>4. row.freed => r \in crossed'
      BY <2>0, <3>1, <3>2, <3>3 DEF RequestInv, FreedFit
    <3> QED
      BY <1>0, <2>0, <2>1, <2>2, <3>1, <3>2, <3>3, <3>4, RowKeepsRequests
  <2> QED
    BY <2>3, <2>4
\* An order that was never paid has taken no number.
<1>3. CASE Purge(c)
  <2>1. UNCHANGED <<quit, asked, crossed>> /\ job' = [job EXCEPT ![c] = Idle]
    BY <1>3 DEF Purge, history
  <2>2. ASSUME NEW r \in Rentals
        PROVE  /\ rental'[r].bought = rental[r].bought /\ rental'[r].freed = rental[r].freed
               /\ \/ rental'[r].status = rental[r].status
                  \/ rental[r].status = "pending" /\ rental'[r].status = "released" /\ ~rental[r].bought
    <3>1. PICK old \in SUBSET {y \in Rentals : rental[y].status = "pending"} :
            rental' = [y \in Rentals |-> IF y \in old THEN [rental[y] EXCEPT !.status = "released"]
                                         ELSE rental[y]]
      BY <1>3 DEF Purge
    <3>2. rental[r] \in RentalRow
      BY <1>0 DEF RowsTyped
    <3>3. \/ rental'[r] = rental[r]
          \/ rental[r].status = "pending" /\ rental'[r] = [rental[r] EXCEPT !.status = "released"]
      BY <3>1
    <3> QED
      BY <3>2, <3>3 DEF RentalRow, TypeInv, RowsFit
  <2>3. ASSUME NEW k \in Jobs PROVE Agreed(job[k])'
    <3>1. CASE k = c
      BY <1>0, <2>1, <3>1 DEF TypeInv, JobsFit, Agreed, Wanted, Stamping, Outlived, Closing, Idle
    <3>2. CASE k # c
      <4>1. job'[k] = job[k] /\ Agreed(job[k]) /\ Placed(job[k])
        BY <2>1, <3>2 DEF TypeInv, JobsFit, RequestInv
      <4>2. Wanted(job[k])'
        BY <2>1, <4>1 DEF Agreed, Wanted, Closing
      <4>3. ASSUME NEW y \in Rentals, rental[y].status # "pending"
            PROVE  rental'[y].status = rental[y].status
        BY <2>2, <4>3
      <4>4. Stamping(job[k])'
        BY <2>1, <4>1, <4>3 DEF Agreed, Stamping, Placed
      <4>5. Outlived(job[k])'
        <5> SUFFICES ASSUME job[k].pc \in {"activate", "orphan"}, job[k].row.status = "released"
                     PROVE  rental'[job[k].rental].status = "released" \/ job[k].rental \in crossed
          BY <2>1, <4>1 DEF Outlived
        <5> QED
          BY <4>1, <4>3 DEF Agreed, Outlived, Placed
      <4> QED
        BY <4>2, <4>4, <4>5 DEF Agreed
    <3> QED
      BY <3>1, <3>2
  <2>4. FreedFit' /\ QuitFit' /\ LostOnlyOnRequest'
    BY <2>1, <2>2 DEF RequestInv, FreedFit, QuitFit, LostOnlyOnRequest
  <2> QED
    BY <2>3, <2>4 DEF RequestInv
<1> QED
  BY <1>1, <1>2, <1>3

LEMMA StepKeepsRequests == TypeInv /\ RequestInv /\ [RentalNext]_rentalVars => RequestInv'
<1> SUFFICES ASSUME TypeInv, RequestInv, [RentalNext]_rentalVars PROVE RequestInv'
  OBVIOUS
<1>1. ASSUME NEW j \in Jobs, Kill(j) PROVE RequestInv'
  <2>1. /\ UNCHANGED <<rental, quit, asked>> /\ crossed \subseteq crossed'
        /\ job' = [job EXCEPT ![j] = Idle]
    BY <1>1 DEF Kill
  <2>2. Agreed(Idle)'
    BY DEF Idle, Agreed, Wanted, Stamping, Outlived, Closing
  <2> QED
    BY <2>1, <2>2, NoRowType, MoveKeepsRequests
<1>2. CASE Pass \/ UNCHANGED rentalVars
  BY <1>2 DEF Pass, rentalVars, world, history, RequestInv, Agreed, Wanted, Stamping, Outlived, Closing,
              FreedFit, QuitFit, LostOnlyOnRequest
<1>3. ASSUME NEW c \in Scanners, Tick(c) PROVE RequestInv'
  BY <1>3, ScanKeepsRequests, RenewalKeepsRequests, ReleaseKeepsRequests DEF Tick, Jobs
<1> QED
  BY <1>1, <1>2, <1>3, CheckoutKeepsRequests, CancelKeepsRequests, ConfirmKeepsRequests,
     ReleaseKeepsRequests
  DEF RentalNext, Jobs

LEMMA InitRequests == RentalInit => RequestInv
<1> SUFFICES ASSUME RentalInit PROVE RequestInv
  OBVIOUS
<1>1. \A r \in Rentals : rental[r].status \in {"absent", "active"} /\ ~rental[r].freed
  <2> PICK first \in SUBSET Rentals, n \in Numbers, o \in Offices :
         LET row == [NoRow EXCEPT !.status = "active", !.number = n, !.office = o, !.end = 1,
                                  !.bought = TRUE]
         IN /\ \A r, x \in first : r = x
            /\ rental = [r \in Rentals |-> IF r \in first THEN row ELSE NoRow]
            /\ held = IF first = {} THEN {} ELSE {n}
            /\ route = [x \in Offices \X Numbers |->
                          IF first # {} /\ x = <<o, n>> THEN "on" ELSE "none"]
    BY DEF RentalInit
  <2> DEFINE row == [NoRow EXCEPT !.status = "active", !.number = n, !.office = o, !.end = 1,
                                  !.bought = TRUE]
  <2>1. row.status = "active" /\ ~row.freed /\ NoRow.status = "absent" /\ ~NoRow.freed
    BY DEF NoRow
  <2>2. rental = [r \in Rentals |-> IF r \in first THEN row ELSE NoRow]
    OBVIOUS
  <2> HIDE DEF row
  <2> QED
    BY <2>1, <2>2
<1>2. \A j \in Jobs : job[j].pc = "idle"
  BY DEF RentalInit, Idle
<1>3. quit = {}
  BY DEF RentalInit
<1>4. \A j \in Jobs : Agreed(job[j])
  BY <1>2 DEF Agreed, Wanted, Stamping, Outlived, Closing
<1> QED
  BY <1>1, <1>3, <1>4 DEF RequestInv, FreedFit, QuitFit, LostOnlyOnRequest

-----------------------------------------------------------------------------
(***************************************************************************)
(* Who moves, and from where.                                              *)
(***************************************************************************)

\* A step of one job leaves the others where they are.
LEMMA OthersStay ==
  ASSUME TypeInv, NEW j \in Jobs, NEW k \in Jobs, k # j,
         \/ Checkout(j) \/ Cancel(j) \/ CancelWrite(j) \/ Confirm(j) \/ AdminRelease(j)
         \/ Release(j) \/ Tick(j) \/ Kill(j)
  PROVE  job'[k] = job[k]
<1>0. job \in [Jobs -> JobRecord]
  BY DEF TypeInv, JobsFit
<1>1. CASE Checkout(j)
  BY <1>0, <1>1 DEF Checkout, Look, CreateRental, Supersede, OpenPage, Go
<1>2. CASE Cancel(j) \/ CancelWrite(j) \/ AdminRelease(j) \/ Kill(j)
  BY <1>0, <1>2 DEF Cancel, CancelWrite, AdminRelease, Kill
<1>3. CASE Confirm(j)
  BY <1>0, <1>3 DEF Confirm, ClaimPayment, Activate, Report, Provision, Purchase, StampPurchase, Route, Go
<1>4. CASE Release(j)
  BY <1>0, <1>4 DEF Release, ReadRelease, Drop, CloseRow, Unroute, AfterRefusal, Done, Go
<1>5. CASE Tick(j)
  BY <1>0, <1>4, <1>5 DEF Tick, ListDue, ReadRental, ClaimPeriod, ChargePaid, ChargeDeclined, ChargeLost,
     RollBack, MarkPastDue, ListCancelled, ReleaseNext, Purge, Go, Resume
<1> QED
  BY <1>1, <1>2, <1>3, <1>4, <1>5

\* Only two steps leave the place before a report.
LEMMA OrphansWait ==
  ASSUME NEW q \in Requests, job[q].pc = "orphan",
         Checkout(q) \/ Cancel(q) \/ CancelWrite(q) \/ Confirm(q) \/ AdminRelease(q) \/ Release(q)
  PROVE  Report(q)
BY DEF Checkout, Look, CreateRental, Supersede, OpenPage, Cancel, CancelWrite, AdminRelease, Confirm,
   ClaimPayment, Activate, Provision, Purchase, StampPurchase, Route, Release, ReadRelease, Drop,
   CloseRow, Unroute

LEMMA ChargesAreClaimed ==
  ASSUME TypeInv, RequestInv, [RentalNext]_rentalVars, NEW c \in Scanners,
         job[c].pc = "claim", job'[c].pc = "charge"
  PROVE  job[c].rental \notin quit
<1>0. /\ c \in Jobs /\ c \notin Requests /\ job[c] \in JobRecord /\ Placed(job[c])
      /\ job \in [Jobs -> JobRecord]
  BY RentalAssumption DEF TypeInv, JobsFit, Jobs
<1>1. job'[c] # job[c]
  OBVIOUS
<1>2. Tick(c) \/ Kill(c)
  BY <1>0, <1>1, OthersStay DEF RentalNext, Jobs, Pass, rentalVars
<1>3. ~Kill(c)
  BY <1>0 DEF Kill, Idle
<1>4. ClaimPeriod(c)
  BY <1>2, <1>3 DEF Tick, ListDue, ReadRental, ChargePaid, ChargeDeclined, ChargeLost, RollBack,
     MarkPastDue, ListCancelled, ReleaseNext, Purge, Release, ReadRelease, Drop, CloseRow, Unroute
<1>5. Claimable(c)
  BY <1>0, <1>4 DEF ClaimPeriod, Resume, Idle
<1> QED
  BY <1>0, <1>5 DEF Claimable, RequestInv, QuitFit, Placed

-----------------------------------------------------------------------------
(***************************************************************************)
(* What was paid was served, or is told.                                   *)
(***************************************************************************)

\* Steps that neither pay nor report.
LEMMA MoveKeepsPaid ==
  ASSUME PaidServedOrReported,
         \A p \in Payments : payment'[p].status = "paid" =>
           payment[p].status = "paid" /\ payment'[p].rental = payment[p].rental,
         \A q \in Requests : job[q].pc = "orphan" => job'[q] = job[q],
         UNCHANGED <<served, reported>>, crossed \subseteq crossed'
  PROVE  PaidServedOrReported'
BY DEF PaidServedOrReported

LEMMA StepKeepsPaid ==
  TypeInv /\ RequestInv /\ PaidServedOrReported /\ [RentalNext]_rentalVars => PaidServedOrReported'
<1> SUFFICES ASSUME TypeInv, RequestInv, PaidServedOrReported, [RentalNext]_rentalVars
             PROVE  PaidServedOrReported'
  OBVIOUS
<1>0. /\ job \in [Jobs -> JobRecord] /\ \A j \in Jobs : Placed(job[j]) /\ Agreed(job[j])
      /\ RestTyped /\ Requests \cap Scanners = {}
  BY RentalAssumption DEF TypeInv, JobsFit, RequestInv
<1>1. ASSUME NEW q \in Requests, Checkout(q) PROVE PaidServedOrReported'
  <2>1. \A k \in Requests : job[k].pc = "orphan" => job'[k] = job[k]
    <3>1. job[q].pc # "orphan"
      BY <1>1 DEF Checkout, Look, CreateRental, Supersede, OpenPage
    <3> QED
      BY <1>1, <3>1, OthersStay DEF Jobs
  <2>2. UNCHANGED <<served, reported, crossed>>
    BY <1>1 DEF Checkout, Look, CreateRental, Supersede, OpenPage, history
  <2>3. ASSUME NEW p \in Payments, payment'[p].status = "paid"
        PROVE  payment[p].status = "paid" /\ payment'[p].rental = payment[p].rental
    <3>1. CASE Look(q) \/ CreateRental(q)
      BY <2>3, <3>1 DEF Look, CreateRental, history
    <3>2. CASE Supersede(q)
      <4>1. \/ payment'[p] = payment[p]
            \/ payment'[p] = [payment[p] EXCEPT !.status = "superseded"]
        BY <3>2 DEF Supersede
      <4> QED
        BY <1>0, <2>3, <4>1 DEF RestTyped
    <3>3. CASE OpenPage(q)
      <4> PICK x \in Payments, status \in {"pending", "failed"} :
            payment' = [payment EXCEPT ![x] = [status |-> status, rental |-> job[q].rental]]
        BY <3>3 DEF OpenPage
      <4> QED
        BY <1>0, <2>3 DEF RestTyped
    <3> QED
      BY <1>1, <3>1, <3>2, <3>3 DEF Checkout
  <2> QED
    BY <2>1, <2>2, <2>3, MoveKeepsPaid
<1>2. ASSUME NEW q \in Requests,
             Cancel(q) \/ CancelWrite(q) \/ AdminRelease(q) \/ Release(q) PROVE PaidServedOrReported'
  <2>1. ~Report(q)
    BY <1>2 DEF Cancel, CancelWrite, AdminRelease, Release, ReadRelease, Drop, CloseRow, Unroute, Report
  <2>2. \A k \in Requests : job[k].pc = "orphan" => job'[k] = job[k]
    BY <1>2, <2>1, OthersStay, OrphansWait DEF Jobs
  <2>3. UNCHANGED <<payment, served, reported>> /\ crossed \subseteq crossed'
    BY <1>2 DEF Cancel, CancelWrite, AdminRelease, Release, ReadRelease, Drop, CloseRow, Unroute, history
  <2> QED
    BY <2>2, <2>3, MoveKeepsPaid
<1>3. ASSUME NEW q \in Requests, Activate(q) PROVE PaidServedOrReported'
  <2> DEFINE p == job[q].payment
  <2>0. /\ q \in Jobs /\ p \in Payments /\ payment \in [Payments -> [status : {"absent", "pending",
             "superseded", "failed", "paid"}, rental : Rentals \cup {None}]]
        /\ job[q].pc = "activate" /\ UNCHANGED reported
    BY <1>0, <1>3 DEF Activate, Placed, RestTyped, Jobs
  <2>1. \A k \in Requests : job[k].pc = "orphan" => job'[k] = job[k]
    BY <1>3, <2>0, OthersStay DEF Jobs, Confirm
  <2>2. CASE ~Revivable(job[q].row)
    <3>1. /\ payment' = [payment EXCEPT ![p].status = "paid"]
          /\ job'[q].pc = "orphan" /\ job'[q].payment = p /\ UNCHANGED <<served, crossed>>
      BY <1>0, <1>3, <2>0, <2>2 DEF Activate, Go, JobRecord
    <3>2. \A x \in Payments \ {p} : payment'[x] = payment[x]
      BY <2>0, <3>1
    <3> QED
      BY <2>0, <2>1, <3>1, <3>2 DEF PaidServedOrReported
  <2>3. CASE Revivable(job[q].row) /\ Clash(job[q].rental, rental[job[q].rental].number)
    BY <1>3, <2>0, <2>1, <2>3, MoveKeepsPaid DEF Activate
  <2>4. CASE Revivable(job[q].row) /\ ~Clash(job[q].rental, rental[job[q].rental].number)
    <3>1. /\ payment' = [payment EXCEPT ![p].status = "paid"]
          /\ served' = served \cup {p} /\ crossed \subseteq crossed'
      BY <1>3, <2>4 DEF Activate
    <3>2. \A x \in Payments \ {p} : payment'[x] = payment[x]
      BY <2>0, <3>1
    <3>3. \A x \in Payments : payment'[x].rental = payment[x].rental
      BY <2>0, <3>1
    <3> QED
      BY <2>0, <2>1, <3>1, <3>2, <3>3 DEF PaidServedOrReported
  <2> QED
    BY <2>2, <2>3, <2>4
\* A rental that is active again although it had been released is known to be crossed.
<1>4. ASSUME NEW q \in Requests, Report(q) PROVE PaidServedOrReported'
  <2> DEFINE p == job[q].payment
  <2>0. /\ q \in Jobs /\ UNCHANGED <<payment, served, crossed>> /\ reported \subseteq reported'
        /\ payment[p].rental = job[q].rental /\ job[q].row.status = "released"
        /\ job[q].pc = "orphan" /\ job[q].rental \in Rentals
    BY <1>0, <1>4 DEF Report, Placed, Jobs
  <2>1. \A k \in Requests \ {q} : job'[k] = job[k]
    BY <1>4, OthersStay DEF Jobs, Confirm
  <2>2. p \in reported' \/ payment[p].rental \in crossed
    BY <1>0, <1>4, <2>0 DEF Report, Activated, Agreed, Outlived
  <2> QED
    BY <2>0, <2>1, <2>2 DEF PaidServedOrReported
<1>5. ASSUME NEW q \in Requests,
             \/ ClaimPayment(q) \/ Provision(q) \/ Purchase(q) \/ StampPurchase(q) \/ Route(q)
      PROVE  PaidServedOrReported'
  <2>1. job[q].pc # "orphan" /\ Confirm(q)
    BY <1>5 DEF ClaimPayment, Provision, Purchase, StampPurchase, Route, Confirm
  <2>2. \A k \in Requests : job[k].pc = "orphan" => job'[k] = job[k]
    BY <2>1, OthersStay DEF Jobs
  <2>3. UNCHANGED <<payment, served, reported>> /\ crossed \subseteq crossed'
    BY <1>5 DEF ClaimPayment, Provision, Purchase, StampPurchase, Route, history
  <2> QED
    BY <2>2, <2>3, MoveKeepsPaid
<1>6. ASSUME NEW c \in Scanners, Tick(c) PROVE PaidServedOrReported'
  <2>1. \A k \in Requests : job[k].pc = "orphan" => job'[k] = job[k]
    BY <1>0, <1>6, OthersStay DEF Jobs
  <2>2. UNCHANGED <<payment, served, reported>> /\ crossed \subseteq crossed'
    BY <1>6 DEF Tick, ListDue, ReadRental, ClaimPeriod, ChargePaid, ChargeDeclined, ChargeLost, RollBack,
       MarkPastDue, ListCancelled, ReleaseNext, Purge, Release, ReadRelease, Drop, CloseRow, Unroute, history
  <2> QED
    BY <2>1, <2>2, MoveKeepsPaid
<1>7. ASSUME NEW j \in Jobs, Kill(j) PROVE PaidServedOrReported'
  <2>0. /\ UNCHANGED <<payment, served, reported>>
        /\ crossed' = IF job[j].pc \in {"stamp", "orphan"} THEN crossed \cup {job[j].rental} ELSE crossed
    BY <1>7 DEF Kill
  <2>1. \A k \in Requests \ {j} : job'[k] = job[k]
    BY <1>7, OthersStay DEF Jobs
  <2>2. CASE job[j].pc = "orphan"
    <3>1. payment[job[j].payment].rental \in crossed'
      BY <1>0, <2>0, <2>2 DEF Placed
    <3> QED
      BY <2>0, <2>1, <3>1 DEF PaidServedOrReported
  <2>3. CASE job[j].pc # "orphan"
    BY <2>0, <2>1, <2>3, MoveKeepsPaid
  <2> QED
    BY <2>2, <2>3
<1>8. CASE Pass \/ UNCHANGED rentalVars
  BY <1>8, MoveKeepsPaid DEF Pass, rentalVars, world, history
<1> QED
  BY <1>1, <1>2, <1>3, <1>4, <1>5, <1>6, <1>7, <1>8 DEF RentalNext, Confirm

-----------------------------------------------------------------------------
(***************************************************************************)
(* What the platform pays for serves somebody, or is told.                 *)
(***************************************************************************)
Known(n) == \E x \in Rentals : rental[x].number = n /\ x \in crossed

\* The platform pays for the number, and nothing says that something is wrong.
Silent(n) == n \in held \ told /\ ~Known(n)

\* A number that a live row has not noted yet is about to be noted.
Taken ==
  \A r \in Rentals : Live(r) /\ ~rental[r].bought /\ Silent(rental[r].number) =>
    \E q \in Jobs : job[q].pc = "stamp" /\ job[q].rental = r

\* A row that is about to be closed has given its number up, or had none to give.
Dropped(x) ==
  /\ x.pc = "drop" => x.row.bought /\ ~x.row.freed
  /\ x.pc = "close row" /\ x.row.freed => x.rental \in crossed
  /\ x.pc = "close row" /\ x.row.bought /\ ~x.row.freed /\ Silent(x.row.number) =>
       \E y \in Rentals \ {x.rental} : Live(y) /\ rental[y].number = x.row.number

LeakInv == NoSilentLeak /\ Taken /\ \A j \in Jobs : Dropped(job[j])

LEMMA SilentStays ==
  ASSUME TypeInv, held' \subseteq held, told \subseteq told', crossed \subseteq crossed',
         \A x \in Rentals : rental[x].number \in Numbers => rental'[x].number = rental[x].number,
         NEW n, Silent(n)'
  PROVE  Silent(n)
BY DEF Silent, Known, TypeInv, RestTyped

LEMMA MoveKeepsLeak ==
  ASSUME LeakInv, NEW j \in Jobs, \A k \in Jobs \ {j} : job'[k] = job[k],
         rental' = rental, crossed \subseteq crossed', \A n : Silent(n)' => Silent(n),
         Dropped(job[j])', job[j].pc = "stamp" => job[j].rental \in crossed'
  PROVE  LeakInv'
<1>1. NoSilentLeak'
  <2> SUFFICES ASSUME NEW n \in held' \ told', ~\E r \in Rentals : rental[r].number = n /\ r \in crossed'
               PROVE  \E r \in Rentals : rental[r].number = n /\ Live(r)
    BY DEF NoSilentLeak, Live
  <2>1. Silent(n)
    BY DEF Silent, Known
  <2> QED
    BY <2>1 DEF LeakInv, NoSilentLeak, Silent, Known
<1>2. Taken'
  <2> SUFFICES ASSUME NEW r \in Rentals, Live(r), ~rental[r].bought, Silent(rental[r].number),
                      r \notin crossed'
               PROVE  \E q \in Jobs : job'[q].pc = "stamp" /\ job'[q].rental = r
    BY DEF Taken, Live, Silent, Known
  <2> PICK q \in Jobs : job[q].pc = "stamp" /\ job[q].rental = r
    BY DEF LeakInv, Taken
  <2> QED
    OBVIOUS
<1>3. ASSUME NEW k \in Jobs PROVE Dropped(job[k])'
  <2>1. CASE k # j
    <3>1. job'[k] = job[k] /\ Dropped(job[k])
      BY <2>1 DEF LeakInv
    <3> QED
      BY <3>1 DEF Dropped, Live
  <2> QED
    BY <2>1
<1> QED
  BY <1>1, <1>2, <1>3 DEF LeakInv

\* One row of a rental is written.
LEMMA RowKeepsLeak ==
  ASSUME TypeInv, LeakInv, NEW j \in Jobs, \A k \in Jobs \ {j} : job'[k] = job[k],
         NEW r \in Rentals, NEW row \in RentalRow, rental' = [rental EXCEPT ![r] = row],
         row.status # "absent", rental[r].status # "absent" => row.number = rental[r].number,
         UNCHANGED <<held, told>>, crossed \subseteq crossed',
         job'[j].pc \notin {"drop", "close row"},
         job[j].pc = "stamp" => job[j].rental = r /\ row.bought,
         Live(r) /\ row.status = "released" => ~Silent(row.number)',
         row.status # "released" /\ ~row.bought /\ Silent(row.number)' => Live(r) /\ ~rental[r].bought
  PROVE  LeakInv'
<1>0. /\ \A y \in Rentals : rental'[y] = IF y = r THEN row ELSE rental[y]
      /\ \A y \in Rentals : rental[y].number \in Numbers => rental[y].status # "absent"
      /\ RentalAssumption
  BY RentalAssumption DEF TypeInv, RowsTyped, RowsFit, RentalAssumption
<1>1. \A y \in Rentals : rental[y].number \in Numbers => rental'[y].number = rental[y].number
  BY <1>0
<1>2. ASSUME NEW n, Silent(n)' PROVE Silent(n)
  BY <1>1, <1>2, SilentStays
\* Who was live with a number that is silent still is.
<1>3. ASSUME NEW y \in Rentals, Live(y), NEW n, rental[y].number = n, Silent(n)'
      PROVE  Live(y)' /\ rental'[y].number = n
  BY <1>0, <1>3 DEF Live
<1>4. NoSilentLeak'
  <2> SUFFICES ASSUME NEW n \in held' \ told', ~Known(n)'
               PROVE  \E y \in Rentals : rental'[y].number = n /\ Live(y)'
    BY DEF NoSilentLeak, Known
  <2>1. Silent(n)'
    BY DEF Silent
  <2>2. PICK y \in Rentals : rental[y].number = n /\ Live(y)
    BY <1>2, <2>1 DEF LeakInv, NoSilentLeak, Silent, Known
  <2> QED
    BY <1>3, <2>1, <2>2
<1>5. Taken'
  <2> SUFFICES ASSUME NEW y \in Rentals, Live(y)', ~rental'[y].bought, NEW n,
                      rental'[y].number = n, Silent(n)'
               PROVE  \E q \in Jobs : job'[q].pc = "stamp" /\ job'[q].rental = y
    BY DEF Taken
  <2>1. Live(y) /\ ~rental[y].bought /\ rental[y].number = n
    BY ZenonT(60), <1>0 DEF Live
  <2>2. PICK q \in Jobs : job[q].pc = "stamp" /\ job[q].rental = y
    BY <1>2, <2>1 DEF LeakInv, Taken
  <2>3. q # j
    BY ZenonT(60), <1>0, <2>2
  <2> QED
    BY <2>2, <2>3
<1>6. ASSUME NEW k \in Jobs PROVE Dropped(job[k])'
  <2>1. CASE k = j
    BY <2>1 DEF Dropped
  <2>2. CASE k # j
    <3>1. job'[k] = job[k] /\ Dropped(job[k])
      BY <2>2 DEF LeakInv
    <3>2. ASSUME job[k].pc = "close row", job[k].row.bought, ~job[k].row.freed,
                 NEW n, job[k].row.number = n, Silent(n)'
          PROVE  \E y \in Rentals \ {job[k].rental} : Live(y)' /\ rental'[y].number = n
      <4>1. PICK y \in Rentals \ {job[k].rental} : Live(y) /\ rental[y].number = n
        BY <1>2, <3>1, <3>2 DEF Dropped
      <4> QED
        BY ZenonT(60), <1>3, <3>2, <4>1
    <3> QED
      BY <3>1, <3>2 DEF Dropped
  <2> QED
    BY <2>1, <2>2
<1> QED
  BY <1>4, <1>5, <1>6 DEF LeakInv

\* A step that neither writes a row nor takes or drops a number.
LEMMA IdleKeepsLeak ==
  ASSUME TypeInv, LeakInv, NEW j \in Jobs, \A k \in Jobs \ {j} : job'[k] = job[k],
         UNCHANGED <<rental, held, told>>, crossed \subseteq crossed', job[j].pc # "stamp",
         job'[j].pc \notin {"drop", "close row"}
  PROVE  LeakInv'
<1>1. \A n : Silent(n)' => Silent(n)
  BY SilentStays
<1>2. Dropped(job[j])'
  BY DEF Dropped
<1> QED
  BY <1>1, <1>2, MoveKeepsLeak

LEMMA CheckoutKeepsLeak ==
  ASSUME TypeInv, LeakInv, NEW q \in Requests, Checkout(q) PROVE LeakInv'
<1>0. /\ job \in [Jobs -> JobRecord] /\ Placed(job[q]) /\ q \in Jobs
      /\ \A k \in Jobs \ {q} : job'[k] = job[k]
  BY OthersStay DEF TypeInv, JobsFit, Jobs
<1>1. /\ UNCHANGED <<held, told, crossed>> /\ job[q].pc # "stamp"
  BY DEF Checkout, Look, CreateRental, Supersede, OpenPage, world, history
<1>2. job'[q].pc \in {"idle", "supersede", "create", "open"}
  <2>1. CASE Look(q)
    BY ZenonT(60), <1>0, <2>1 DEF Look, Idle
  <2>2. CASE CreateRental(q)
    <3> DEFINE found(r) == [Idle EXCEPT !.pc = "supersede", !.rental = r]
    <3>1. Idle.pc = "idle" /\ \A r : found(r).pc = "supersede"
      BY DEF Idle
    <3>2. job' = [job EXCEPT ![q] = Idle] \/ \E r \in Rentals : job' = [job EXCEPT ![q] = found(r)]
      BY <2>2 DEF CreateRental
    <3> HIDE DEF found
    <3> QED
      BY <1>0, <3>1, <3>2
  <2>3. CASE Supersede(q) \/ OpenPage(q)
    BY <1>0, <2>3 DEF Supersede, OpenPage, Go, Idle, JobRecord
  <2> QED
    BY <2>1, <2>2, <2>3 DEF Checkout
<1>3. CASE rental' = rental
  BY <1>0, <1>1, <1>2, <1>3, IdleKeepsLeak
<1>4. CASE rental' # rental
  <2>1. CreateRental(q) /\ ~Clash(None, job[q].row.number)
    BY <1>4 DEF Checkout, Look, CreateRental, Supersede, OpenPage
  <2>2. PICK r \in Rentals : rental[r].status = "absent" /\ rental' = [rental EXCEPT ![r] = job[q].row]
    BY <2>1 DEF CreateRental
  <2>3. PICK row \in RentalRow : row = job[q].row /\ row.status = "pending"
    BY <1>0, <2>1 DEF CreateRental, JobRecord, Placed
  <2>4. \A y \in Rentals : rental[y].number \in Numbers => rental'[y].number = rental[y].number
    BY <2>2, RentalAssumption DEF TypeInv, RowsTyped, RowsFit, RentalAssumption
  <2>5. ~Silent(row.number)'
    <3>1. ~Silent(row.number)
      BY <2>1, <2>3, RentalAssumption DEF LeakInv, NoSilentLeak, Silent, Known, Clash
    <3> QED
      BY <1>1, <2>4, <3>1, SilentStays
  <2> QED
    BY <1>0, <1>1, <1>2, <2>2, <2>3, <2>5, RowKeepsLeak
<1> QED
  BY <1>3, <1>4

LEMMA CancelKeepsLeak ==
  ASSUME TypeInv, LeakInv, NEW q \in Requests, Cancel(q) \/ CancelWrite(q) \/ AdminRelease(q)
  PROVE  LeakInv'
<1>0. /\ job \in [Jobs -> JobRecord] /\ Placed(job[q]) /\ q \in Jobs /\ RowsTyped
      /\ \A k \in Jobs \ {q} : job'[k] = job[k]
  BY OthersStay DEF TypeInv, JobsFit, Jobs
<1>1. UNCHANGED <<held, told>> /\ crossed \subseteq crossed' /\ job[q].pc # "stamp"
  BY DEF Cancel, CancelWrite, AdminRelease, world
<1>5. job'[q].pc \in {"idle", "cancel", "release"}
  <2> DEFINE go(r, pc) == [Idle EXCEPT !.pc = pc, !.rental = r]
  <2>1. Idle.pc = "idle" /\ \A r, pc : go(r, pc).pc = pc
    BY DEF Idle
  <2>2. \/ job' = [job EXCEPT ![q] = Idle]
        \/ \E r \in Rentals, pc \in {"cancel", "release"} : job' = [job EXCEPT ![q] = go(r, pc)]
    BY DEF Cancel, CancelWrite, AdminRelease
  <2> HIDE DEF go
  <2> QED
    BY <1>0, <2>1, <2>2
<1>2. CASE rental' = rental
  BY <1>0, <1>1, <1>2, <1>5, IdleKeepsLeak
<1>3. CASE rental' # rental
  <2>1. CancelWrite(q)
    BY <1>3 DEF Cancel, AdminRelease
  <2> PICK r \in Rentals : r = job[q].rental /\ rental[r] \in RentalRow
    BY <1>0, <2>1 DEF CancelWrite, Placed, RowsTyped
  <2> PICK row \in RentalRow : row = [rental[r] EXCEPT !.status = "cancelled"]
    BY DEF RentalRow
  <2>2. /\ rental' = [rental EXCEPT ![r] = row]
        /\ crossed' = IF Live(r) THEN crossed ELSE crossed \cup {r}
    BY <1>0, <1>3, <2>1 DEF CancelWrite, RowsTyped
  <2>3. row.status = "cancelled" /\ row.number = rental[r].number /\ row.bought = rental[r].bought
    BY DEF RentalRow
  <2>4. ~Live(r) => ~Silent(row.number)'
    BY <1>0, <2>2 DEF Silent, Known, RowsTyped
  <2> QED
    BY <1>0, <1>1, <1>5, <2>2, <2>3, <2>4, RowKeepsLeak
<1> QED
  BY <1>2, <1>3

LEMMA PurchaseKeepsLeak ==
  ASSUME TypeInv, LeakInv, NEW q \in Requests, Purchase(q) PROVE LeakInv'
<1> PICK r, n : r = job[q].rental /\ n = job[q].row.number
  OBVIOUS
<1>0. /\ job \in [Jobs -> JobRecord] /\ Placed(job[q]) /\ q \in Jobs
      /\ \A k \in Jobs \ {q} : job'[k] = job[k]
  BY OthersStay DEF TypeInv, JobsFit, Jobs, Confirm
<1>1. /\ rental' = rental /\ job[q].pc = "purchase" /\ r \in Rentals /\ rental[r].number = n
      /\ crossed \subseteq crossed'
  BY <1>0 DEF Purchase, Placed
<1>2. CASE told' = told \cup {n} /\ held' \in {held, held \cup {n}} /\ job' = [job EXCEPT ![q] = Idle]
  <2>1. \A m : Silent(m)' => Silent(m)
    BY <1>1, <1>2 DEF Silent, Known
  <2>2. Dropped(job[q])'
    BY <1>0, <1>2 DEF Dropped, Idle
  <2> QED
    BY <1>0, <1>1, <2>1, <2>2, MoveKeepsLeak
<1>3. CASE /\ held' = held \cup {n} /\ told' = told /\ Go(q, "stamp")
           /\ crossed' = IF Releasing(r) \/ ~Live(r) THEN crossed \cup {r} ELSE crossed
  <2>1. job'[q].pc = "stamp" /\ job'[q].rental = r
    BY <1>0, <1>3 DEF Go, JobRecord
  <2>2. ASSUME NEW m, m # n, Silent(m)' PROVE Silent(m)
    BY <1>1, <1>3, <2>2 DEF Silent, Known
  <2>3. Silent(n)' => Live(r) /\ ~Releasing(r)
    BY <1>1, <1>3 DEF Silent, Known
  <2>4. NoSilentLeak'
    <3> SUFFICES ASSUME NEW m \in held' \ told', ~Known(m)'
                 PROVE  \E y \in Rentals : rental[y].number = m /\ Live(y)
      BY <1>1 DEF NoSilentLeak, Known, Live
    <3>1. Silent(m)'
      BY DEF Silent
    <3> QED
      BY <1>1, <2>2, <2>3, <3>1 DEF LeakInv, NoSilentLeak, Silent, Known
  <2>5. Taken'
    <3> SUFFICES ASSUME NEW y \in Rentals, Live(y), ~rental[y].bought, NEW m,
                        rental[y].number = m, Silent(m)'
                 PROVE  \E k \in Jobs : job'[k].pc = "stamp" /\ job'[k].rental = y
      BY <1>1 DEF Taken, Live
    <3>1. CASE m = n
      <4>1. y = r
        BY <1>1, <2>3, <3>1 DEF TypeInv, OneLiveRow
      <4> QED
        BY <1>0, <2>1, <4>1
    <3>2. CASE m # n
      <4>1. PICK k \in Jobs : job[k].pc = "stamp" /\ job[k].rental = y
        BY <1>1, <2>2, <3>2 DEF LeakInv, Taken
      <4> QED
        BY <1>0, <1>1, <4>1
    <3> QED
      BY <3>1, <3>2
  <2>6. ASSUME NEW k \in Jobs PROVE Dropped(job[k])'
    <3>1. CASE k = q
      BY <2>1, <3>1 DEF Dropped
    <3>2. CASE k # q
      <4>1. job'[k] = job[k] /\ Dropped(job[k])
        BY <1>0, <3>2 DEF LeakInv
      <4>2. ASSUME job[k].pc = "close row", job[k].row.bought, ~job[k].row.freed,
                   NEW m, job[k].row.number = m, Silent(m)'
            PROVE  \E y \in Rentals \ {job[k].rental} : Live(y) /\ rental[y].number = m
        <5>1. CASE m = n
          BY <1>1, <2>3, <4>2, <5>1 DEF Releasing
        <5>2. CASE m # n
          BY <1>1, <2>2, <4>1, <4>2, <5>2 DEF Dropped
        <5> QED
          BY <5>1, <5>2
      <4> QED
        BY <1>1, <4>1, <4>2 DEF Dropped, Live
    <3> QED
      BY <3>1, <3>2
  <2> QED
    BY <2>4, <2>5, <2>6 DEF LeakInv
<1> QED
  BY <1>2, <1>3 DEF Purchase

LEMMA ConfirmKeepsLeak ==
  ASSUME TypeInv, LeakInv, NEW q \in Requests, Confirm(q) PROVE LeakInv'
<1>0. /\ job \in [Jobs -> JobRecord] /\ Placed(job[q]) /\ q \in Jobs /\ RowsTyped
      /\ \A k \in Jobs \ {q} : job'[k] = job[k]
  BY OthersStay DEF TypeInv, JobsFit, Jobs
<1>1. CASE ClaimPayment(q) \/ Report(q) \/ Provision(q) \/ Route(q)
  <2>1. /\ UNCHANGED <<rental, held, told, crossed>> /\ job[q].pc # "stamp"
    BY <1>1 DEF ClaimPayment, Report, Provision, Route, world, history
  <2>2. job'[q].pc \in {"activate", "idle", "purchase"}
    <3>1. CASE ClaimPayment(q)
      BY <1>0, <3>1 DEF ClaimPayment, Idle
    <3>2. CASE Provision(q)
      BY <1>0, <3>2 DEF Provision, Idle, JobRecord
    <3> QED
      BY <1>0, <1>1, <3>1, <3>2 DEF Report, Route, Idle
  <2> QED
    BY <1>0, <2>1, <2>2, IdleKeepsLeak
<1> PICK r : r = job[q].rental
  OBVIOUS
<1>2. CASE Activate(q)
  <2>0. /\ r \in Rentals /\ rental[r].status # "absent" /\ rental[r] \in RentalRow
        /\ UNCHANGED <<held, told>> /\ job[q].pc = "activate" /\ crossed \subseteq crossed'
        /\ job'[q].pc \in {"orphan", "idle", "provision"}
    BY <1>0, <1>2 DEF Activate, Placed, RowsTyped, world, Go, Idle, JobRecord
  <2>1. CASE rental' = rental
    BY <1>0, <2>0, <2>1, IdleKeepsLeak
  <2>2. CASE rental' # rental
    <3>0. NextPeriodEnd(job[q].row.end, now) \in Nat
      BY <1>0, RentalAssumption DEF NextPeriodEnd, JobRecord, RentalRow, TypeInv, RestTyped
    <3> PICK row \in RentalRow :
          row = [rental[r] EXCEPT !.status = "active", !.end = NextPeriodEnd(job[q].row.end, now)]
      BY <2>0, <3>0 DEF RentalRow
    <3>1. /\ rental' = [rental EXCEPT ![r] = row] /\ Revivable(job[q].row)
          /\ crossed' = IF Releasing(r) \/ job[q].row # rental[r] THEN crossed \cup {r} ELSE crossed
      BY <1>0, <1>2, <2>0, <2>2 DEF Activate, RowsTyped
    <3>2. row.status = "active" /\ row.number = rental[r].number /\ row.bought = rental[r].bought
      BY <2>0 DEF RentalRow
    <3>3. ~Live(r) => ~Silent(row.number)'
      <4>1. ~Live(r) => r \in crossed'
        BY <2>0, <3>1 DEF Live, Revivable
      <4> QED
        BY <1>0, <2>0, <3>1, <3>2, <4>1 DEF Silent, Known, RowsTyped
    <3> QED
      BY <1>0, <2>0, <3>1, <3>2, <3>3, RowKeepsLeak
  <2> QED
    BY <2>1, <2>2
<1>3. CASE StampPurchase(q)
  <2>0. /\ r \in Rentals /\ rental[r].status # "absent" /\ rental[r] \in RentalRow
        /\ UNCHANGED <<held, told, crossed>> /\ job'[q].pc = "route"
    BY <1>0, <1>3 DEF StampPurchase, Placed, RowsTyped, world, history, Go, JobRecord
  <2> PICK row \in RentalRow : row = [rental[r] EXCEPT !.bought = TRUE]
    BY <2>0 DEF RentalRow
  <2>1. rental' = [rental EXCEPT ![r] = row]
    BY <1>0, <1>3, <2>0 DEF StampPurchase, RowsTyped
  <2>2. row.bought /\ row.number = rental[r].number /\ row.status = rental[r].status
    BY <2>0 DEF RentalRow
  <2>3. row.status = "released" => ~Live(r)
    BY <2>2 DEF Live
  <2> QED
    BY <1>0, <2>0, <2>1, <2>2, <2>3, RowKeepsLeak
<1> QED
  BY <1>1, <1>2, <1>3, PurchaseKeepsLeak DEF Confirm

LEMMA ReleaseKeepsLeak ==
  ASSUME TypeInv, RequestInv, LeakInv, NEW j \in Jobs, Release(j) PROVE LeakInv'
<1> PICK r : r = job[j].rental
  OBVIOUS
<1>0. /\ job \in [Jobs -> JobRecord] /\ Placed(job[j]) /\ Dropped(job[j]) /\ RowsTyped
      /\ \A k \in Jobs \ {j} : job'[k] = job[k]
  BY OthersStay DEF TypeInv, JobsFit, LeakInv
<1>1. /\ r \in Rentals /\ rental[r].status # "absent" /\ rental[r] \in RentalRow
      /\ job[j].pc \in {"release", "drop", "close row", "unroute"} /\ told' = told
  BY <1>0 DEF Release, ReadRelease, Drop, CloseRow, Unroute, Placed, RowsTyped, history
<1>2. Done(j) => job'[j].pc \in {"idle", "close"}
  BY <1>0 DEF Done, Idle
<1>3. CASE ReadRelease(j)
  <2>1. UNCHANGED <<rental, held, told, crossed>>
    BY <1>3 DEF ReadRelease, world, history
  <2>2. CASE rental[r].status = "released"
    BY <1>0, <1>1, <1>2, <1>3, <2>1, <2>2, IdleKeepsLeak DEF ReadRelease
  <2>3. CASE rental[r].status # "released"
    <3>1. /\ job'[j].pc = IF rental[r].bought /\ ~rental[r].freed THEN "drop" ELSE "close row"
          /\ job'[j].row = rental[r] /\ job'[j].rental = r
      <4> DEFINE pc == IF rental[r].bought /\ ~rental[r].freed THEN "drop" ELSE "close row"
      <4>1. job' = [job EXCEPT ![j] = [job[j] EXCEPT !.row = rental[r], !.pc = pc]]
        BY <1>3, <2>3 DEF ReadRelease
      <4> HIDE DEF pc
      <4>2. job'[j].pc = pc /\ job'[j].row = rental[r] /\ job'[j].rental = r
        BY <1>0, <4>1 DEF JobRecord
      <4> QED
        BY <4>2 DEF pc
    <3>2. rental[r].freed => r \in crossed
      BY <1>1, <2>3 DEF RequestInv, FreedFit
    <3>3. Dropped(job[j])'
      BY <1>1, <2>1, <3>1, <3>2 DEF Dropped, RentalRow
    <3>4. \A n : Silent(n)' => Silent(n)
      BY <2>1, SilentStays
    <3> QED
      BY <1>0, <1>1, <2>1, <3>3, <3>4, MoveKeepsLeak
  <2> QED
    BY <2>2, <2>3
<1>4. CASE Drop(j)
  <2>1. UNCHANGED <<rental, told, crossed>> /\ held' \subseteq held
    BY <1>4 DEF Drop
  <2>2. \A n : Silent(n)' => Silent(n)
    BY <2>1, SilentStays
  <2>3. CASE AfterRefusal(j)
    <3>1. Dropped(job[j])'
      BY <1>2, <2>3 DEF AfterRefusal, Dropped
    <3> QED
      BY <1>0, <1>1, <2>1, <2>2, <3>1, MoveKeepsLeak
  <2>4. CASE held' = held \ {job[j].row.number} /\ Go(j, "close row")
    <3>1. job'[j].pc = "close row" /\ job'[j].row = job[j].row /\ ~job[j].row.freed
      BY ZenonT(60), <1>0, <1>4, <2>4 DEF Go, JobRecord, Dropped, Drop
    <3>2. Dropped(job[j])'
      BY <2>4, <3>1 DEF Dropped, Silent
    <3> QED
      BY <1>0, <1>1, <2>1, <2>2, <3>2, MoveKeepsLeak
  <2> QED
    BY <1>4, <2>3, <2>4 DEF Drop
<1>5. CASE CloseRow(j)
  <2> PICK row \in RentalRow : row = [rental[r] EXCEPT !.status = "released", !.freed = TRUE]
    BY <1>1 DEF RentalRow
  <2>1. /\ rental' = [rental EXCEPT ![r] = row] /\ UNCHANGED <<held, told>>
        /\ crossed' = IF \/ job[j].row.bought # rental[r].bought
                         \/ \E q \in Jobs : job[q].rental = r /\ job[q].pc = "stamp"
                      THEN crossed \cup {r} ELSE crossed
        /\ job[j].pc = "close row" /\ job'[j].pc = "unroute"
    BY <1>0, <1>1, <1>5 DEF CloseRow, world, Go, JobRecord, RowsTyped
  <2>2. row.status = "released" /\ row.number = rental[r].number
    BY <1>1 DEF RentalRow
  <2>3. ASSUME Live(r), Silent(row.number)' PROVE FALSE
    <3>1. Silent(rental[r].number)
      <4>1. \A x \in Rentals : rental'[x].number = rental[x].number
        BY <1>0, <2>1, <2>2 DEF RowsTyped
      <4>2. held' \subseteq held /\ told \subseteq told' /\ crossed \subseteq crossed'
        BY <2>1
      <4>3. Silent(row.number)
        BY <2>3, <4>1, <4>2, SilentStays
      <4> QED
        BY <2>2, <4>3
    <3>2. r \notin crossed'
      BY <1>0, <1>1, <2>1, <2>2, <2>3 DEF Silent, Known, RowsTyped
    <3>3. /\ job[j].row.bought = rental[r].bought /\ r \notin crossed
          /\ ~\E q \in Jobs : job[q].rental = r /\ job[q].pc = "stamp"
      BY <2>1, <3>2
    <3>4. rental[r].bought
      BY <1>1, <2>3, <3>1, <3>3 DEF LeakInv, Taken
    <3>5. PICK y \in Rentals \ {r} : Live(y) /\ rental[y].number = rental[r].number
      BY <1>0, <2>1, <3>1, <3>3, <3>4 DEF Dropped, Placed
    <3> QED
      BY <1>1, <2>3, <3>5 DEF TypeInv, OneLiveRow
  <2> QED
    BY <1>0, <1>1, <2>1, <2>2, <2>3, RowKeepsLeak
<1>6. CASE Unroute(j)
  BY <1>0, <1>1, <1>2, <1>6, IdleKeepsLeak DEF Unroute, history
<1> QED
  BY <1>3, <1>4, <1>5, <1>6 DEF Release

LEMMA RoundKeepsLeak ==
  ASSUME TypeInv, LeakInv, NEW c \in Scanners,
         \/ ListDue(c) \/ ReadRental(c) \/ ClaimPeriod(c) \/ ChargePaid(c) \/ ChargeDeclined(c)
         \/ ChargeLost(c) \/ RollBack(c) \/ MarkPastDue(c) \/ ListCancelled(c) \/ ReleaseNext(c)
  PROVE  LeakInv'
<1>0. /\ job \in [Jobs -> JobRecord] /\ Placed(job[c]) /\ RowsTyped /\ c \in Jobs
      /\ \A k \in Jobs \ {c} : job'[k] = job[k]
  BY OthersStay DEF TypeInv, JobsFit, Tick, Jobs
<1>1. UNCHANGED <<held, told>> /\ crossed \subseteq crossed' /\ job[c].pc # "stamp"
  BY DEF ListDue, ReadRental, ClaimPeriod, ChargePaid, ChargeDeclined, ChargeLost, RollBack, MarkPastDue,
     ListCancelled, ReleaseNext, world, history
<1>2. job'[c].pc \notin {"drop", "close row"}
  <2>1. CASE ListDue(c) \/ ListCancelled(c) \/ ReleaseNext(c)
    BY ZenonT(60), <1>0, <2>1 DEF ListDue, ListCancelled, ReleaseNext, Idle, JobRecord
  <2>2. CASE ReadRental(c)
    BY ZenonT(60), <1>0, <2>2 DEF ReadRental, JobRecord
  <2>3. CASE \/ ClaimPeriod(c) \/ ChargePaid(c) \/ ChargeDeclined(c) \/ ChargeLost(c)
             \/ RollBack(c) \/ MarkPastDue(c)
    BY <1>0, <2>3 DEF ClaimPeriod, ChargePaid, ChargeDeclined, ChargeLost, RollBack, MarkPastDue, Go,
       Resume, Idle, JobRecord
  <2> QED
    BY <2>1, <2>2, <2>3
<1>3. CASE rental' = rental
  BY <1>0, <1>1, <1>2, <1>3, IdleKeepsLeak
<1>4. CASE rental' # rental
  <2> PICK r : r = job[c].rental
    OBVIOUS
  <2>1. CASE ClaimPeriod(c) \/ RollBack(c)
    <3>1. PICK row \in RentalRow :
            /\ rental' = [rental EXCEPT ![r] = row]
            /\ row.status = rental[r].status /\ row.number = rental[r].number
            /\ row.bought = rental[r].bought
      BY <2>1, PeriodSteps
    <3>2. r \in Rentals /\ rental[r].status # "absent"
      BY <2>1, PeriodSteps
    <3>3. row.status # "released" => Live(r)
      BY <3>1, <3>2 DEF Live
    <3>4. Live(r) => row.status # "released"
      BY <3>1 DEF Live
    <3>5. row.status # "absent" /\ (~row.bought => ~rental[r].bought)
      BY <3>1, <3>2
    <3> QED
      BY <1>0, <1>1, <1>2, <3>1, <3>2, <3>3, <3>4, <3>5, RowKeepsLeak
  <2>2. CASE MarkPastDue(c)
    <3>0. r \in Rentals /\ rental[r] \in RentalRow
      BY <1>0, <2>2 DEF MarkPastDue, Placed, RowsTyped
    <3> PICK row \in RentalRow : row = [rental[r] EXCEPT !.status = "past_due"]
      BY <3>0 DEF RentalRow
    <3>1. /\ rental' = [rental EXCEPT ![r] = row]
          /\ crossed' = IF Live(r) THEN crossed ELSE crossed \cup {r}
      BY <1>0, <1>4, <2>2, <3>0 DEF MarkPastDue, StatusUnpaid, RowsTyped
    <3>2. row.status = "past_due" /\ row.number = rental[r].number /\ row.bought = rental[r].bought
      BY <3>0 DEF RentalRow
    <3>3. ~Live(r) => ~Silent(row.number)'
      BY <1>0, <3>0, <3>1, <3>2 DEF Silent, Known, RowsTyped
    <3> QED
      BY <1>0, <1>1, <1>2, <3>0, <3>1, <3>2, <3>3, RowKeepsLeak
  <2> QED
    BY <1>4, <2>1, <2>2 DEF ListDue, ReadRental, ChargePaid, ChargeDeclined, ChargeLost,
       ListCancelled, ReleaseNext
<1> QED
  BY <1>3, <1>4

\* An order that was never paid has taken no number.
LEMMA PurgeKeepsLeak ==
  ASSUME TypeInv, LeakInv, NEW c \in Scanners, Purge(c) PROVE LeakInv'
<1>0. /\ job \in [Jobs -> JobRecord] /\ RowsTyped /\ c \in Jobs
      /\ \A j \in Jobs : Placed(job[j])
      /\ \A k \in Jobs \ {c} : job'[k] = job[k]
  BY OthersStay DEF TypeInv, JobsFit, Tick, Jobs
<1>1. UNCHANGED <<held, told, crossed>> /\ job[c].pc = "close" /\ job'[c].pc = "idle"
  BY <1>0 DEF Purge, world, history, Idle
<1>2. ASSUME NEW r \in Rentals
      PROVE  /\ rental'[r].number = rental[r].number /\ rental'[r].bought = rental[r].bought
             /\ \/ rental'[r].status = rental[r].status
                \/ rental[r].status = "pending" /\ rental'[r].status = "released"
  <2>1. PICK old \in SUBSET {y \in Rentals : rental[y].status = "pending"} :
          rental' = [y \in Rentals |-> IF y \in old THEN [rental[y] EXCEPT !.status = "released"]
                                       ELSE rental[y]]
    BY DEF Purge
  <2>2. rental[r] \in RentalRow
    BY <1>0 DEF RowsTyped
  <2>3. \/ rental'[r] = rental[r]
        \/ rental[r].status = "pending" /\ rental'[r] = [rental[r] EXCEPT !.status = "released"]
    BY <2>1
  <2>4. CASE rental'[r] = rental[r]
    BY <2>4
  <2>5. CASE rental[r].status = "pending" /\ rental'[r] = [rental[r] EXCEPT !.status = "released"]
    BY <2>2, <2>5 DEF RentalRow
  <2> QED
    BY <2>3, <2>4, <2>5
<1>3. ASSUME NEW n PROVE Silent(n)' <=> Silent(n)
  BY <1>1, <1>2 DEF Silent, Known
<1>4. ASSUME NEW y \in Rentals, Live(y), Silent(rental[y].number) PROVE Live(y)'
  <2>1. rental[y].status # "pending"
    <3> SUFFICES ASSUME rental[y].status = "pending" PROVE FALSE
      OBVIOUS
    <3>1. PICK q \in Jobs : job[q].pc = "stamp" /\ job[q].rental = y
      BY <1>4 DEF LeakInv, Taken, TypeInv, RowsFit
    <3> QED
      BY <1>0, <3>1 DEF Placed
  <2> QED
    BY <1>2, <1>4, <2>1 DEF Live
<1>5. NoSilentLeak'
  <2> SUFFICES ASSUME NEW n \in held' \ told', ~Known(n)'
               PROVE  \E y \in Rentals : rental'[y].number = n /\ Live(y)'
    BY DEF NoSilentLeak, Known
  <2>1. Silent(n)
    BY <1>3 DEF Silent
  <2>2. PICK y \in Rentals : rental[y].number = n /\ Live(y)
    BY <2>1 DEF LeakInv, NoSilentLeak, Silent, Known
  <2> QED
    BY <1>2, <1>4, <2>1, <2>2
<1>6. Taken'
  <2> SUFFICES ASSUME NEW y \in Rentals, Live(y)', ~rental'[y].bought, NEW n,
                      rental'[y].number = n, Silent(n)'
               PROVE  \E q \in Jobs : job'[q].pc = "stamp" /\ job'[q].rental = y
    BY DEF Taken
  <2>1. Live(y) /\ ~rental[y].bought /\ rental[y].number = n /\ Silent(n)
    BY <1>2, <1>3 DEF Live
  <2>2. PICK q \in Jobs : job[q].pc = "stamp" /\ job[q].rental = y
    BY <2>1 DEF LeakInv, Taken
  <2> QED
    BY <1>0, <1>1, <2>2
<1>7. ASSUME NEW k \in Jobs PROVE Dropped(job[k])'
  <2>1. CASE k = c
    BY <1>1, <2>1 DEF Dropped
  <2>2. CASE k # c
    <3>1. job'[k] = job[k] /\ Dropped(job[k])
      BY <1>0, <2>2 DEF LeakInv
    <3>2. ASSUME job[k].pc = "close row", job[k].row.bought, ~job[k].row.freed,
                 NEW n, job[k].row.number = n, Silent(n)'
          PROVE  \E y \in Rentals \ {job[k].rental} : Live(y)' /\ rental'[y].number = n
      <4>1. PICK y \in Rentals \ {job[k].rental} : Live(y) /\ rental[y].number = n
        BY <1>3, <3>1, <3>2 DEF Dropped
      <4> QED
        BY <1>2, <1>3, <1>4, <3>1, <3>2, <4>1
    <3> QED
      BY <1>1, <3>1, <3>2 DEF Dropped
  <2> QED
    BY <2>1, <2>2
<1> QED
  BY <1>5, <1>6, <1>7 DEF LeakInv

LEMMA StepKeepsLeak == TypeInv /\ RequestInv /\ LeakInv /\ [RentalNext]_rentalVars => LeakInv'
<1> SUFFICES ASSUME TypeInv, RequestInv, LeakInv, [RentalNext]_rentalVars PROVE LeakInv'
  OBVIOUS
<1>1. ASSUME NEW j \in Jobs, Kill(j) PROVE LeakInv'
  <2>1. /\ UNCHANGED <<rental, held, told>> /\ job' = [job EXCEPT ![j] = Idle]
        /\ crossed' = IF job[j].pc \in {"stamp", "orphan"} THEN crossed \cup {job[j].rental} ELSE crossed
    BY <1>1 DEF Kill, world
  <2>2. Dropped(job[j])'
    BY <2>1 DEF Dropped, Idle, TypeInv, JobsFit
  <2>3. \A n : Silent(n)' => Silent(n)
    BY <2>1, SilentStays
  <2>4. \A k \in Jobs \ {j} : job'[k] = job[k]
    BY <1>1, OthersStay
  <2> QED
    BY <2>1, <2>2, <2>3, <2>4, MoveKeepsLeak
<1>2. CASE Pass \/ UNCHANGED rentalVars
  <2>1. UNCHANGED <<rental, held, told, crossed, job>>
    BY <1>2 DEF Pass, rentalVars, world, history
  <2>2. \A n : Silent(n)' <=> Silent(n)
    BY <2>1 DEF Silent, Known
  <2>3. NoSilentLeak' /\ Taken'
    BY <2>1 DEF LeakInv, NoSilentLeak, Taken, Silent, Known, Live
  <2>4. ASSUME NEW k \in Jobs PROVE Dropped(job[k])'
    <3>1. Dropped(job[k]) /\ job'[k] = job[k]
      BY <2>1 DEF LeakInv
    <3> QED
      BY <2>1, <2>2, <3>1 DEF Dropped, Live
  <2> QED
    BY <2>3, <2>4 DEF LeakInv
<1>3. ASSUME NEW c \in Scanners, Tick(c) PROVE LeakInv'
  BY <1>3, RoundKeepsLeak, PurgeKeepsLeak, ReleaseKeepsLeak DEF Tick, Jobs
<1> QED
  BY <1>1, <1>2, <1>3, CheckoutKeepsLeak, CancelKeepsLeak, ConfirmKeepsLeak, ReleaseKeepsLeak
  DEF RentalNext, Jobs

LEMMA InitLeak == RentalInit => LeakInv
<1> SUFFICES ASSUME RentalInit PROVE LeakInv
  OBVIOUS
<1> PICK first \in SUBSET Rentals, n \in Numbers, o \in Offices :
       LET row == [NoRow EXCEPT !.status = "active", !.number = n, !.office = o, !.end = 1,
                                !.bought = TRUE]
       IN /\ \A r, x \in first : r = x
          /\ rental = [r \in Rentals |-> IF r \in first THEN row ELSE NoRow]
          /\ held = IF first = {} THEN {} ELSE {n}
          /\ route = [x \in Offices \X Numbers |->
                        IF first # {} /\ x = <<o, n>> THEN "on" ELSE "none"]
  BY DEF RentalInit
<1> DEFINE row == [NoRow EXCEPT !.status = "active", !.number = n, !.office = o, !.end = 1,
                                !.bought = TRUE]
<1>1. row.status = "active" /\ row.number = n /\ row.bought /\ NoRow.status = "absent"
  BY DEF NoRow
<1>2. rental = [r \in Rentals |-> IF r \in first THEN row ELSE NoRow]
  OBVIOUS
<1> HIDE DEF row
<1>3. NoSilentLeak /\ Taken
  BY <1>1, <1>2 DEF NoSilentLeak, Taken, Live
<1>4. \A j \in Jobs : job[j].pc = "idle"
  BY DEF RentalInit, Idle
<1> QED
  BY <1>3, <1>4 DEF LeakInv, Dropped

-----------------------------------------------------------------------------
(***************************************************************************)
(* A month is renewed once.  A replica that has claimed a month, and does  *)
(* not know yet that it was paid, holds it: held months lie before the end *)
(* of their rental and apart, and the months that were paid for lie before *)
(* the end and outside every held month (MonthInv).  The month of a charge *)
(* whose answer was lost lies before the end too, or its rental is not     *)
(* active, or the replica that lost the answer is about to see to that     *)
(* (LostInv).                                                              *)
(***************************************************************************)

\* A payment that is confirmed moves the end of its rental on: activate writes
\* the month after the end it read, and nobody has gone further meanwhile.
Extends ==
  \A q \in Requests : job[q].pc = "activate" /\ job'[q].pc = "provision" =>
    (rental[job[q].rental].end # None => rental[job[q].rental].end < rental'[job[q].rental].end)

ConfirmationsExtend == [][Extends]_rentalVars

\* No replica is killed between a charge that failed and its mark.
Marks == \A c \in Scanners : job[c].pc \in {"roll back", "mark"} => job'[c].pc # "idle"

MarksFollow == [][Marks]_rentalVars

Holds(c) == job[c].pc \in {"charge", "roll back"}

\* An active rental has an end, and a replica at work knows the month it is after.
MonthsKnown ==
  /\ \A r \in Rentals : rental[r].status = "active" => rental[r].end # None
  /\ \A c \in Scanners : job[c].pc = "claim" \/ Holds(c) =>
       job[c].row.end \in Nat /\ job[c].to \in Nat /\ job[c].row.end < job[c].to
  /\ charged \in [Rentals \X (0 .. MaxTime + Period) -> Nat]

Before(c) == rental[job[c].rental].end # None /\ job[c].to <= rental[job[c].rental].end

Apart(c, d) == job[c].to <= job[d].row.end \/ job[d].to <= job[c].row.end

MonthsHeld ==
  /\ \A c \in Scanners : Holds(c) => Before(c)
  /\ \A c, d \in Scanners :
       c # d /\ Holds(c) /\ Holds(d) /\ job[c].rental = job[d].rental => Apart(c, d)

Outside(t, c) == t < job[c].row.end \/ job[c].to <= t

MonthsPaid ==
  \A r \in Rentals, t \in 0 .. MaxTime + Period :
    /\ charged[<<r, t>>] <= 1
    /\ charged[<<r, t>>] > 0 =>
         /\ rental[r].status # "absent" /\ rental[r].end # None /\ t < rental[r].end
         /\ \A c \in Scanners : Holds(c) /\ job[c].rental = r => Outside(t, c)

MonthInv == MonthsKnown /\ MonthsHeld /\ MonthsPaid

\* A rental keeps its end and does not become active, or its end moves on.
RowsGoOn ==
  \A r \in Rentals :
    /\ rental[r].status = "absent" => rental'[r].status # "active"
    /\ rental[r].status # "absent" =>
         /\ rental'[r].status # "absent"
         /\ \/ /\ rental'[r].end = rental[r].end
               /\ rental'[r].status = "active" => rental[r].status = "active"
            \/ /\ rental'[r].end \in Nat
               /\ rental[r].end # None => rental[r].end < rental'[r].end

LEMMA RowsStay == TypeInv /\ rental' = rental => RowsGoOn
BY DEF RowsGoOn

LEMMA RowGoesOn ==
  ASSUME TypeInv, NEW r \in Rentals, NEW row, rental' = [rental EXCEPT ![r] = row],
         row.status # "absent", rental[r].status # "absent", row.end = rental[r].end,
         row.status = "active" => rental[r].status = "active"
  PROVE  RowsGoOn
BY DEF RowsGoOn, TypeInv, RowsTyped

\* Who writes a row that is not about a renewal.
LEMMA RequestRows ==
  ASSUME TypeInv, NEW q \in Requests, Extends,
         Checkout(q) \/ Cancel(q) \/ CancelWrite(q) \/ Confirm(q) \/ AdminRelease(q)
  PROVE  RowsGoOn
<1>0. q \in Jobs /\ job[q] \in JobRecord /\ Placed(job[q]) /\ rental \in [Rentals -> RentalRow]
      /\ job \in [Jobs -> JobRecord]
  BY DEF Jobs, TypeInv, JobsFit, RowsTyped
<1>1. CASE rental' = rental
  BY <1>1, RowsStay
<1>2. CASE CreateRental(q) /\ rental' # rental
  <2>1. PICK r \in Rentals : rental[r].status = "absent" /\ rental' = [rental EXCEPT ![r] = job[q].row]
    BY <1>2 DEF CreateRental
  <2>2. job[q].row.status = "pending"
    BY <1>0, <1>2 DEF CreateRental, Placed
  <2> QED
    BY <1>0, <2>1, <2>2 DEF RowsGoOn
<1>3. CASE CancelWrite(q) /\ rental' # rental
  <2> DEFINE r == job[q].rental
  <2>1. r \in Rentals /\ rental[r].status # "absent" /\ rental[r] \in RentalRow
    BY <1>0, <1>3 DEF CancelWrite, Placed
  <2>2. rental' = [rental EXCEPT ![r] = [rental[r] EXCEPT !.status = "cancelled"]]
    BY <1>3 DEF CancelWrite
  <2>3. /\ [rental[r] EXCEPT !.status = "cancelled"].status = "cancelled"
        /\ [rental[r] EXCEPT !.status = "cancelled"].end = rental[r].end
    BY <2>1 DEF RentalRow
  <2> QED
    BY <2>1, <2>2, <2>3, RowGoesOn
<1>4. CASE StampPurchase(q)
  <2> DEFINE r == job[q].rental
  <2>1. r \in Rentals /\ rental[r].status # "absent" /\ rental[r] \in RentalRow
    BY <1>0, <1>4 DEF StampPurchase, Placed
  <2>2. rental' = [rental EXCEPT ![r] = [rental[r] EXCEPT !.bought = TRUE]]
    BY <1>4 DEF StampPurchase
  <2>3. /\ [rental[r] EXCEPT !.bought = TRUE].status = rental[r].status
        /\ [rental[r] EXCEPT !.bought = TRUE].end = rental[r].end
    BY <2>1 DEF RentalRow
  <2> QED
    BY <2>1, <2>2, <2>3, RowGoesOn
<1>5. CASE Activate(q) /\ rental' # rental
  <2> DEFINE r   == job[q].rental
             end == NextPeriodEnd(job[q].row.end, now)
  <2>1. r \in Rentals /\ rental[r].status # "absent" /\ rental[r] \in RentalRow
    BY <1>0, <1>5 DEF Activate, Placed
  <2>2. /\ rental' = [rental EXCEPT ![r] = [rental[r] EXCEPT !.status = "active", !.end = end]]
        /\ job' = [job EXCEPT ![q] = [job[q] EXCEPT !.pc = "provision"]]
        /\ job[q].pc = "activate"
    BY <1>5 DEF Activate, Go
  <2>3. end \in Nat
    <3>1. job[q].row.end \in Nat \cup {None} /\ now \in Nat
      BY <1>0, RentalAssumption DEF JobRecord, RentalRow, TypeInv, RestTyped
    <3> QED
      BY <3>1, RentalAssumption DEF NextPeriodEnd
  <2>4. /\ [rental[r] EXCEPT !.status = "active", !.end = end].status = "active"
        /\ [rental[r] EXCEPT !.status = "active", !.end = end].end = end
    BY <2>1 DEF RentalRow
  <2>5. rental'[r].status = "active" /\ rental'[r].end = end /\ \A x \in Rentals : x # r => rental'[x] = rental[x]
    BY <1>0, <2>1, <2>2, <2>4
  <2>6. job'[q].pc = "provision"
    BY <1>0, <2>2 DEF JobRecord
  <2>7. rental[r].end # None => rental[r].end < end
    BY <2>2, <2>5, <2>6 DEF Extends
  <2> QED
    BY <2>1, <2>3, <2>5, <2>7 DEF RowsGoOn
<1> QED
  BY <1>1, <1>2, <1>3, <1>4, <1>5 DEF Checkout, Look, Supersede, OpenPage, Cancel, CancelWrite, Confirm,
     ClaimPayment, Report, Provision, Purchase, Route, AdminRelease

LEMMA ReleaseRows == ASSUME TypeInv, NEW j \in Jobs, Release(j) PROVE RowsGoOn
<1>0. job[j] \in JobRecord /\ Placed(job[j]) /\ rental \in [Rentals -> RentalRow]
  BY DEF TypeInv, JobsFit, RowsTyped
<1>1. CASE CloseRow(j)
  <2> DEFINE r == job[j].rental
  <2>1. r \in Rentals /\ rental[r].status # "absent" /\ rental[r] \in RentalRow
    BY <1>0, <1>1 DEF CloseRow, Placed
  <2>2. rental' = [rental EXCEPT ![r] = [rental[r] EXCEPT !.status = "released", !.freed = TRUE]]
    BY <1>1 DEF CloseRow
  <2>3. /\ [rental[r] EXCEPT !.status = "released", !.freed = TRUE].status = "released"
        /\ [rental[r] EXCEPT !.status = "released", !.freed = TRUE].end = rental[r].end
    BY <2>1 DEF RentalRow
  <2> QED
    BY <2>1, <2>2, <2>3, RowGoesOn
<1>2. CASE ReadRelease(j) \/ Drop(j) \/ Unroute(j)
  BY <1>2, RowsStay DEF ReadRelease, Drop, Unroute
<1> QED
  BY <1>1, <1>2 DEF Release

LEMMA ScannerRows ==
  ASSUME TypeInv, NEW c \in Scanners,
         \/ ListDue(c) \/ ReadRental(c) \/ ChargePaid(c) \/ ChargeDeclined(c) \/ ChargeLost(c)
         \/ MarkPastDue(c) \/ ListCancelled(c) \/ ReleaseNext(c) \/ Purge(c)
  PROVE  RowsGoOn
<1>0. /\ c \in Jobs /\ job[c] \in JobRecord /\ Placed(job[c]) /\ rental \in [Rentals -> RentalRow]
  BY DEF Jobs, TypeInv, JobsFit, RowsTyped
<1>1. CASE rental' = rental
  BY <1>1, RowsStay
<1>2. CASE MarkPastDue(c) /\ rental' # rental
  <2> DEFINE r == job[c].rental
  <2>1. r \in Rentals /\ rental[r].status # "absent" /\ rental[r] \in RentalRow
    BY <1>0, <1>2 DEF MarkPastDue, Placed
  <2>2. rental' = [rental EXCEPT ![r] = [rental[r] EXCEPT !.status = "past_due"]]
    BY <1>2 DEF MarkPastDue, StatusUnpaid
  <2>3. /\ [rental[r] EXCEPT !.status = "past_due"].status = "past_due"
        /\ [rental[r] EXCEPT !.status = "past_due"].end = rental[r].end
    BY <2>1 DEF RentalRow
  <2> QED
    BY <2>1, <2>2, <2>3, RowGoesOn
<1>3. CASE Purge(c)
  <2>1. PICK old \in SUBSET {r \in Rentals : rental[r].status = "pending"} :
          rental' = [r \in Rentals |-> IF r \in old THEN [rental[r] EXCEPT !.status = "released"]
                                       ELSE rental[r]]
    BY <1>3 DEF Purge
  <2>2. ASSUME NEW r \in Rentals
        PROVE  /\ rental'[r].end = rental[r].end
               /\ \/ rental'[r].status = rental[r].status
                  \/ rental[r].status = "pending" /\ rental'[r].status = "released"
    <3>1. rental[r] \in RentalRow
      BY <1>0
    <3>2. \/ rental'[r] = rental[r]
          \/ rental[r].status = "pending" /\ rental'[r] = [rental[r] EXCEPT !.status = "released"]
      BY <2>1
    <3> QED
      BY <3>1, <3>2 DEF RentalRow
  <2> QED
    BY <2>2 DEF RowsGoOn
<1> QED
  BY <1>1, <1>2, <1>3 DEF ListDue, ReadRental, ChargePaid, ChargeDeclined, ChargeLost, MarkPastDue,
     ListCancelled, ReleaseNext

\* Where the steps of a replica that are not about a charge leave it.
LEMMA LeavesMonth ==
  ASSUME TypeInv, NEW c \in Scanners,
         \/ ListDue(c) \/ ListCancelled(c) \/ ReleaseNext(c) \/ Purge(c) \/ Release(c)
         \/ ChargePaid(c) \/ MarkPastDue(c) \/ Kill(c)
         \/ ClaimPeriod(c) /\ ~Claimable(c)
  PROVE  job'[c].pc \notin {"claim", "charge", "roll back", "mark"}
<1>0. c \in Jobs /\ job[c] \in JobRecord /\ job \in [Jobs -> JobRecord]
  BY DEF Jobs, TypeInv, JobsFit
<1>1. CASE ListDue(c) \/ ListCancelled(c) \/ Purge(c) \/ Kill(c)
  <2>1. CASE Purge(c) \/ Kill(c)
    <3>1. job' = [job EXCEPT ![c] = Idle]
      BY <2>1 DEF Purge, Kill
    <3> QED
      BY <1>0, <3>1 DEF Idle
  <2>2. CASE ListDue(c)
    <3>1. PICK due : job' = [job EXCEPT ![c] = [Idle EXCEPT !.pc = "renew", !.at = now, !.due = due]]
      BY <2>2 DEF ListDue
    <3> QED
      BY <1>0, <3>1 DEF Idle
  <2>3. CASE ListCancelled(c)
    <3>1. PICK due : job' = [job EXCEPT ![c] = [Idle EXCEPT !.pc = "close", !.due = due]]
      BY <2>3 DEF ListCancelled
    <3> QED
      BY <1>0, <3>1 DEF Idle
  <2> QED
    BY <1>1, <2>1, <2>2, <2>3
<1>2. CASE \/ ChargePaid(c) \/ MarkPastDue(c)
           \/ ClaimPeriod(c) /\ ~Claimable(c)
  <2>1. job' = [job EXCEPT ![c] = [Idle EXCEPT !.pc = "renew", !.at = job[c].at, !.due = job[c].due]]
    BY <1>2 DEF ChargePaid, MarkPastDue, ClaimPeriod, Resume
  <2> QED
    BY <1>0, <2>1 DEF Idle
<1>3. CASE ReleaseNext(c)
  <2>1. PICK r \in job[c].due :
          job' = [job EXCEPT ![c] = [job[c] EXCEPT !.pc = "release", !.rental = r, !.due = job[c].due \ {r}]]
    BY <1>3 DEF ReleaseNext
  <2> QED
    BY <1>0, <2>1 DEF JobRecord
<1>4. CASE Release(c)
  <2>1. CASE Done(c)
    BY <1>0, <2>1 DEF Done, Idle
  <2>2. CASE Go(c, "close row") \/ Go(c, "unroute")
    BY <1>0, <2>2 DEF Go, JobRecord
  <2>3. CASE ReadRelease(c) /\ ~Done(c)
    <3>1. PICK pc \in {"drop", "close row"} :
            job' = [job EXCEPT ![c] = [job[c] EXCEPT !.row = rental[job[c].rental], !.pc = pc]]
      <4>1. \/ job' = [job EXCEPT ![c] = [job[c] EXCEPT !.row = rental[job[c].rental], !.pc = "drop"]]
            \/ job' = [job EXCEPT ![c] = [job[c] EXCEPT !.row = rental[job[c].rental], !.pc = "close row"]]
        BY <2>3 DEF ReadRelease
      <4> QED
        BY <4>1
    <3> QED
      BY <1>0, <3>1 DEF JobRecord
  <2> QED
    BY <1>4, <2>1, <2>2, <2>3 DEF Release, Drop, CloseRow, Unroute, AfterRefusal
<1> QED
  BY <1>1, <1>2, <1>3, <1>4

\* What a replica that reads a rental makes of it.
LEMMA ReadsMonth ==
  ASSUME TypeInv, MonthsKnown, NEW c \in Scanners, ReadRental(c)
  PROVE  /\ job'[c].pc \in {"renew", "claim", "mark"}
         /\ job'[c].pc = "claim" =>
              job'[c].row.end \in Nat /\ job'[c].to \in Nat /\ job'[c].row.end < job'[c].to
<1>0. /\ c \in Jobs /\ job[c] \in JobRecord /\ job \in [Jobs -> JobRecord] /\ job[c].pc = "renew"
      /\ rental \in [Rentals -> RentalRow]
  BY DEF Jobs, TypeInv, JobsFit, RowsTyped, ReadRental
<1>1. PICK r \in job[c].due :
        IF rental[r].status # "active"
          THEN job' = [job EXCEPT ![c] = [job[c] EXCEPT !.due = @ \ {r}]]
          ELSE \E pc \in {"claim", "mark"} :
                 job' = [job EXCEPT ![c] = [job[c] EXCEPT !.pc = pc, !.due = job[c].due \ {r}, !.rental = r,
                           !.row = rental[r], !.to = NextPeriodEnd(rental[r].end, job[c].at)]]
  BY DEF ReadRental
<1>2. CASE rental[r].status # "active"
  BY <1>0, <1>1, <1>2 DEF JobRecord
<1>3. CASE rental[r].status = "active"
  <2>1. r \in Rentals /\ rental[r].end \in Nat
    BY <1>0, <1>3 DEF JobRecord, RentalRow, MonthsKnown
  <2>2. NextPeriodEnd(rental[r].end, job[c].at) \in Nat /\ rental[r].end < NextPeriodEnd(rental[r].end, job[c].at)
    BY <1>0, <2>1, RentalAssumption DEF NextPeriodEnd, JobRecord
  <2> DEFINE to == NextPeriodEnd(rental[r].end, job[c].at)
  <2> HIDE DEF to
  <2>3. PICK pc \in {"claim", "mark"} :
          job' = [job EXCEPT ![c] = [job[c] EXCEPT !.pc = pc, !.due = job[c].due \ {r}, !.rental = r,
                    !.row = rental[r], !.to = to]]
    BY <1>1, <1>3 DEF to
  <2>4. job'[c].pc = pc /\ job'[c].row = rental[r] /\ job'[c].to = to
    BY <1>0, <2>3 DEF JobRecord
  <2> QED
    BY <2>1, <2>2, <2>4 DEF to
<1> QED
  BY <1>2, <1>3

\* The replica goes on with its month.
LEMMA GoesOn ==
  ASSUME TypeInv, NEW c \in Scanners, NEW pc, Go(c, pc)
  PROVE  /\ job'[c].pc = pc /\ job'[c].rental = job[c].rental
         /\ job'[c].row = job[c].row /\ job'[c].to = job[c].to
BY DEF Jobs, TypeInv, JobsFit, JobRecord, Go

SameMonth(c) ==
  job'[c].rental = job[c].rental /\ job'[c].row = job[c].row /\ job'[c].to = job[c].to

HoldersStay == \A c \in Scanners : Holds(c)' => Holds(c) /\ SameMonth(c)

LEMMA EndTypes == TypeInv => \A r \in Rentals : rental[r].end \in Nat \cup {None}
BY DEF TypeInv, RowsTyped, RentalRow

LEMMA HolderKnows ==
  ASSUME TypeInv, MonthInv, NEW c \in Scanners, Holds(c)
  PROVE  /\ job[c].rental \in Rentals /\ rental[job[c].rental].status # "absent"
         /\ rental[job[c].rental].end \in Nat
         /\ job[c].row.end \in Nat /\ job[c].to \in Nat /\ job[c].row.end < job[c].to
         /\ job[c].to <= rental[job[c].rental].end
<1>1. Placed(job[c])
  BY DEF Jobs, TypeInv, JobsFit
<1>2. job[c].rental \in Rentals /\ rental[job[c].rental].status # "absent"
  BY <1>1 DEF Placed, Holds
<1> QED
  BY <1>2, EndTypes DEF MonthInv, MonthsKnown, MonthsHeld, Before

LEMMA QuietMonths ==
  ASSUME TypeInv, TypeInv', MonthInv, RowsGoOn, HoldersStay, charged' = charged,
         \A c \in Scanners : job'[c].pc = "claim" =>
           job'[c].row.end \in Nat /\ job'[c].to \in Nat /\ job'[c].row.end < job'[c].to
  PROVE  MonthInv'
<1>1. MonthsKnown'
  <2>1. ASSUME NEW r \in Rentals, rental'[r].status = "active" PROVE rental'[r].end # None
    <3>1. rental[r].status # "absent"
      BY <2>1 DEF RowsGoOn
    <3> QED
      BY <2>1, <3>1, RentalAssumption DEF RowsGoOn, MonthInv, MonthsKnown
  <2>2. ASSUME NEW c \in Scanners, Holds(c)'
        PROVE  job'[c].row.end \in Nat /\ job'[c].to \in Nat /\ job'[c].row.end < job'[c].to
    BY <2>2 DEF HoldersStay, SameMonth, MonthInv, MonthsKnown
  <2> QED
    BY <2>1, <2>2 DEF MonthsKnown, MonthInv
<1>2. ASSUME NEW r \in Rentals, rental[r].status # "absent", rental[r].end # None
      PROVE  /\ rental[r].end \in Nat /\ rental'[r].end \in Nat /\ rental'[r].end # None
             /\ rental[r].end <= rental'[r].end /\ rental'[r].status # "absent"
  BY <1>2, EndTypes, RentalAssumption DEF RowsGoOn
<1>3. MonthsHeld'
  <2>1. ASSUME NEW c \in Scanners, Holds(c)' PROVE Before(c)'
    <3>1. Holds(c) /\ job'[c].rental = job[c].rental /\ job'[c].to = job[c].to
      BY <2>1 DEF HoldersStay, SameMonth
    <3>2. /\ job[c].rental \in Rentals /\ rental[job[c].rental].status # "absent"
          /\ rental[job[c].rental].end \in Nat /\ job[c].to \in Nat
          /\ job[c].to <= rental[job[c].rental].end
      BY <3>1, HolderKnows
    <3>3. /\ rental'[job[c].rental].end \in Nat /\ rental'[job[c].rental].end # None
          /\ rental[job[c].rental].end <= rental'[job[c].rental].end
      BY <1>2, <3>2, RentalAssumption
    <3> QED
      BY <3>1, <3>2, <3>3 DEF Before
  <2>2. ASSUME NEW c \in Scanners, NEW d \in Scanners, c # d, Holds(c)', Holds(d)',
               job'[c].rental = job'[d].rental
        PROVE  Apart(c, d)'
    BY <2>2 DEF HoldersStay, SameMonth, MonthInv, MonthsHeld, Apart
  <2> QED
    BY <2>1, <2>2 DEF MonthsHeld
<1>4. MonthsPaid'
  <2> SUFFICES ASSUME NEW r \in Rentals, NEW t \in 0 .. MaxTime + Period
               PROVE  /\ charged[<<r, t>>] <= 1
                      /\ charged[<<r, t>>] > 0 =>
                           /\ rental'[r].status # "absent" /\ rental'[r].end # None /\ t < rental'[r].end
                           /\ \A c \in Scanners : Holds(c)' /\ job'[c].rental = r => Outside(t, c)'
    BY DEF MonthsPaid
  <2>1. /\ charged[<<r, t>>] <= 1
        /\ charged[<<r, t>>] > 0 =>
             /\ rental[r].status # "absent" /\ rental[r].end # None /\ t < rental[r].end
             /\ \A c \in Scanners : Holds(c) /\ job[c].rental = r => Outside(t, c)
    BY DEF MonthInv, MonthsPaid
  <2>2. t \in Nat
    BY RentalAssumption
  <2>3. charged[<<r, t>>] > 0 =>
          rental'[r].status # "absent" /\ rental'[r].end # None /\ t < rental'[r].end
    BY <1>2, <2>1, <2>2
  <2>4. ASSUME NEW c \in Scanners, charged[<<r, t>>] > 0, Holds(c)', job'[c].rental = r
        PROVE  Outside(t, c)'
    BY <2>1, <2>4 DEF HoldersStay, SameMonth, Outside
  <2> QED
    BY <2>1, <2>3, <2>4
<1> QED
  BY <1>1, <1>3, <1>4 DEF MonthInv

\* Steps that move one replica away from its month, or to a claim.
LEMMA QuietReplica ==
  ASSUME TypeInv, TypeInv', MonthInv, NEW c \in Scanners,
         \A d \in Scanners : d # c => job'[d] = job[d],
         \/ ListDue(c) \/ ReadRental(c) \/ MarkPastDue(c) \/ ListCancelled(c) \/ ReleaseNext(c)
         \/ Purge(c) \/ Release(c) \/ Kill(c)
         \/ ClaimPeriod(c) /\ ~Claimable(c)
  PROVE  MonthInv' /\ RowsGoOn /\ charged' = charged /\ lost' = lost
<1>1. RowsGoOn
  <2>1. CASE \/ Kill(c)
             \/ ClaimPeriod(c) /\ ~Claimable(c)
    BY <2>1, RowsStay DEF Kill, ClaimPeriod
  <2>2. CASE Release(c)
    BY <2>2, ReleaseRows DEF Jobs
  <2> QED
    BY <2>1, <2>2, ScannerRows
<1>2. charged' = charged /\ lost' = lost
  BY DEF ListDue, ReadRental, MarkPastDue, ListCancelled, ReleaseNext, Purge, Release, ReadRelease, Drop,
         CloseRow, Unroute, Kill, ClaimPeriod, history
<1>3. /\ job'[c].pc \notin {"charge", "roll back"}
      /\ job'[c].pc = "claim" => job'[c].row.end \in Nat /\ job'[c].to \in Nat /\ job'[c].row.end < job'[c].to
  <2>1. CASE ReadRental(c)
    BY <2>1, ReadsMonth DEF MonthInv
  <2>2. CASE ~ReadRental(c)
    BY <2>2, LeavesMonth
  <2> QED
    BY <2>1, <2>2
<1>4. HoldersStay
  BY <1>3 DEF HoldersStay, Holds, SameMonth
<1>5. ASSUME NEW d \in Scanners, job'[d].pc = "claim"
      PROVE  job'[d].row.end \in Nat /\ job'[d].to \in Nat /\ job'[d].row.end < job'[d].to
  BY <1>3, <1>5 DEF MonthInv, MonthsKnown
<1> QED
  BY <1>1, <1>2, <1>4, <1>5, QuietMonths

-----------------------------------------------------------------------------
\* The replica claims the month after the end: what others hold and what was
\* paid for lies before it.
LEMMA ClaimHolds ==
  ASSUME TypeInv, TypeInv', MonthInv, NEW c \in Scanners, ClaimPeriod(c), Claimable(c)
  PROVE  MonthInv'
<1> DEFINE r    == job[c].rental
           from == job[c].row.end
           to   == job[c].to
<1>1. /\ r \in Rentals /\ from \in Nat /\ to \in Nat /\ from < to /\ to # None
      /\ rental[r].end = from /\ rental[r].status = "active" /\ rental[r] \in RentalRow
  <2>1. job[c].pc = "claim" /\ Placed(job[c])
    BY DEF ClaimPeriod, Jobs, TypeInv, JobsFit
  <2>2. r \in Rentals /\ from \in Nat /\ to \in Nat /\ from < to
    BY <2>1 DEF Placed, MonthInv, MonthsKnown
  <2> QED
    BY <2>2, RentalAssumption DEF Claimable, TypeInv, RowsTyped
<1>2. /\ rental' = [rental EXCEPT ![r] = [rental[r] EXCEPT !.end = to]]
      /\ Go(c, "charge") /\ charged' = charged
  BY DEF ClaimPeriod, history
<1>3. /\ rental'[r].end = to /\ rental'[r].status = "active"
      /\ \A x \in Rentals : x # r => rental'[x] = rental[x]
  BY <1>1, <1>2 DEF RentalRow, TypeInv, RowsTyped
<1>4. /\ job'[c].pc = "charge" /\ job'[c].rental = r /\ job'[c].row.end = from /\ job'[c].to = to
      /\ \A d \in Scanners : d # c => job'[d] = job[d]
  <2>1. \A d \in Scanners : d # c => job'[d] = job[d]
    BY <1>2 DEF Go, Jobs, TypeInv, JobsFit
  <2> QED
    BY <1>2, <2>1, GoesOn
<1>5. ASSUME NEW d \in Scanners, d # c, Holds(d), job[d].rental = r
      PROVE  job[d].to \in Nat /\ job[d].to <= from
  BY <1>1, <1>5, HolderKnows
<1>6. MonthsHeld'
  <2>1. ASSUME NEW d \in Scanners, Holds(d)' PROVE Before(d)'
    <3>1. CASE d = c
      BY <1>1, <1>3, <1>4, <3>1 DEF Before
    <3>2. CASE d # c
      <4>1. Holds(d) /\ job'[d] = job[d] /\ Before(d)
        BY <1>4, <2>1, <3>2 DEF Holds, MonthInv, MonthsHeld
      <4>2. job[d].rental \in Rentals /\ job[d].to \in Nat
        BY <4>1, HolderKnows
      <4>3. CASE job[d].rental = r
        <5>1. job[d].to <= from
          BY <1>5, <3>2, <4>1, <4>3
        <5> QED
          BY <1>1, <1>3, <4>1, <4>2, <4>3, <5>1 DEF Before
      <4>4. CASE job[d].rental # r
        BY <1>3, <4>1, <4>2, <4>4 DEF Before
      <4> QED
        BY <4>3, <4>4
    <3> QED
      BY <3>1, <3>2
  <2>2. ASSUME NEW d \in Scanners, NEW e \in Scanners, d # e, Holds(d)', Holds(e)',
               job'[d].rental = job'[e].rental
        PROVE  Apart(d, e)'
    <3>1. CASE d = c
      <4>1. Holds(e) /\ job'[e] = job[e] /\ job[e].rental = r
        BY <1>4, <2>2, <3>1 DEF Holds
      <4> QED
        BY <1>4, <1>5, <2>2, <3>1, <4>1 DEF Apart
    <3>2. CASE e = c
      <4>1. Holds(d) /\ job'[d] = job[d] /\ job[d].rental = r
        BY <1>4, <2>2, <3>2 DEF Holds
      <4> QED
        BY <1>4, <1>5, <2>2, <3>2, <4>1 DEF Apart
    <3>3. CASE d # c /\ e # c
      BY <1>4, <2>2, <3>3 DEF Holds, Apart, MonthInv, MonthsHeld
    <3> QED
      BY <3>1, <3>2, <3>3
  <2> QED
    BY <2>1, <2>2 DEF MonthsHeld
<1>7. MonthsPaid'
  <2> SUFFICES ASSUME NEW x \in Rentals, NEW t \in 0 .. MaxTime + Period
               PROVE  /\ charged[<<x, t>>] <= 1
                      /\ charged[<<x, t>>] > 0 =>
                           /\ rental'[x].status # "absent" /\ rental'[x].end # None /\ t < rental'[x].end
                           /\ \A d \in Scanners : Holds(d)' /\ job'[d].rental = x => Outside(t, d)'
    BY <1>2 DEF MonthsPaid
  <2>1. /\ charged[<<x, t>>] <= 1
        /\ charged[<<x, t>>] > 0 =>
             /\ rental[x].status # "absent" /\ rental[x].end # None /\ t < rental[x].end
             /\ \A d \in Scanners : Holds(d) /\ job[d].rental = x => Outside(t, d)
    BY DEF MonthInv, MonthsPaid
  <2>2. t \in Nat
    BY RentalAssumption
  <2>3. charged[<<x, t>>] > 0 =>
          rental'[x].status # "absent" /\ rental'[x].end # None /\ t < rental'[x].end
    <3>1. CASE x = r
      BY <1>1, <1>3, <2>1, <2>2, <3>1
    <3>2. CASE x # r
      BY <1>3, <2>1, <3>2
    <3> QED
      BY <3>1, <3>2
  <2>4. ASSUME NEW d \in Scanners, charged[<<x, t>>] > 0, Holds(d)', job'[d].rental = x
        PROVE  Outside(t, d)'
    <3>1. CASE d = c
      BY <1>1, <1>4, <2>1, <2>4, <3>1 DEF Outside
    <3>2. CASE d # c
      BY <1>4, <2>1, <2>4, <3>2 DEF Outside, Holds
    <3> QED
      BY <3>1, <3>2
  <2> QED
    BY <2>1, <2>3, <2>4
<1>8. MonthsKnown'
  <2>1. ASSUME NEW x \in Rentals, rental'[x].status = "active" PROVE rental'[x].end # None
    BY <1>1, <1>3, <2>1 DEF MonthInv, MonthsKnown
  <2>2. ASSUME NEW d \in Scanners, job'[d].pc = "claim" \/ Holds(d)'
        PROVE  job'[d].row.end \in Nat /\ job'[d].to \in Nat /\ job'[d].row.end < job'[d].to
    BY <1>1, <1>4, <2>2 DEF MonthInv, MonthsKnown, Holds
  <2> QED
    BY <1>2, <2>1, <2>2 DEF MonthsKnown, MonthInv
<1> QED
  BY <1>6, <1>7, <1>8 DEF MonthInv

\* Nobody has paid for the first day of a month that a replica holds.
LEMMA HeldUnpaid ==
  ASSUME TypeInv, MonthInv, NEW c \in Scanners, Holds(c), job[c].row.end \in 0 .. MaxTime + Period
  PROVE  charged[<<job[c].rental, job[c].row.end>>] = 0
<1>1. /\ job[c].rental \in Rentals /\ job[c].row.end \in Nat /\ job[c].to \in Nat
      /\ job[c].row.end < job[c].to
  BY HolderKnows
<1>2. ~Outside(job[c].row.end, c)
  BY <1>1 DEF Outside
<1>3. ~(charged[<<job[c].rental, job[c].row.end>>] > 0)
  BY <1>1, <1>2 DEF MonthInv, MonthsPaid
<1>4. charged[<<job[c].rental, job[c].row.end>>] \in Nat
  BY <1>1 DEF MonthInv, MonthsKnown
<1> QED
  BY <1>3, <1>4

\* A charge is answered: the replica lets go of the month.
LEMMA ChargeCollects ==
  ASSUME TypeInv, TypeInv', MonthInv, NEW c \in Scanners, ChargePaid(c)
  PROVE  MonthInv'
<1> DEFINE r    == job[c].rental
           from == job[c].row.end
           to   == job[c].to
<1>1. /\ Holds(c) /\ r \in Rentals /\ rental[r].status # "absent" /\ rental[r].end \in Nat
      /\ from \in Nat /\ to \in Nat /\ from < to /\ to <= rental[r].end
  BY HolderKnows DEF ChargePaid, Holds
<1>2. /\ rental' = rental
      /\ charged' = [charged EXCEPT ![<<r, from>>] = charged[<<r, from>>] + 1]
  BY DEF ChargePaid, Month
<1>3. /\ job'[c].pc \notin {"claim", "charge", "roll back"}
      /\ \A d \in Scanners : d # c => job'[d] = job[d]
  <2>1. \A d \in Scanners : d # c => job'[d] = job[d]
    BY DEF ChargePaid, Resume, Jobs, TypeInv, JobsFit
  <2> QED
    BY <2>1, LeavesMonth
<1>4. MonthsHeld'
  <2>1. \A d \in Scanners : Holds(d)' => Before(d)'
    BY <1>2, <1>3 DEF Holds, Before, MonthInv, MonthsHeld
  <2>2. \A d, e \in Scanners :
          d # e /\ Holds(d)' /\ Holds(e)' /\ job'[d].rental = job'[e].rental => Apart(d, e)'
    BY <1>3 DEF Holds, Apart, MonthInv, MonthsHeld
  <2> QED
    BY <2>1, <2>2 DEF MonthsHeld
<1>5. MonthsKnown'
  <2>1. charged' \in [Rentals \X (0 .. MaxTime + Period) -> Nat]
    <3>1. \A x \in Rentals \X (0 .. MaxTime + Period) : charged[x] + 1 \in Nat
      BY DEF MonthInv, MonthsKnown
    <3> QED
      BY <1>2, <3>1 DEF MonthInv, MonthsKnown
  <2>2. ASSUME NEW d \in Scanners, job'[d].pc = "claim" \/ Holds(d)'
        PROVE  job'[d].row.end \in Nat /\ job'[d].to \in Nat /\ job'[d].row.end < job'[d].to
    BY <1>3, <2>2 DEF MonthInv, MonthsKnown, Holds
  <2> QED
    BY <1>2, <2>1, <2>2 DEF MonthsKnown, MonthInv
<1>6. MonthsPaid'
  <2> SUFFICES ASSUME NEW x \in Rentals, NEW t \in 0 .. MaxTime + Period
               PROVE  /\ charged'[<<x, t>>] <= 1
                      /\ charged'[<<x, t>>] > 0 =>
                           /\ rental'[x].status # "absent" /\ rental'[x].end # None /\ t < rental'[x].end
                           /\ \A d \in Scanners : Holds(d)' /\ job'[d].rental = x => Outside(t, d)'
    BY DEF MonthsPaid
  <2>1. /\ charged[<<x, t>>] <= 1
        /\ charged[<<x, t>>] > 0 =>
             /\ rental[x].status # "absent" /\ rental[x].end # None /\ t < rental[x].end
             /\ \A d \in Scanners : Holds(d) /\ job[d].rental = x => Outside(t, d)
    BY DEF MonthInv, MonthsPaid
  <2>2. t \in Nat /\ <<x, t>> \in Rentals \X (0 .. MaxTime + Period) /\ charged[<<x, t>>] \in Nat
    BY RentalAssumption DEF MonthInv, MonthsKnown
  <2>3. CASE x = r /\ t = from
    <3>1. charged[<<x, t>>] = 0
      BY <1>1, <2>3, HeldUnpaid
    <3>2. charged'[<<x, t>>] = 1
      BY <1>2, <2>2, <2>3, <3>1 DEF MonthInv, MonthsKnown
    <3>3. rental'[x].status # "absent" /\ rental'[x].end # None /\ t < rental'[x].end
      BY <1>1, <1>2, <2>3, RentalAssumption
    <3>4. ASSUME NEW d \in Scanners, Holds(d)', job'[d].rental = x PROVE Outside(t, d)'
      <4>1. d # c /\ Holds(d) /\ job'[d] = job[d] /\ job[d].rental = r
        BY <1>3, <2>3, <3>4 DEF Holds
      <4>2. Apart(c, d)
        BY <1>1, <4>1 DEF MonthInv, MonthsHeld
      <4>3. job[d].row.end \in Nat /\ job[d].to \in Nat
        BY <4>1, HolderKnows
      <4> QED
        BY <1>1, <2>3, <4>1, <4>2, <4>3 DEF Apart, Outside
    <3> QED
      BY <3>2, <3>3, <3>4
  <2>4. CASE ~(x = r /\ t = from)
    <3>1. charged'[<<x, t>>] = charged[<<x, t>>]
      BY <1>2, <2>2, <2>4 DEF MonthInv, MonthsKnown
    <3>2. ASSUME NEW d \in Scanners, charged[<<x, t>>] > 0, Holds(d)', job'[d].rental = x
          PROVE  Outside(t, d)'
      BY <1>3, <2>1, <3>2 DEF Holds, Outside
    <3> QED
      BY <1>2, <2>1, <3>1, <3>2
  <2> QED
    BY <2>3, <2>4
<1> QED
  BY <1>4, <1>5, <1>6 DEF MonthInv

\* Declined, or nobody knows: the replica holds on to the month.
LEMMA ChargeFails ==
  ASSUME TypeInv, TypeInv', MonthInv, NEW c \in Scanners, ChargeDeclined(c) \/ ChargeLost(c)
  PROVE  MonthInv'
<1>1. /\ charged' = charged /\ rental' = rental /\ Holds(c) /\ Go(c, "roll back")
      /\ \A d \in Scanners : d # c => job'[d] = job[d]
  <2>1. charged' = charged /\ rental' = rental /\ Holds(c) /\ Go(c, "roll back")
    BY DEF ChargeDeclined, ChargeLost, Holds, history
  <2> QED
    BY <2>1 DEF Go, Jobs, TypeInv, JobsFit
<1>2. /\ job'[c].pc = "roll back" /\ SameMonth(c)
  BY <1>1, GoesOn DEF SameMonth
<1>3. HoldersStay
  BY <1>1, <1>2 DEF HoldersStay, Holds, SameMonth
<1>4. ASSUME NEW d \in Scanners, job'[d].pc = "claim"
      PROVE  job'[d].row.end \in Nat /\ job'[d].to \in Nat /\ job'[d].row.end < job'[d].to
  BY <1>1, <1>2, <1>4 DEF MonthInv, MonthsKnown
<1> QED
  BY <1>1, <1>3, <1>4, RowsStay, QuietMonths

\* The replica returns the month it holds, if that is the last one.
LEMMA RollBackReturns ==
  ASSUME TypeInv, TypeInv', MonthInv, NEW c \in Scanners, RollBack(c)
  PROVE  /\ MonthInv' /\ charged' = charged /\ lost' = lost
         /\ job'[c].pc = "mark" /\ job'[c].rental = job[c].rental
         /\ \A d \in Scanners : d # c => job'[d] = job[d]
         /\ \A x \in Rentals :
              /\ rental'[x].status = rental[x].status
              /\ \/ rental'[x].end = rental[x].end
                 \/ x = job[c].rental /\ rental'[x].end = job[c].row.end
<1> DEFINE r    == job[c].rental
           from == job[c].row.end
           to   == job[c].to
<1>1. /\ Holds(c) /\ r \in Rentals /\ rental[r].status # "absent" /\ rental[r].end \in Nat
      /\ from \in Nat /\ to \in Nat /\ from < to /\ from # None /\ rental[r] \in RentalRow
  BY HolderKnows, RentalAssumption DEF RollBack, Holds, TypeInv, RowsTyped
<1>2. Go(c, "mark") /\ charged' = charged /\ lost' = lost
  BY DEF RollBack, history
<1>3. /\ job'[c].pc = "mark" /\ job'[c].rental = r
      /\ \A d \in Scanners : d # c => job'[d] = job[d]
  <2>1. \A d \in Scanners : d # c => job'[d] = job[d]
    BY <1>2 DEF Go, Jobs, TypeInv, JobsFit
  <2> QED
    BY <1>2, <2>1, GoesOn
<1>4. CASE rental[r].end # to
  <2>1. rental' = rental
    BY <1>4 DEF RollBack
  <2>2. HoldersStay
    BY <1>3 DEF HoldersStay, Holds, SameMonth
  <2>3. ASSUME NEW d \in Scanners, job'[d].pc = "claim"
        PROVE  job'[d].row.end \in Nat /\ job'[d].to \in Nat /\ job'[d].row.end < job'[d].to
    BY <1>3, <2>3 DEF MonthInv, MonthsKnown
  <2>4. MonthInv'
    BY <1>2, <2>1, <2>2, <2>3, RowsStay, QuietMonths
  <2> QED
    BY <1>2, <1>3, <2>1, <2>4
<1>5. CASE rental[r].end = to
  <2>1. /\ rental'[r].end = from /\ rental'[r].status = rental[r].status
        /\ \A x \in Rentals : x # r => rental'[x] = rental[x]
    <3>1. rental' = [rental EXCEPT ![r] = [rental[r] EXCEPT !.end = from]]
      BY <1>5 DEF RollBack
    <3> QED
      BY <1>1, <3>1 DEF RentalRow, TypeInv, RowsTyped
  <2>2. ~Holds(c)'
    BY <1>3 DEF Holds
  <2>3. ASSUME NEW d \in Scanners, d # c, Holds(d), job[d].rental = r
        PROVE  job[d].to \in Nat /\ job[d].to <= from
    <3>1. Apart(c, d)
      BY <1>1, <2>3 DEF MonthInv, MonthsHeld
    <3>2. /\ job[d].row.end \in Nat /\ job[d].to \in Nat /\ job[d].row.end < job[d].to
          /\ job[d].to <= rental[r].end
      BY <2>3, HolderKnows
    <3> QED
      BY <1>1, <1>5, <3>1, <3>2 DEF Apart
  <2>4. MonthsHeld'
    <3>1. ASSUME NEW d \in Scanners, Holds(d)' PROVE Before(d)'
      <4>1. d # c /\ Holds(d) /\ job'[d] = job[d] /\ Before(d)
        BY <1>3, <2>2, <3>1 DEF Holds, MonthInv, MonthsHeld
      <4>2. job[d].rental \in Rentals
        BY <4>1, HolderKnows
      <4>3. CASE job[d].rental = r
        BY <1>1, <2>1, <2>3, <4>1, <4>3 DEF Before
      <4>4. CASE job[d].rental # r
        BY <2>1, <4>1, <4>2, <4>4 DEF Before
      <4> QED
        BY <4>3, <4>4
    <3>2. \A d, e \in Scanners :
            d # e /\ Holds(d)' /\ Holds(e)' /\ job'[d].rental = job'[e].rental => Apart(d, e)'
      BY <1>3, <2>2 DEF Holds, Apart, MonthInv, MonthsHeld
    <3> QED
      BY <3>1, <3>2 DEF MonthsHeld
  <2>5. MonthsPaid'
    <3> SUFFICES ASSUME NEW x \in Rentals, NEW t \in 0 .. MaxTime + Period
                 PROVE  /\ charged[<<x, t>>] <= 1
                        /\ charged[<<x, t>>] > 0 =>
                             /\ rental'[x].status # "absent" /\ rental'[x].end # None /\ t < rental'[x].end
                             /\ \A d \in Scanners : Holds(d)' /\ job'[d].rental = x => Outside(t, d)'
      BY <1>2 DEF MonthsPaid
    <3>1. /\ charged[<<x, t>>] <= 1
          /\ charged[<<x, t>>] > 0 =>
               /\ rental[x].status # "absent" /\ rental[x].end # None /\ t < rental[x].end
               /\ \A d \in Scanners : Holds(d) /\ job[d].rental = x => Outside(t, d)
      BY DEF MonthInv, MonthsPaid
    <3>2. t \in Nat
      BY RentalAssumption
    <3>3. charged[<<x, t>>] > 0 =>
            rental'[x].status # "absent" /\ rental'[x].end # None /\ t < rental'[x].end
      <4>1. CASE x = r
        <5>1. charged[<<x, t>>] > 0 => Outside(t, c) /\ t < to
          BY <1>1, <1>5, <3>1, <4>1
        <5>2. charged[<<x, t>>] > 0 => t < from
          BY <1>1, <3>2, <5>1 DEF Outside
        <5> QED
          BY <1>1, <2>1, <4>1, <5>2
      <4>2. CASE x # r
        BY <2>1, <3>1, <4>2
      <4> QED
        BY <4>1, <4>2
    <3>4. ASSUME NEW d \in Scanners, charged[<<x, t>>] > 0, Holds(d)', job'[d].rental = x
          PROVE  Outside(t, d)'
      BY <1>3, <2>2, <3>1, <3>4 DEF Holds, Outside
    <3> QED
      BY <3>1, <3>3, <3>4
  <2>6. MonthsKnown'
    <3>1. ASSUME NEW x \in Rentals, rental'[x].status = "active" PROVE rental'[x].end # None
      BY <1>1, <2>1, <3>1 DEF MonthInv, MonthsKnown
    <3>2. ASSUME NEW d \in Scanners, job'[d].pc = "claim" \/ Holds(d)'
          PROVE  job'[d].row.end \in Nat /\ job'[d].to \in Nat /\ job'[d].row.end < job'[d].to
      BY <1>3, <3>2 DEF MonthInv, MonthsKnown, Holds
    <3> QED
      BY <1>2, <3>1, <3>2 DEF MonthsKnown, MonthInv
  <2> QED
    BY <1>2, <1>3, <2>1, <2>4, <2>5, <2>6 DEF MonthInv
<1> QED
  BY <1>4, <1>5

-----------------------------------------------------------------------------
\* As long as rounds do not meet, one replica at a time is at work.
OneRound == \A c, d \in Scanners : job[c].pc # "idle" /\ job[d].pc # "idle" => c = d

\* The replica that lost an answer is about to see to the rental.
Attended(r) == \E c \in Scanners : job[c].pc \in {"roll back", "mark"} /\ job[c].rental = r

LostMonth(r, t) ==
  /\ rental[r].status # "absent" /\ rental[r].end # None /\ t <= rental[r].end
  /\ t \in 0 .. MaxTime + Period => charged[<<r, t>>] = 0
  /\ t < rental[r].end \/ rental[r].status # "active" \/ Attended(r)
  /\ \A c \in Scanners : Holds(c) /\ job[c].rental = r =>
       \/ t < job[c].row.end
       \/ job[c].pc = "roll back" /\ job[c].row.end = t

LostInv ==
  /\ lost \subseteq Rentals \X Nat
  /\ ~overlap => OneRound /\ \A r \in Rentals, t \in Nat : <<r, t>> \in lost => LostMonth(r, t)

\* Who is at work, and whether rounds have met.
LEMMA RoundsApart ==
  ASSUME TypeInv, [RentalNext]_rentalVars, OneRound, ~overlap'
  PROVE  OneRound'
<1>0. job \in [Jobs -> JobRecord]
  BY DEF TypeInv, JobsFit
<1>1. CASE \A c \in Scanners : job'[c] = job[c]
  BY <1>1 DEF OneRound
<1>2. ASSUME NEW c \in Scanners, Tick(c) \/ Kill(c) PROVE OneRound'
  <2>1. \A d \in Scanners : d # c => job'[d] = job[d]
    BY <1>2, OthersStay DEF Jobs
  <2>2. CASE ListDue(c)
    <3>1. ~\E d \in Scanners \ {c} : job[d].pc # "idle"
      BY <2>2 DEF ListDue
    <3> QED
      BY <2>1, <3>1 DEF OneRound
  <2>3. CASE ~ListDue(c)
    <3>1. job[c].pc # "idle"
      BY <1>2, <2>3 DEF Tick, ReadRental, ClaimPeriod, ChargePaid, ChargeDeclined, ChargeLost, RollBack,
         MarkPastDue, ListCancelled, ReleaseNext, Purge, Release, ReadRelease, Drop, CloseRow, Unroute, Kill
    <3> QED
      BY <2>1, <3>1 DEF OneRound
  <2> QED
    BY <2>2, <2>3
<1>3. ASSUME NEW q \in Requests,
             \/ Checkout(q) \/ Cancel(q) \/ CancelWrite(q) \/ Confirm(q) \/ AdminRelease(q)
             \/ Release(q) \/ Kill(q)
      PROVE  \A c \in Scanners : job'[c] = job[c]
  BY <1>3, OthersStay, RentalAssumption DEF Jobs
<1>4. CASE Pass \/ UNCHANGED rentalVars
  BY <1>1, <1>4 DEF Pass, rentalVars
<1> QED
  BY <1>1, <1>2, <1>3, <1>4 DEF RentalNext, Jobs

\* Steps that move no replica to a month, and leave none that is to see to a rental.
LEMMA QuietLost ==
  ASSUME TypeInv, MonthInv, NEW r \in Rentals, NEW t \in Nat, LostMonth(r, t), RowsGoOn, HoldersStay,
         charged' = charged,
         Attended(r) => Attended(r)' \/ rental'[r].status # "active",
         \A c \in Scanners : Holds(c)' => job'[c].pc = job[c].pc
  PROVE  LostMonth(r, t)'
<1>1. rental[r].end \in Nat
  BY EndTypes DEF LostMonth
<1>2. rental'[r].status # "absent" /\ rental'[r].end \in Nat /\ rental'[r].end # None /\ t <= rental'[r].end
  <2>1. rental[r].status # "absent" /\ t <= rental[r].end
    BY DEF LostMonth
  <2>2. /\ rental'[r].status # "absent"
        /\ \/ rental'[r].end = rental[r].end
           \/ rental'[r].end \in Nat /\ rental[r].end < rental'[r].end
    BY <1>1, <2>1, RentalAssumption DEF RowsGoOn
  <2>3. rental'[r].end \in Nat /\ t <= rental'[r].end
    BY <1>1, <2>1, <2>2
  <2> QED
    BY <2>2, <2>3, RentalAssumption
<1>3. t < rental'[r].end \/ rental'[r].status # "active" \/ Attended(r)'
  <2>1. /\ rental[r].status # "absent" /\ t <= rental[r].end
        /\ t < rental[r].end \/ rental[r].status # "active" \/ Attended(r)
    BY DEF LostMonth
  <2>2. CASE /\ rental'[r].end = rental[r].end
             /\ rental'[r].status = "active" => rental[r].status = "active"
    BY <2>1, <2>2
  <2>3. CASE rental'[r].end \in Nat /\ rental[r].end < rental'[r].end
    BY <1>1, <2>1, <2>3
  <2> QED
    BY <1>1, <2>1, <2>2, <2>3, RentalAssumption DEF RowsGoOn
<1>4. ASSUME NEW c \in Scanners, Holds(c)', job'[c].rental = r
      PROVE  \/ t < job'[c].row.end
             \/ job'[c].pc = "roll back" /\ job'[c].row.end = t
  BY <1>4 DEF HoldersStay, SameMonth, LostMonth
<1> QED
  BY <1>2, <1>3, <1>4 DEF LostMonth

LEMMA RequestLost ==
  ASSUME TypeInv, MonthInv, NEW r \in Rentals, NEW t \in Nat, LostMonth(r, t), RowsGoOn, charged' = charged,
         \A c \in Scanners : job'[c] = job[c]
  PROVE  LostMonth(r, t)'
<1>1. HoldersStay /\ (Attended(r) => Attended(r)')
  BY DEF HoldersStay, SameMonth, Holds, Attended
<1> QED
  BY <1>1, QuietLost DEF Holds

LEMMA QuietReplicaLost ==
  ASSUME TypeInv, TypeInv', MonthInv, NEW c \in Scanners, OneRound, Marks,
         \A d \in Scanners : d # c => job'[d] = job[d],
         \/ ListDue(c) \/ ReadRental(c) \/ MarkPastDue(c) \/ ListCancelled(c) \/ ReleaseNext(c)
         \/ Purge(c) \/ Release(c) \/ Kill(c)
         \/ ClaimPeriod(c) /\ ~Claimable(c),
         NEW r \in Rentals, NEW t \in Nat, LostMonth(r, t)
  PROVE  LostMonth(r, t)'
<1>1. RowsGoOn /\ charged' = charged
  BY QuietReplica
<1>2. job'[c].pc \notin {"charge", "roll back"}
  <2>1. CASE ReadRental(c)
    BY <2>1, ReadsMonth DEF MonthInv
  <2>2. CASE ~ReadRental(c)
    BY <2>2, LeavesMonth
  <2> QED
    BY <2>1, <2>2
<1>3. HoldersStay /\ \A d \in Scanners : Holds(d)' => job'[d].pc = job[d].pc
  BY <1>2 DEF HoldersStay, Holds, SameMonth
<1>4. ASSUME Attended(r) PROVE Attended(r)' \/ rental'[r].status # "active"
  <2>1. PICK d \in Scanners : job[d].pc \in {"roll back", "mark"} /\ job[d].rental = r
    BY <1>4 DEF Attended
  <2>2. CASE d # c
    BY <2>1, <2>2 DEF Attended
  <2>3. CASE d = c
    <3>1. ~Kill(c)
      <4>1. Kill(c) => job'[c].pc = "idle"
        BY DEF Kill, Idle, Jobs, TypeInv, JobsFit
      <4> QED
        BY <2>1, <2>3, <4>1 DEF Marks
    <3>2. MarkPastDue(c)
      BY <2>1, <2>3, <3>1 DEF ListDue, ReadRental, ListCancelled, ReleaseNext, Purge, Release, ReadRelease,
         Drop, CloseRow, Unroute, ClaimPeriod
    <3>3. CASE Clash(r, rental[r].number)
      <4>1. ~Live(r)
        BY <3>3, LiveIsAlone
      <4> QED
        BY <2>1, <2>3, <3>2, <3>3, <4>1 DEF MarkPastDue, Live
    <3>4. CASE ~Clash(r, rental[r].number)
      <4>1. rental' = [rental EXCEPT ![r] = [rental[r] EXCEPT !.status = "past_due"]]
        BY <2>1, <2>3, <3>2, <3>4 DEF MarkPastDue, StatusUnpaid
      <4> QED
        BY <4>1 DEF TypeInv, RowsTyped, RentalRow
    <3> QED
      BY <3>3, <3>4
  <2> QED
    BY <2>2, <2>3
<1> QED
  BY <1>1, <1>3, <1>4, QuietLost

LEMMA ClaimLost ==
  ASSUME TypeInv, MonthInv, NEW c \in Scanners, OneRound, ClaimPeriod(c), Claimable(c),
         NEW r \in Rentals, NEW t \in Nat, LostMonth(r, t)
  PROVE  LostMonth(r, t)'
<1> DEFINE x    == job[c].rental
           from == job[c].row.end
           to   == job[c].to
<1>1. /\ x \in Rentals /\ from \in Nat /\ to \in Nat /\ from < to /\ to # None
      /\ rental[x].end = from /\ rental[x].status = "active" /\ rental[x] \in RentalRow
      /\ job[c].pc = "claim"
  <2>1. job[c].pc = "claim" /\ Placed(job[c])
    BY DEF ClaimPeriod, Jobs, TypeInv, JobsFit
  <2>2. x \in Rentals /\ from \in Nat /\ to \in Nat /\ from < to
    BY <2>1 DEF Placed, MonthInv, MonthsKnown
  <2> QED
    BY <2>1, <2>2, RentalAssumption DEF Claimable, TypeInv, RowsTyped
<1>2. /\ rental' = [rental EXCEPT ![x] = [rental[x] EXCEPT !.end = to]]
      /\ Go(c, "charge") /\ charged' = charged
  BY DEF ClaimPeriod, history
<1>3. /\ rental'[x].end = to /\ rental'[x].status = "active"
      /\ \A y \in Rentals : y # x => rental'[y] = rental[y]
  BY <1>1, <1>2 DEF RentalRow, TypeInv, RowsTyped
<1>4. /\ job'[c].pc = "charge" /\ job'[c].rental = x /\ job'[c].row.end = from
      /\ \A d \in Scanners : d # c => job'[d] = job[d]
  <2>1. \A d \in Scanners : d # c => job'[d] = job[d]
    BY <1>2 DEF Go, Jobs, TypeInv, JobsFit
  <2> QED
    BY <1>2, <2>1, GoesOn
<1>5. \A y \in Rentals : ~Attended(y)
  BY <1>1 DEF OneRound, Attended
<1>6. \A d \in Scanners : ~Holds(d)
  BY <1>1 DEF OneRound, Holds
<1>7. CASE r = x
  <2>1. t < from
    BY <1>1, <1>5, <1>7 DEF LostMonth
  <2>2. /\ rental'[r].status # "absent" /\ rental'[r].end # None
        /\ t <= rental'[r].end /\ t < rental'[r].end
    BY <1>1, <1>3, <1>7, <2>1
  <2>3. ASSUME NEW d \in Scanners, Holds(d)', job'[d].rental = r PROVE t < job'[d].row.end
    BY <1>4, <1>6, <2>1, <2>3 DEF Holds
  <2>4. t \in 0 .. MaxTime + Period => charged'[<<r, t>>] = 0
    BY <1>2 DEF LostMonth
  <2> QED
    BY <2>2, <2>3, <2>4 DEF LostMonth
<1>8. CASE r # x
  BY <1>2, <1>3, <1>4, <1>5, <1>6, <1>8 DEF LostMonth, Holds
<1> QED
  BY <1>7, <1>8

LEMMA ChargeLostKept ==
  ASSUME TypeInv, MonthInv, NEW c \in Scanners, OneRound, ChargePaid(c) \/ ChargeDeclined(c) \/ ChargeLost(c),
         NEW r \in Rentals, NEW t \in Nat, LostMonth(r, t)
  PROVE  LostMonth(r, t)'
<1>0. Holds(c) /\ job[c].pc = "charge" /\ rental' = rental
  BY DEF ChargePaid, ChargeDeclined, ChargeLost, Holds
<1>1. job[c].row.end \in Nat
  BY <1>0, HolderKnows
<1>2. \A y \in Rentals : ~Attended(y)
  BY <1>0 DEF OneRound, Attended
<1>3. job[c].rental = r => t < job[c].row.end
  BY <1>0 DEF LostMonth
<1>4. \A d \in Scanners : d # c => ~Holds(d)
  BY <1>0 DEF OneRound, Holds
<1>5. CASE ChargePaid(c)
  <2>1. /\ job'[c].pc \notin {"claim", "charge", "roll back"}
        /\ \A d \in Scanners : d # c => job'[d] = job[d]
    <3>1. \A d \in Scanners : d # c => job'[d] = job[d]
      BY <1>5 DEF ChargePaid, Resume, Jobs, TypeInv, JobsFit
    <3> QED
      BY <1>5, <3>1, LeavesMonth
  <2>2. charged' = [charged EXCEPT ![<<job[c].rental, job[c].row.end>>] = @ + 1]
    BY <1>5 DEF ChargePaid, Month
  <2>3. t \in 0 .. MaxTime + Period => charged'[<<r, t>>] = 0
    <3>1. <<r, t>> # <<job[c].rental, job[c].row.end>>
      BY <1>1, <1>3
    <3> QED
      BY <2>2, <3>1 DEF LostMonth, MonthInv, MonthsKnown
  <2> QED
    BY <1>0, <1>2, <1>4, <2>1, <2>3 DEF LostMonth, Holds
<1>6. CASE ChargeDeclined(c) \/ ChargeLost(c)
  <2>1. Go(c, "roll back") /\ charged' = charged
    BY <1>6 DEF ChargeDeclined, ChargeLost, history
  <2>2. /\ job'[c].row = job[c].row /\ job'[c].rental = job[c].rental
        /\ \A d \in Scanners : d # c => job'[d] = job[d]
    <3>1. \A d \in Scanners : d # c => job'[d] = job[d]
      BY <2>1 DEF Go, Jobs, TypeInv, JobsFit
    <3> QED
      BY <2>1, <3>1, GoesOn
  <2>3. ASSUME NEW d \in Scanners, Holds(d)', job'[d].rental = r PROVE t < job'[d].row.end
    BY <1>3, <1>4, <2>2, <2>3 DEF Holds
  <2> QED
    BY <1>0, <1>2, <2>1, <2>3 DEF LostMonth
<1> QED
  BY <1>5, <1>6

\* The answer is lost: the replica holds a month nobody has paid for, and is
\* about to see to it.
LEMMA NowLost ==
  ASSUME TypeInv, MonthInv, NEW c \in Scanners, OneRound, ChargeLost(c),
         NEW r \in Rentals, NEW t \in Nat, r = job[c].rental, t = job[c].row.end
  PROVE  LostMonth(r, t)'
<1>1. /\ Holds(c) /\ job[c].pc = "charge" /\ rental' = rental /\ charged' = charged /\ Go(c, "roll back")
  BY DEF ChargeLost, Holds
<1>2. /\ rental[r].status # "absent" /\ rental[r].end \in Nat
      /\ job[c].to \in Nat /\ t < job[c].to /\ job[c].to <= rental[r].end
  BY <1>1, HolderKnows
<1>3. t \in 0 .. MaxTime + Period => charged[<<r, t>>] = 0
  BY <1>1, HeldUnpaid
<1>4. /\ job'[c].row.end = t /\ job'[c].rental = r /\ job'[c].pc = "roll back"
      /\ \A d \in Scanners : d # c => job'[d] = job[d]
  <2>1. \A d \in Scanners : d # c => job'[d] = job[d]
    BY <1>1 DEF Go, Jobs, TypeInv, JobsFit
  <2> QED
    BY <1>1, <2>1, GoesOn
<1>5. \A d \in Scanners : d # c => ~Holds(d)
  BY <1>1 DEF OneRound, Holds
<1>6. ASSUME NEW d \in Scanners, Holds(d)' PROVE job'[d].pc = "roll back" /\ job'[d].row.end = t
  BY <1>4, <1>5, <1>6 DEF Holds
<1>7. rental[r].end # None /\ t <= rental[r].end /\ t < rental[r].end
  BY <1>2, RentalAssumption
<1> QED
  BY <1>1, <1>2, <1>3, <1>6, <1>7 DEF LostMonth

\* The month is returned, and its replica is about to see to the rental.
LEMMA RollBackLost ==
  ASSUME TypeInv, TypeInv', MonthInv, NEW c \in Scanners, OneRound, RollBack(c),
         NEW r \in Rentals, NEW t \in Nat, LostMonth(r, t)
  PROVE  LostMonth(r, t)'
<1>1. /\ charged' = charged /\ job'[c].pc = "mark" /\ job'[c].rental = job[c].rental
      /\ \A d \in Scanners : d # c => job'[d] = job[d]
      /\ rental'[r].status = rental[r].status
      /\ \/ rental'[r].end = rental[r].end
         \/ r = job[c].rental /\ rental'[r].end = job[c].row.end
  BY RollBackReturns
<1>2. Holds(c) /\ job[c].pc = "roll back"
  BY DEF RollBack, Holds
<1>3. job[c].row.end \in Nat
  BY <1>2, HolderKnows
<1>4. ASSUME job[c].rental = r PROVE t <= job[c].row.end
  <2>1. t < job[c].row.end \/ job[c].row.end = t
    BY <1>2, <1>4 DEF LostMonth
  <2> QED
    BY <1>3, <2>1
<1>5. ASSUME NEW d \in Scanners PROVE ~Holds(d)'
  BY <1>1, <1>2 DEF OneRound, Holds
<1>6. rental'[r].status # "absent" /\ rental'[r].end # None /\ t <= rental'[r].end
  BY <1>1, <1>3, <1>4, RentalAssumption DEF LostMonth
<1>7. t < rental'[r].end \/ rental'[r].status # "active" \/ Attended(r)'
  <2>1. CASE r = job[c].rental
    BY <1>1, <2>1 DEF Attended
  <2>2. CASE r # job[c].rental
    <3>1. ~Attended(r)
      BY <1>2, <2>2 DEF OneRound, Attended
    <3> QED
      BY <1>1, <2>2, <3>1 DEF LostMonth
  <2> QED
    BY <2>1, <2>2
<1>8. t \in 0 .. MaxTime + Period => charged'[<<r, t>>] = 0
  BY <1>1 DEF LostMonth
<1> QED
  BY <1>5, <1>6, <1>7, <1>8 DEF LostMonth

-----------------------------------------------------------------------------
\* The steps that are no step of a replica's round.
Aside ==
  \/ \E q \in Requests : \/ Checkout(q) \/ Cancel(q) \/ CancelWrite(q) \/ Confirm(q)
                         \/ AdminRelease(q) \/ Release(q) \/ Kill(q)
  \/ Pass
  \/ UNCHANGED rentalVars

LEMMA AsideSteps ==
  ASSUME TypeInv, Extends, Aside
  PROVE  /\ RowsGoOn /\ charged' = charged /\ lost' = lost /\ overlap' = overlap
         /\ \A c \in Scanners : job'[c] = job[c]
<1>1. ASSUME NEW q \in Requests,
             \/ Checkout(q) \/ Cancel(q) \/ CancelWrite(q) \/ Confirm(q) \/ AdminRelease(q)
             \/ Release(q) \/ Kill(q)
      PROVE  /\ RowsGoOn /\ charged' = charged /\ lost' = lost /\ overlap' = overlap
             /\ \A c \in Scanners : job'[c] = job[c]
  <2>1. \A c \in Scanners : job'[c] = job[c]
    BY <1>1, OthersStay, RentalAssumption DEF Jobs
  <2>2. charged' = charged /\ lost' = lost /\ overlap' = overlap
    <3>1. CASE Checkout(q) \/ Cancel(q) \/ CancelWrite(q) \/ AdminRelease(q) \/ Kill(q)
      BY <3>1 DEF Checkout, Look, CreateRental, Supersede, OpenPage, Cancel, CancelWrite, AdminRelease,
         Kill, history
    <3>2. CASE Confirm(q)
      BY <3>2 DEF Confirm, ClaimPayment, Activate, Report, Provision, Purchase, StampPurchase, Route, history
    <3>3. CASE Release(q)
      BY <3>3 DEF Release, ReadRelease, Drop, CloseRow, Unroute, history
    <3> QED
      BY <1>1, <3>1, <3>2, <3>3
  <2>3. RowsGoOn
    <3>1. CASE Kill(q)
      BY <3>1, RowsStay DEF Kill
    <3>2. CASE Release(q)
      BY <3>2, ReleaseRows DEF Jobs
    <3> QED
      BY <1>1, <3>1, <3>2, RequestRows
  <2> QED
    BY <2>1, <2>2, <2>3
<1>2. CASE Pass \/ UNCHANGED rentalVars
  BY <1>2, RowsStay DEF Pass, history, rentalVars
<1> QED
  BY <1>1, <1>2 DEF Aside

LEMMA StepsSplit ==
  ASSUME [RentalNext]_rentalVars
  PROVE  Aside \/ \E c \in Scanners : Tick(c) \/ Kill(c)
BY DEF RentalNext, Aside, Jobs

LEMMA NextMonthInv ==
  ASSUME TypeInv, TypeInv', MonthInv, [RentalNext]_rentalVars, Extends
  PROVE  MonthInv'
<1>1. CASE Aside
  <2>1. RowsGoOn /\ charged' = charged /\ \A c \in Scanners : job'[c] = job[c]
    BY <1>1, AsideSteps
  <2>2. HoldersStay
    BY <2>1 DEF HoldersStay, SameMonth, Holds
  <2>3. ASSUME NEW c \in Scanners, job'[c].pc = "claim"
        PROVE  job'[c].row.end \in Nat /\ job'[c].to \in Nat /\ job'[c].row.end < job'[c].to
    BY <2>1, <2>3 DEF MonthInv, MonthsKnown
  <2> QED
    BY <2>1, <2>2, <2>3, QuietMonths
<1>2. ASSUME NEW c \in Scanners, Tick(c) \/ Kill(c) PROVE MonthInv'
  <2>1. \A d \in Scanners : d # c => job'[d] = job[d]
    BY <1>2, OthersStay DEF Jobs
  <2>2. CASE ClaimPeriod(c) /\ Claimable(c)
    BY <2>2, ClaimHolds
  <2>3. CASE ChargePaid(c)
    BY <2>3, ChargeCollects
  <2>4. CASE ChargeDeclined(c) \/ ChargeLost(c)
    BY <2>4, ChargeFails
  <2>5. CASE RollBack(c)
    BY <2>5, RollBackReturns
  <2>6. CASE \/ ListDue(c) \/ ReadRental(c) \/ MarkPastDue(c) \/ ListCancelled(c) \/ ReleaseNext(c)
             \/ Purge(c) \/ Release(c) \/ Kill(c)
             \/ ClaimPeriod(c) /\ ~Claimable(c)
    BY <2>1, <2>6, QuietReplica
  <2> QED
    BY <1>2, <2>2, <2>3, <2>4, <2>5, <2>6 DEF Tick
<1> QED
  BY <1>1, <1>2, StepsSplit

LEMMA NextLostInv ==
  ASSUME TypeInv, TypeInv', MonthInv, LostInv, [RentalNext]_rentalVars, Extends, Marks
  PROVE  LostInv'
<1>1. ~overlap' => ~overlap
  <2>1. CASE \E c \in Scanners : ListDue(c)
    BY <2>1 DEF ListDue
  <2>2. CASE ~\E c \in Scanners : ListDue(c)
    <3>1. overlap' = overlap
      <4>1. CASE Aside
        BY <4>1, AsideSteps
      <4>2. ASSUME NEW c \in Scanners, Tick(c) \/ Kill(c) PROVE overlap' = overlap
        BY <2>2, <4>2 DEF Tick, ReadRental, ClaimPeriod, ChargePaid, ChargeDeclined, ChargeLost, RollBack,
           MarkPastDue, ListCancelled, ReleaseNext, Purge, Release, ReadRelease, Drop, CloseRow, Unroute,
           Kill, history
      <4> QED
        BY <4>1, <4>2, StepsSplit
    <3> QED
      BY <3>1
  <2> QED
    BY <2>1, <2>2
<1>2. lost' \subseteq Rentals \X Nat
  <2>1. CASE lost' = lost
    BY <2>1 DEF LostInv
  <2>2. ASSUME NEW c \in Scanners, ChargeLost(c) PROVE lost' \subseteq Rentals \X Nat
    <3>1. Holds(c) /\ lost' = lost \cup {<<job[c].rental, job[c].row.end>>}
      BY <2>2 DEF ChargeLost, Holds, Month
    <3>2. job[c].rental \in Rentals /\ job[c].row.end \in Nat
      BY <3>1, HolderKnows
    <3> QED
      BY <3>1, <3>2 DEF LostInv
  <2>3. CASE Aside
    BY <2>1, <2>3, AsideSteps
  <2>4. ASSUME NEW c \in Scanners, Tick(c) \/ Kill(c), ~ChargeLost(c) PROVE lost' = lost
    BY <2>4 DEF Tick, ListDue, ReadRental, ClaimPeriod, ChargePaid, ChargeDeclined, RollBack, MarkPastDue,
       ListCancelled, ReleaseNext, Purge, Release, ReadRelease, Drop, CloseRow, Unroute, Kill, history
  <2> QED
    BY <2>1, <2>2, <2>3, <2>4, StepsSplit
<1>3. ASSUME ~overlap' PROVE OneRound'
  BY <1>1, <1>3, RoundsApart DEF LostInv
<1>4. ASSUME ~overlap', NEW r \in Rentals, NEW t \in Nat, <<r, t>> \in lost' PROVE LostMonth(r, t)'
  <2>1. OneRound /\ (<<r, t>> \in lost => LostMonth(r, t))
    BY <1>1, <1>4 DEF LostInv
  <2>2. CASE Aside
    <3>1. RowsGoOn /\ charged' = charged /\ lost' = lost /\ \A c \in Scanners : job'[c] = job[c]
      BY <2>2, AsideSteps
    <3> QED
      BY <1>4, <2>1, <3>1, RequestLost
  <2>3. ASSUME NEW c \in Scanners, Tick(c) \/ Kill(c) PROVE LostMonth(r, t)'
    <3>1. \A d \in Scanners : d # c => job'[d] = job[d]
      BY <2>3, OthersStay DEF Jobs
    <3>2. CASE ChargeLost(c)
      <4>1. CASE <<r, t>> \in lost
        BY <2>1, <3>2, <4>1, ChargeLostKept
      <4>2. CASE <<r, t>> \notin lost
        <5>1. r = job[c].rental /\ t = job[c].row.end
          <6>1. lost' = lost \cup {<<job[c].rental, job[c].row.end>>}
            BY <3>2 DEF ChargeLost, Month
          <6> QED
            BY <1>4, <4>2, <6>1
        <5> QED
          BY <2>1, <3>2, <5>1, NowLost
      <4> QED
        BY <4>1, <4>2
    <3>3. CASE ~ChargeLost(c)
      <4>1. lost' = lost
        BY <2>3, <3>3 DEF Tick, ListDue, ReadRental, ClaimPeriod, ChargePaid, ChargeDeclined, RollBack,
           MarkPastDue, ListCancelled, ReleaseNext, Purge, Release, ReadRelease, Drop, CloseRow, Unroute,
           Kill, history
      <4>2. LostMonth(r, t)
        BY <1>4, <2>1, <4>1
      <4>3. CASE ClaimPeriod(c) /\ Claimable(c)
        BY <2>1, <4>2, <4>3, ClaimLost
      <4>4. CASE ChargePaid(c) \/ ChargeDeclined(c)
        BY <2>1, <4>2, <4>4, ChargeLostKept
      <4>5. CASE RollBack(c)
        BY <2>1, <4>2, <4>5, RollBackLost
      <4>6. CASE \/ ListDue(c) \/ ReadRental(c) \/ MarkPastDue(c) \/ ListCancelled(c) \/ ReleaseNext(c)
                 \/ Purge(c) \/ Release(c) \/ Kill(c)
                 \/ ClaimPeriod(c) /\ ~Claimable(c)
        BY <2>1, <3>1, <4>2, <4>6, QuietReplicaLost
      <4> QED
        BY <2>3, <3>3, <4>3, <4>4, <4>5, <4>6 DEF Tick
    <3> QED
      BY <3>2, <3>3
  <2> QED
    BY <2>2, <2>3, StepsSplit
<1> QED
  BY <1>2, <1>3, <1>4 DEF LostInv

LEMMA InitMonthInv == RentalInit => MonthInv /\ LostInv
<1> SUFFICES ASSUME RentalInit PROVE MonthInv /\ LostInv
  OBVIOUS
<1>1. \A c \in Scanners : job[c].pc = "idle"
  BY DEF RentalInit, Jobs, Idle
<1>2. \A x \in Rentals \X (0 .. MaxTime + Period) : charged[x] = 0
  BY DEF RentalInit
<1>3. charged \in [Rentals \X (0 .. MaxTime + Period) -> Nat]
  BY DEF RentalInit
<1>4. ASSUME NEW r \in Rentals, rental[r].status = "active" PROVE rental[r].end # None
  <2>1. PICK first \in SUBSET Rentals, n \in Numbers, o \in Offices :
          LET row == [NoRow EXCEPT !.status = "active", !.number = n, !.office = o, !.end = 1,
                                   !.bought = TRUE]
          IN /\ \A x, y \in first : x = y
             /\ rental = [x \in Rentals |-> IF x \in first THEN row ELSE NoRow]
             /\ held = IF first = {} THEN {} ELSE {n}
             /\ route = [x \in Offices \X Numbers |->
                           IF first # {} /\ x = <<o, n>> THEN "on" ELSE "none"]
    BY DEF RentalInit
  <2>2. NoRow.status # "active"
    BY DEF NoRow
  <2>3. rental[r].end = 1
    BY <1>4, <2>1, <2>2 DEF NoRow
  <2> QED
    BY <2>3, RentalAssumption
<1>5. MonthInv
  <2>1. MonthsKnown /\ MonthsHeld
    BY <1>1, <1>3, <1>4 DEF MonthsKnown, MonthsHeld, Holds
  <2>2. ASSUME NEW r \in Rentals, NEW t \in 0 .. MaxTime + Period PROVE charged[<<r, t>>] = 0
    BY <1>2
  <2>3. MonthsPaid
    <3> SUFFICES ASSUME NEW r \in Rentals, NEW t \in 0 .. MaxTime + Period
                 PROVE  charged[<<r, t>>] <= 1 /\ ~(charged[<<r, t>>] > 0)
      BY DEF MonthsPaid
    <3> QED
      BY <2>2
  <2> QED
    BY <2>1, <2>3 DEF MonthInv
<1>6. LostInv
  BY <1>1 DEF RentalInit, LostInv, OneRound
<1> QED
  BY <1>5, <1>6

-----------------------------------------------------------------------------
(***************************************************************************)
(* What holds in every state.                                              *)
(***************************************************************************)
LEMMA Reachable == RentalSpec => [](TypeInv /\ RequestInv)
BY InitTypes, InitRequests, StepKeepsTypes, StepKeepsRequests, PTL DEF RentalSpec

LEMMA MonthlyPaid == MonthInv => \A x \in DOMAIN charged : charged[x] <= 1
<1> SUFFICES ASSUME MonthInv, NEW x \in DOMAIN charged PROVE charged[x] <= 1
  OBVIOUS
<1>1. PICK r \in Rentals, t \in 0 .. MaxTime + Period : x = <<r, t>>
  BY DEF MonthInv, MonthsKnown
<1> QED
  BY <1>1 DEF MonthInv, MonthsPaid

\* A step that changes nothing moves no end and kills nobody.
LEMMA StillExtends == TypeInv /\ UNCHANGED rentalVars => Extends /\ Marks
<1> SUFFICES ASSUME TypeInv, UNCHANGED rentalVars PROVE Extends /\ Marks
  OBVIOUS
<1>1. job' = job
  BY DEF rentalVars
<1> QED
  BY <1>1 DEF Extends, Marks

LEMMA MonthsKept == RentalSpec /\ ConfirmationsExtend => []MonthInv
<1>1. TypeInv /\ TypeInv' /\ MonthInv /\ [RentalNext]_rentalVars /\ [Extends]_rentalVars => MonthInv'
  <2> SUFFICES ASSUME TypeInv, TypeInv', MonthInv, [RentalNext]_rentalVars, [Extends]_rentalVars
               PROVE  MonthInv'
    OBVIOUS
  <2>1. Extends
    BY StillExtends
  <2> QED
    BY <2>1, NextMonthInv
<1> QED
  BY <1>1, Reachable, InitMonthInv, PTL DEF RentalSpec, ConfirmationsExtend

\* Every column of rented_numbers, payments and virtual_numbers keeps to its
\* type, and no number has two live rows (rented_numbers_live_number_key).
THEOREM RentalTypes == RentalSpec => []RentalTypeOK
<1>1. TypeInv => RentalTypeOK
  BY TypeParts DEF TypeInv
<1> QED
  BY <1>1, Reachable, PTL

\* No race of renewals, cancellations and payments ends a rental that nobody
\* asked to end (markPastDue, releaseNow).
THEOREM LostOnRequest == RentalSpec => []LostOnlyOnRequest
<1>1. RequestInv => LostOnlyOnRequest
  BY DEF RequestInv
<1> QED
  BY <1>1, Reachable, PTL

\* A replica claims no new month of a rental whose owner has cancelled and not
\* paid again (renewOne).
THEOREM QuittersNotCharged == RentalSpec => CancelledNotCharged
<1>1. TypeInv /\ RequestInv /\ [RentalNext]_rentalVars =>
        [\A c \in Scanners :
           job[c].pc = "claim" /\ job'[c].pc = "charge" => job[c].rental \notin quit]_rentalVars
  BY ChargesAreClaimed
<1> QED
  BY <1>1, Reachable, PTL DEF RentalSpec, CancelledNotCharged

\* A confirmed payment extended its rental or was reported to the administrators
\* (apply, reportOrphanPayment).
THEOREM MoneyAccountedFor == RentalSpec => []PaidServedOrReported
<1>1. RentalInit => PaidServedOrReported
  BY DEF RentalInit, PaidServedOrReported
<1> QED
  BY <1>1, Reachable, StepKeepsPaid, PTL DEF RentalSpec

\* A number the platform pays for has a live row, or the administrators know of
\* it (provisionAfterPayment, releaseNow, purgeStalePending).
THEOREM NoNumberForgotten == RentalSpec => []NoSilentLeak
<1>1. LeakInv => NoSilentLeak
  BY DEF LeakInv
<1> QED
  BY <1>1, Reachable, InitLeak, StepKeepsLeak, PTL DEF RentalSpec

\* Replicas that renew a rental at once, one that is killed, and a customer who
\* pays meanwhile never make it pay a month twice, as long as a payment that is
\* confirmed moves the end of its rental on (renewOne, activate).
THEOREM MonthsPaidOnce ==
  RentalSpec /\ ConfirmationsExtend => [](\A x \in DOMAIN charged : charged[x] <= 1)
<1> DEFINE Once == \A x \in DOMAIN charged : charged[x] <= 1
<1>1. MonthInv => Once
  BY MonthlyPaid
<1> QED
  BY <1>1, MonthsKept, PTL

\* As long as rounds do not meet, and no replica is killed between a charge that
\* failed and its mark, not even a charge whose answer was lost is repeated
\* (renewOne, rollBackPeriod, markPastDue).
THEOREM RenewalsNotRepeated ==
  RentalSpec /\ ConfirmationsExtend /\ MarksFollow => []RenewedOnce
<1>1. TypeInv /\ TypeInv' /\ MonthInv /\ LostInv /\ [RentalNext]_rentalVars /\ [Extends]_rentalVars
        /\ [Marks]_rentalVars => LostInv'
  <2> SUFFICES ASSUME TypeInv, TypeInv', MonthInv, LostInv, [RentalNext]_rentalVars, [Extends]_rentalVars,
                      [Marks]_rentalVars
               PROVE  LostInv'
    OBVIOUS
  <2>1. CASE Extends /\ Marks
    BY <2>1, NextLostInv
  <2>2. CASE UNCHANGED rentalVars
    BY <2>2, StillExtends, NextLostInv
  <2> QED
    BY <2>1, <2>2
<1>2. MonthInv /\ LostInv => RenewedOnce
  <2> SUFFICES ASSUME MonthInv, LostInv PROVE RenewedOnce
    OBVIOUS
  <2>1. \A x \in DOMAIN charged : charged[x] <= 1
    BY MonthlyPaid
  <2>2. ASSUME ~overlap, NEW x \in lost \cap DOMAIN charged PROVE charged[x] = 0
    <3>1. PICK r \in Rentals, t \in 0 .. MaxTime + Period : x = <<r, t>>
      BY <2>2 DEF MonthInv, MonthsKnown
    <3>2. t \in Nat
      BY <3>1, RentalAssumption
    <3>3. LostMonth(r, t)
      BY <2>2, <3>1, <3>2 DEF LostInv
    <3> QED
      BY <3>1, <3>3 DEF LostMonth
  <2> QED
    BY <2>1, <2>2 DEF RenewedOnce
<1> QED
  BY <1>1, <1>2, Reachable, MonthsKept, InitMonthInv, PTL DEF RentalSpec, ConfirmationsExtend, MarksFollow
=============================================================================
