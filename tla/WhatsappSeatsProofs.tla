------------------------- MODULE WhatsappSeatsProofs -------------------------
(***************************************************************************)
(* What holds of paid seats for any number of seats, agents, payments and  *)
(* replicas: the types, the agents who work on seats that are paid or      *)
(* granted, and the months that are collected once.                        *)
(***************************************************************************)
EXTENDS WhatsappSeats, FiniteSetTheorems, TLAPS

-----------------------------------------------------------------------------
(***************************************************************************)
(* SeatsTypeOK is not inductive: a seat that is used has a period because  *)
(* whoever writes it as used, by its id and whatever it has become, read   *)
(* it with one; and an end, once written, is never NULL again.             *)
(***************************************************************************)
Used == Live \cup {"cancelled"}

SeatTable ==
  /\ seat \in [Seats -> SeatRow]
  /\ \A s \in Seats : seat[s].status \in Used => seat[s].end # None
  /\ \A s \in Seats : seat[s].status = "absent" => seat[s].end = None

Visit == [pc : {"idle", "create", "supersede", "open", "cancel"}, seat : Seats \cup {None},
          status : Statuses]

Customers ==
  /\ payment \in [Payments -> [status : {"absent", "pending", "superseded", "failed", "paid"},
                               seat : Seats \cup {None}]]
  /\ confirm \in [Payments -> SeatRow \cup {None}]
  /\ \A p \in Payments :
       /\ payment[p].status # "absent" => payment[p].seat \in Seats
       /\ confirm[p] # None => payment[p].status # "absent"
  /\ visitor \in [Visitors -> Visit]
  /\ \A v \in Visitors :
       /\ visitor[v].pc \in {"supersede", "open", "cancel"} => visitor[v].seat \in Seats
       /\ visitor[v].pc = "cancel" => visitor[v].status \in Live \cup {"pending"}
       /\ visitor[v].pc = "cancel" /\ visitor[v].status \in Live => seat[visitor[v].seat].end # None

Desk ==
  /\ granted \in 0 .. MaxGranted /\ lowering \in 0 .. MaxGranted \cup {None}
  /\ holders \subseteq Agents \cup {Owner} /\ giving \in Agents \cup {None}

Scan == [pc : {"idle", "renew", "claim", "charge", "rollback", "mark", "reactivate", "unpaid", "close",
               "revoke"},
         at : 0 .. MaxTime, due : SUBSET Seats, seat : Seats \cup {None}, status : Statuses,
         from : Nat \cup {None}, to : Nat \cup {None}]

\* A replica that has read a row works on a seat with a period; the month it
\* is going to charge is [from, to).
Knows(r) ==
  /\ r.pc \in {"claim", "charge", "rollback", "mark", "reactivate", "unpaid"} =>
       r.seat \in Seats /\ seat[r.seat].end # None
  /\ r.pc \in {"claim", "charge", "rollback"} => r.from \in Nat /\ r.to \in Nat /\ r.from < r.to

Replicas == scanner \in [Scanners -> Scan] /\ \A c \in Scanners : Knows(scanner[c])

Clock ==
  /\ now \in 0 .. MaxTime /\ faults \in 0 .. MaxFaults /\ taken \in BOOLEAN
  /\ answered \in [Seats \X (0 .. MaxTime + Period) -> Nat]

SInv == SeatTable /\ Customers /\ Desk /\ Replicas /\ Clock

-----------------------------------------------------------------------------
\* No end is lost.
EndsKept == \A s \in Seats : seat[s].end # None => seat'[s].end # None

LEMMA RowType ==
  ASSUME now \in 0 .. MaxTime, NEW status \in Statuses, NEW end \in Nat \cup {None}
  PROVE  Row(status, end) \in SeatRow /\ Row(status, end).status = status /\ Row(status, end).end = end
BY SeatsAssumption DEF Row, SeatRow

LEMMA SeatWritten ==
  ASSUME SInv, NEW s \in Seats, NEW status \in Statuses \ {"absent"}, NEW end \in Nat \cup {None},
         status \in Used \/ seat[s].end # None => end # None,
         seat' = [seat EXCEPT ![s] = Row(status, end)]
  PROVE  /\ SeatTable' /\ EndsKept
         /\ seat'[s].status = status /\ seat'[s].end = end
         /\ \A t \in Seats \ {s} : seat'[t] = seat[t]
<1> DEFINE row == Row(status, end)
<1>1. row \in SeatRow /\ row.status = status /\ row.end = end
  BY RowType DEF SInv, Clock
<1> HIDE DEF row
<1> QED
  BY <1>1 DEF row, SInv, SeatTable, EndsKept

LEMMA SeatsKept == SInv /\ seat' = seat => SeatTable' /\ EndsKept
BY DEF SInv, SeatTable, EndsKept

LEMMA CustomersKept == ASSUME SInv, UNCHANGED customer, EndsKept PROVE Customers'
BY DEF SInv, Customers, customer, EndsKept

LEMMA ReplicasKept == ASSUME SInv, scanner' = scanner, EndsKept PROVE Replicas'
BY DEF SInv, Replicas, Knows, EndsKept

LEMMA DeskKept == SInv /\ UNCHANGED <<desk, holders>> => Desk'
BY DEF SInv, Desk, desk

LEMMA ClockKept == SInv /\ UNCHANGED <<now, answered, taken, faults>> => Clock'
BY DEF SInv, Clock

LEMMA ReplicaMoves ==
  ASSUME SInv, NEW c \in Scanners, NEW r \in Scan, scanner' = [scanner EXCEPT ![c] = r], Knows(r)',
         EndsKept
  PROVE  Replicas'
<1>1. \A d \in Scanners : scanner'[d] = IF d = c THEN r ELSE scanner[d]
  BY DEF SInv, Replicas
<1>2. ASSUME NEW d \in Scanners PROVE Knows(scanner[d])'
  <2>1. CASE d = c
    BY <1>1, <2>1 DEF Knows
  <2>2. CASE d # c
    BY <1>1, <2>2 DEF SInv, Replicas, Knows, EndsKept
  <2> QED
    BY <2>1, <2>2
<1> QED
  BY <1>2 DEF SInv, Replicas

\* A replica between two rows knows of none.
Free == {"idle", "renew", "close", "revoke"}

LEMMA FreeKnows == ASSUME NEW r, r.pc \in Free PROVE Knows(r)'
BY DEF Free, Knows

LEMMA IdleScan == IdleScanner \in Scan /\ IdleScanner.pc = "idle"
BY SeatsAssumption DEF IdleScanner, Scan, Statuses

LEMMA FreeScan ==
  ASSUME NEW due \in SUBSET Seats, NEW at \in 0 .. MaxTime, NEW pc \in Free
  PROVE  /\ [IdleScanner EXCEPT !.pc = pc, !.at = at, !.due = due] \in Scan
         /\ [IdleScanner EXCEPT !.pc = pc, !.at = at, !.due = due].pc = pc
BY IdleScan DEF Scan, Free

LEMMA ResumeScan ==
  ASSUME SInv, NEW c \in Scanners
  PROVE  Resume(c) \in Scan /\ Resume(c).pc = "renew"
<1>1. scanner[c].at \in 0 .. MaxTime /\ scanner[c].due \in SUBSET Seats
  BY DEF SInv, Replicas, Scan
<1> QED
  BY <1>1, IdleScan DEF Resume, Scan

-----------------------------------------------------------------------------
(***************************************************************************)
(* The customer.                                                           *)
(***************************************************************************)
LEMMA VisitorMoves ==
  ASSUME SInv, NEW v \in Visitors, NEW r \in Visit, visitor' = [visitor EXCEPT ![v] = r],
         r.pc \in {"supersede", "open", "cancel"} => r.seat \in Seats,
         r.pc = "cancel" => r.status \in Live \cup {"pending"},
         r.pc = "cancel" /\ r.status \in Live => seat'[r.seat].end # None,
         UNCHANGED <<payment, confirm>>, EndsKept
  PROVE  Customers'
<1>1. \A w \in Visitors : visitor'[w] = IF w = v THEN r ELSE visitor[w]
  BY DEF SInv, Customers
<1> QED
  BY <1>1 DEF SInv, Customers, EndsKept

LEMMA VisitorSteps ==
  ASSUME SInv, NEW v \in Visitors, FindPending(v) \/ CancelRead(v)
  PROVE  SInv'
<1>0. UNCHANGED <<now, seat, payment, confirm, desk, holders, scanner, answered, taken, faults>>
  BY DEF FindPending, CancelRead, history
<1>1. Desk' /\ Replicas' /\ Clock' /\ SeatTable' /\ EndsKept
  BY <1>0, SeatsKept, DeskKept, ReplicasKept, ClockKept
<1>2. visitor[v] \in Visit
  BY DEF SInv, Customers
<1>3. CASE FindPending(v)
  <2>1. ASSUME NEW s \in Seats,
               visitor' = [visitor EXCEPT ![v] = [IdleVisitor EXCEPT !.pc = "supersede", !.seat = s]]
        PROVE  Customers'
    <3> DEFINE r == [IdleVisitor EXCEPT !.pc = "supersede", !.seat = s]
    <3>1. r \in Visit /\ r.pc = "supersede" /\ r.seat = s
      BY DEF IdleVisitor, Visit, Statuses
    <3> HIDE DEF r
    <3> QED
      BY <1>0, <1>1, <2>1, <3>1, VisitorMoves DEF r
  <2>2. CASE visitor' = [visitor EXCEPT ![v].pc = "create"]
    <3>1. PICK r \in Visit : r.pc = "create" /\ visitor' = [visitor EXCEPT ![v] = r]
      BY <1>2, <2>2 DEF Visit
    <3>2. r.pc \notin {"supersede", "open", "cancel"}
      BY <3>1
    <3> QED
      BY <1>0, <1>1, <3>1, <3>2, VisitorMoves DEF SInv
  <2> QED
    BY <1>1, <1>3, <2>1, <2>2 DEF FindPending, SInv
<1>4. CASE CancelRead(v)
  <2>1. PICK s \in Seats :
          /\ seat[s].status \in Live \cup {"pending"}
          /\ visitor' = [visitor EXCEPT ![v] = [pc |-> "cancel", seat |-> s, status |-> seat[s].status]]
    BY <1>4 DEF CancelRead
  <2> DEFINE r == [pc |-> "cancel", seat |-> s, status |-> seat[s].status]
  <2>2. r \in Visit
    BY DEF Visit, SInv, SeatTable, SeatRow
  <2>3. r.status \in Live => seat'[r.seat].end # None
    BY <1>0 DEF SInv, SeatTable, Used
  <2> QED
    BY <1>0, <1>1, <2>1, <2>2, <2>3, VisitorMoves DEF SInv
<1> QED
  BY <1>3, <1>4

LEMMA CreateSeatStep ==
  ASSUME SInv, NEW v \in Visitors, CreateSeat(v)
  PROVE  SInv'
<1>0. UNCHANGED <<now, payment, confirm, desk, holders, scanner, answered, taken, faults>>
  BY DEF CreateSeat, history
<1>1. PICK s \in Seats :
        /\ seat[s].status = "absent"
        /\ seat' = [seat EXCEPT ![s] = Row("pending", None)]
        /\ visitor' = [visitor EXCEPT ![v] = [visitor[v] EXCEPT !.pc = "supersede", !.seat = s]]
  BY DEF CreateSeat
<1> DEFINE r == [visitor[v] EXCEPT !.pc = "supersede", !.seat = s]
<1>2. SeatTable' /\ EndsKept
  BY <1>1, SeatWritten DEF SInv, SeatTable, Statuses, Used, Live
<1>3. r \in Visit /\ r.pc = "supersede" /\ r.seat = s
  BY DEF SInv, Customers, Visit
<1> HIDE DEF r
<1>4. Customers'
  BY <1>0, <1>1, <1>2, <1>3, VisitorMoves DEF r
<1> QED
  BY <1>0, <1>2, <1>4, DeskKept, ReplicasKept, ClockKept DEF SInv

LEMMA PageSteps ==
  ASSUME SInv, NEW v \in Visitors, Supersede(v) \/ OpenPage(v)
  PROVE  SInv'
<1>0. UNCHANGED <<now, seat, confirm, desk, holders, scanner, answered, taken, faults>>
  BY DEF Supersede, OpenPage, history
<1>1. Desk' /\ Replicas' /\ Clock' /\ SeatTable' /\ EndsKept
  BY <1>0, SeatsKept, DeskKept, ReplicasKept, ClockKept
<1>2. visitor[v] \in Visit /\ visitor[v].seat \in Seats
  BY DEF SInv, Customers, Supersede, OpenPage
<1> DEFINE PaymentRow == [status : {"absent", "pending", "superseded", "failed", "paid"},
                          seat : Seats \cup {None}]
<1>3. /\ payment' \in [Payments -> PaymentRow]
      /\ \A p \in Payments :
           /\ payment'[p].status # "absent" => payment'[p].seat \in Seats
           /\ payment[p].status # "absent" => payment'[p].status # "absent"
  <2>1. CASE Supersede(v)
    <3>1. PICK Open \in SUBSET Payments :
            /\ \A p \in Open : payment[p].status = "pending"
            /\ payment' = [p \in Payments |->
                 IF p \in Open THEN [payment[p] EXCEPT !.status = "superseded"] ELSE payment[p]]
      BY <2>1 DEF Supersede
    <3>2. \A p \in Payments :
            /\ payment[p] \in PaymentRow
            /\ [payment[p] EXCEPT !.status = "superseded"] \in PaymentRow
            /\ [payment[p] EXCEPT !.status = "superseded"].status = "superseded"
            /\ [payment[p] EXCEPT !.status = "superseded"].seat = payment[p].seat
      BY DEF SInv, Customers
    <3>3. \A p \in Payments : payment[p].status # "absent" => payment[p].seat \in Seats
      BY DEF SInv, Customers
    <3> HIDE DEF PaymentRow
    <3> QED
      BY <3>1, <3>2, <3>3
  <2>2. CASE OpenPage(v)
    <3>1. PICK p \in Payments, status \in {"pending", "failed"} :
            /\ payment[p].status = "absent"
            /\ payment' = [payment EXCEPT ![p] = [status |-> status, seat |-> visitor[v].seat]]
      BY <2>2 DEF OpenPage
    <3> QED
      BY <1>2, <3>1 DEF SInv, Customers
  <2> QED
    BY <2>1, <2>2
<1>4. PICK r \in Visit :
        /\ visitor' = [visitor EXCEPT ![v] = r]
        /\ r.pc \in {"open", "idle"} /\ r.seat \in Seats \cup {None} /\ (r.pc = "open" => r.seat \in Seats)
  <2>1. CASE Supersede(v)
    <3>1. [visitor[v] EXCEPT !.pc = "open"] \in Visit
      BY <1>2 DEF Visit
    <3> QED
      BY <1>2, <2>1, <3>1 DEF Supersede, Visit
  <2>2. CASE OpenPage(v)
    <3>1. IdleVisitor \in Visit /\ IdleVisitor.pc = "idle" /\ IdleVisitor.seat = None
      BY DEF IdleVisitor, Visit, Statuses
    <3> QED
      BY <2>2, <3>1 DEF OpenPage
  <2> QED
    BY <2>1, <2>2
<1>5. Customers'
  <2>1. \A w \in Visitors : visitor'[w] = IF w = v THEN r ELSE visitor[w]
    BY <1>4 DEF SInv, Customers
  <2>2. visitor' \in [Visitors -> Visit]
    BY <1>4 DEF SInv, Customers
  <2>3. \A w \in Visitors :
          /\ visitor'[w].pc \in {"supersede", "open", "cancel"} => visitor'[w].seat \in Seats
          /\ visitor'[w].pc = "cancel" => visitor'[w].status \in Live \cup {"pending"}
          /\ visitor'[w].pc = "cancel" /\ visitor'[w].status \in Live => seat'[visitor'[w].seat].end # None
    BY <1>0, <1>4, <2>1 DEF SInv, Customers
  <2>4. \A p \in Payments :
          /\ payment'[p].status # "absent" => payment'[p].seat \in Seats
          /\ confirm'[p] # None => payment'[p].status # "absent"
    BY <1>0, <1>3 DEF SInv, Customers
  <2>5. confirm' \in [Payments -> SeatRow \cup {None}]
    BY <1>0 DEF SInv, Customers
  <2> QED
    BY <1>3, <2>2, <2>3, <2>4, <2>5 DEF Customers
<1> QED
  BY <1>1, <1>5 DEF SInv

LEMMA CancelWriteStep ==
  ASSUME SInv, NEW v \in Visitors, CancelWrite(v)
  PROVE  SInv'
<1> DEFINE s == visitor[v].seat
<1>0. /\ UNCHANGED <<now, payment, confirm, desk, holders, scanner, answered, faults>>
      /\ visitor' = [visitor EXCEPT ![v] = IdleVisitor]
      /\ taken' \in BOOLEAN
  BY DEF CancelWrite, SInv, Clock
<1>1. /\ s \in Seats
      /\ visitor[v].status \in Live \cup {"pending"}
      /\ visitor[v].status \in Live => seat[s].end # None
      /\ seat[s].end \in Nat \cup {None}
  BY DEF CancelWrite, SInv, Customers, SeatTable, SeatRow
<1>2. CancelledAs(visitor[v].status) \in Statuses \ {"absent"}
        /\ (CancelledAs(visitor[v].status) \in Used => seat[s].end # None)
  BY <1>1 DEF CancelledAs, Statuses, Used, Live
<1>3. SeatTable' /\ EndsKept
  BY <1>1, <1>2, SeatWritten DEF CancelWrite
<1>4. IdleVisitor \in Visit /\ IdleVisitor.pc = "idle"
  BY DEF IdleVisitor, Visit, Statuses
<1>5. Customers'
  BY <1>0, <1>3, <1>4, VisitorMoves
<1>6. Clock'
  BY <1>0 DEF SInv, Clock
<1> QED
  BY <1>0, <1>3, <1>5, <1>6, DeskKept, ReplicasKept DEF SInv

\* A month after the later of now and the end is a time, whatever the end.
LEMMA NextPeriodEndType ==
  ASSUME NEW end \in Nat \cup {None}, NEW at \in Nat
  PROVE  /\ NextPeriodEnd(end, at) \in Nat
         /\ end \in Nat => end < NextPeriodEnd(end, at)
BY SeatsAssumption DEF NextPeriodEnd

LEMMA ApplySteps ==
  ASSUME SInv, NEW p \in Payments, ClaimPayment(p) \/ Activate(p)
  PROVE  SInv'
<1> DEFINE s == payment[p].seat
<1>0. UNCHANGED <<now, visitor, desk, holders, scanner, answered, taken, faults>>
  BY DEF ClaimPayment, Activate, history
<1>1. Desk' /\ Clock'
  BY <1>0, DeskKept, ClockKept
<1>2. payment[p].status # "absent" /\ s \in Seats
  BY DEF ClaimPayment, Activate, SInv, Customers
<1>3. seat[s] \in SeatRow /\ seat[s].end \in Nat \cup {None}
  BY <1>2 DEF SInv, SeatTable, SeatRow
<1>4. SeatTable' /\ EndsKept
  <2>1. CASE seat' = seat
    BY <2>1, SeatsKept
  <2>2. CASE Activate(p) /\ seat' = [seat EXCEPT ![s] = Row("active", NextPeriodEnd(confirm[p].end, now))]
    <3>1. confirm[p] \in SeatRow
      BY <2>2 DEF Activate, SInv, Customers
    <3>2. confirm[p].end \in Nat \cup {None} /\ now \in Nat
      BY <3>1, SeatsAssumption DEF SeatRow, SInv, Clock
    <3>3. NextPeriodEnd(confirm[p].end, now) \in Nat
      BY <3>2, NextPeriodEndType
    <3> QED
      BY <1>2, <2>2, <3>3, SeatWritten, SeatsAssumption DEF Statuses
  <2> QED
    BY <2>1, <2>2 DEF ClaimPayment, Activate
<1>5. Customers'
  <2>1. /\ confirm' \in [Payments -> SeatRow \cup {None}]
        /\ \A q \in Payments : q # p => confirm'[q] = confirm[q]
    BY <1>3 DEF ClaimPayment, Activate, SInv, Customers
  <2>2. /\ payment' \in [Payments -> [status : {"absent", "pending", "superseded", "failed", "paid"},
                                      seat : Seats \cup {None}]]
        /\ \A q \in Payments : payment'[q].seat = payment[q].seat
        /\ \A q \in Payments : q # p => payment'[q].status = payment[q].status
        /\ payment'[p].status # "absent"
    <3>1. CASE ClaimPayment(p)
      BY <1>2, <3>1 DEF ClaimPayment, SInv, Customers
    <3>2. CASE Activate(p)
      <4>1. payment' = [payment EXCEPT ![p] = [payment[p] EXCEPT !.status = "paid"]]
        BY <3>2 DEF Activate
      <4> QED
        BY <4>1 DEF SInv, Customers
    <3> QED
      BY <3>1, <3>2
  <2>3. \A q \in Payments :
          /\ payment'[q].status # "absent" => payment'[q].seat \in Seats
          /\ confirm'[q] # None => payment'[q].status # "absent"
    BY <1>2, <2>1, <2>2 DEF SInv, Customers
  <2>4. \A v \in Visitors :
          visitor[v].pc = "cancel" /\ visitor[v].status \in Live => seat'[visitor[v].seat].end # None
    BY <1>4 DEF EndsKept, SInv, Customers
  <2> QED
    BY <1>0, <2>1, <2>2, <2>3, <2>4 DEF SInv, Customers
<1> QED
  BY <1>0, <1>1, <1>4, <1>5, ReplicasKept DEF SInv

-----------------------------------------------------------------------------
(***************************************************************************)
(* The desk, and the clock.                                                *)
(***************************************************************************)
LEMMA DeskSteps ==
  ASSUME SInv,
         \/ \E a \in Agents : GrantLock(a)
         \/ \E u \in Agents \cup {Owner} : Withdraw(u)
         \/ GrantCommit \/ CheckExtra \/ WriteExtra
  PROVE  SInv'
<1>0. UNCHANGED <<now, seat, customer, scanner, answered, faults>> /\ taken' \in BOOLEAN
  BY DEF GrantLock, Withdraw, GrantCommit, CheckExtra, WriteExtra, history, desk, SInv, Clock
<1>1. SeatTable' /\ EndsKept
  BY <1>0, SeatsKept
<1>2. Customers' /\ Replicas'
  BY <1>0, <1>1, CustomersKept, ReplicasKept
<1>3. Clock'
  BY <1>0 DEF SInv, Clock
<1>4. Desk'
  BY SeatsAssumption DEF GrantLock, Withdraw, GrantCommit, CheckExtra, WriteExtra, SInv, Desk, desk
<1> QED
  BY <1>1, <1>2, <1>3, <1>4 DEF SInv

LEMMA PassStep == SInv /\ Pass => SInv'
<1> SUFFICES ASSUME SInv, Pass PROVE SInv'
  OBVIOUS
<1>1. UNCHANGED <<seat, customer, desk, holders, scanner, answered, taken, faults>>
  BY DEF Pass, history
<1>2. Clock'
  BY <1>1, SeatsAssumption DEF Pass, SInv, Clock
<1> QED
  BY <1>1, <1>2, SeatsKept, CustomersKept, DeskKept, ReplicasKept DEF SInv

-----------------------------------------------------------------------------
(***************************************************************************)
(* A replica.                                                              *)
(***************************************************************************)

\* The step moves one replica, and writes at most its seat.
LEMMA TickKeeps ==
  ASSUME SInv, NEW c \in Scanners, NEW r \in Scan, scanner' = [scanner EXCEPT ![c] = r], Knows(r)',
         SeatTable', EndsKept, UNCHANGED <<customer, desk, holders>>, Clock'
  PROVE  SInv'
BY CustomersKept, DeskKept, ReplicaMoves DEF SInv

LEMMA FreeSteps ==
  ASSUME SInv, NEW c \in Scanners, ListDue(c) \/ ListCancelled(c) \/ EndTick(c) \/ Crash(c)
  PROVE  SInv'
<1>0. UNCHANGED <<seat, customer, desk, holders>> /\ SeatTable' /\ EndsKept
  BY SeatsKept DEF ListDue, ListCancelled, EndTick, Crash
<1>1. Clock'
  <2>1. UNCHANGED <<now, answered>> /\ faults' \in 0 .. MaxFaults
    BY SeatsAssumption DEF ListDue, ListCancelled, EndTick, Crash, history, SInv, Clock
  <2>2. taken' \in BOOLEAN
    <3>1. taken' = taken \/ taken' = (taken \/ scanner[c].pc = "revoke")
      BY DEF ListDue, ListCancelled, EndTick, Crash, history
    <3> QED
      BY <3>1, Zenon DEF SInv, Clock
  <2> QED
    BY <2>1, <2>2 DEF SInv, Clock
<1>2. PICK r \in Scan : r.pc \in Free /\ scanner' = [scanner EXCEPT ![c] = r]
  <2>1. CASE ListDue(c) \/ ListCancelled(c)
    <3>1. PICK pc \in Free, due \in SUBSET Seats :
            scanner' = [scanner EXCEPT ![c] = [IdleScanner EXCEPT !.pc = pc, !.at = now, !.due = due]]
      BY <2>1 DEF ListDue, ListCancelled, Free
    <3>2. now \in 0 .. MaxTime
      BY DEF SInv, Clock
    <3> QED
      BY ZenonT(60), <3>1, <3>2, FreeScan
  <2>2. CASE EndTick(c) \/ Crash(c)
    BY <2>2, IdleScan DEF EndTick, Crash, Free
  <2> QED
    BY <2>1, <2>2
<1>3. Knows(r)'
  BY <1>2, FreeKnows
<1> QED
  BY <1>0, <1>1, <1>2, <1>3, TickKeeps

LEMMA ReadSeatStep ==
  ASSUME SInv, NEW c \in Scanners, ReadSeat(c)
  PROVE  SInv'
<1>0. UNCHANGED <<seat, customer, desk, holders>> /\ SeatTable' /\ EndsKept /\ Clock'
  BY SeatsKept, ClockKept DEF ReadSeat, history
<1>1. scanner[c] \in Scan /\ scanner[c].pc = "renew"
  BY DEF ReadSeat, SInv, Replicas
<1>2. PICK s \in scanner[c].due :
        LET row    == seat[s]
            beyond == row.status = "past_due" /\ scanner[c].at > row.end + Grace
        IN \/ /\ row.status \notin Live
              /\ scanner' = [scanner EXCEPT ![c].due = @ \ {s}]
           \/ /\ row.status \in Live
              /\ \E pc \in IF beyond THEN {"unpaid"} ELSE {"claim", "mark"} :
                   scanner' = [scanner EXCEPT ![c] =
                     [pc |-> pc, at |-> scanner[c].at, due |-> scanner[c].due \ {s}, seat |-> s,
                      status |-> row.status, from |-> row.end,
                      to |-> NextPeriodEnd(row.end, scanner[c].at)]]
  BY DEF ReadSeat
<1>3. s \in Seats /\ scanner[c].at \in Nat
  BY <1>1, SeatsAssumption DEF Scan
<1>4. CASE seat[s].status \notin Live
  <2>1. PICK r \in Scan : r.pc = "renew" /\ scanner' = [scanner EXCEPT ![c] = r]
    <3>1. [scanner[c] EXCEPT !.due = scanner[c].due \ {s}] \in Scan
      BY <1>1 DEF Scan
    <3>2. [scanner[c] EXCEPT !.due = scanner[c].due \ {s}].pc = "renew"
      BY <1>1 DEF Scan
    <3> QED
      BY <1>2, <1>4, <3>1, <3>2
  <2>2. Knows(r)'
    BY <2>1, FreeKnows DEF Free
  <2> QED
    BY <1>0, <2>1, <2>2, TickKeeps
<1>5. CASE seat[s].status \in Live
  <2>1. seat[s].end \in Nat /\ seat[s].status \in Statuses
    BY <1>3, <1>5 DEF SInv, SeatTable, SeatRow, Used
  <2> DEFINE to == NextPeriodEnd(seat[s].end, scanner[c].at)
  <2>2. to \in Nat /\ seat[s].end < to
    BY <1>3, <2>1, NextPeriodEndType
  <2> HIDE DEF to
  <2>3. PICK pc \in {"unpaid", "claim", "mark"} :
          scanner' = [scanner EXCEPT ![c] =
            [pc |-> pc, at |-> scanner[c].at, due |-> scanner[c].due \ {s}, seat |-> s,
             status |-> seat[s].status, from |-> seat[s].end, to |-> to]]
    BY <1>2, <1>5 DEF to
  <2> DEFINE r == [pc |-> pc, at |-> scanner[c].at, due |-> scanner[c].due \ {s}, seat |-> s,
                   status |-> seat[s].status, from |-> seat[s].end, to |-> to]
  <2>4. r \in Scan
    BY <1>1, <1>3, <2>1, <2>2 DEF Scan
  <2>5. \A d \in Scanners : scanner'[d] = IF d = c THEN r ELSE scanner[d]
    BY <2>3 DEF SInv, Replicas
  <2>6. ASSUME NEW d \in Scanners PROVE Knows(scanner[d])'
    <3>1. CASE d = c
      <4>1. /\ scanner'[c].seat = s /\ scanner'[c].from = seat[s].end /\ scanner'[c].to = to
            /\ seat'[s].end # None
        BY <1>0, <2>1, <2>5, SeatsAssumption
      <4> QED
        BY <1>3, <2>1, <2>2, <3>1, <4>1 DEF Knows
    <3>2. CASE d # c
      BY <1>0, <2>5, <3>2 DEF Knows, SInv, Replicas
    <3> QED
      BY <3>1, <3>2
  <2>7. Replicas'
    BY <2>3, <2>4, <2>6 DEF SInv, Replicas
  <2> QED
    BY <1>0, <2>7, CustomersKept, DeskKept DEF SInv
<1> QED
  BY <1>4, <1>5

\* The replica takes the next seat of its list.
LEMMA Resumes ==
  ASSUME SInv, NEW c \in Scanners, scanner' = [scanner EXCEPT ![c] = Resume(c)],
         SeatTable', EndsKept, UNCHANGED <<customer, desk, holders>>, Clock'
  PROVE  SInv'
<1>1. PICK r \in Scan : r.pc = "renew" /\ scanner' = [scanner EXCEPT ![c] = r]
  BY ResumeScan
<1>2. Knows(r)'
  BY <1>1, FreeKnows DEF Free
<1> QED
  BY <1>1, <1>2, TickKeeps

\* The replica goes on with the seat it has, which keeps its end.
LEMMA GoesOn ==
  ASSUME SInv, NEW c \in Scanners, NEW pc \in {"charge", "rollback", "mark", "reactivate"},
         scanner[c].pc \in {"claim", "charge", "rollback"},
         scanner' = [scanner EXCEPT ![c] = [scanner[c] EXCEPT !.pc = pc]],
         SeatTable', EndsKept, UNCHANGED <<customer, desk, holders>>, Clock'
  PROVE  SInv'
<1>1. /\ scanner[c] \in Scan /\ scanner[c].seat \in Seats /\ seat[scanner[c].seat].end # None
      /\ scanner[c].from \in Nat /\ scanner[c].to \in Nat /\ scanner[c].from < scanner[c].to
  BY DEF SInv, Replicas, Knows
<1>2. PICK r \in Scan :
        /\ scanner' = [scanner EXCEPT ![c] = r]
        /\ r.pc = pc /\ r.seat = scanner[c].seat /\ r.from = scanner[c].from /\ r.to = scanner[c].to
  <2>1. [scanner[c] EXCEPT !.pc = pc] \in Scan
    BY <1>1 DEF Scan
  <2>2. /\ [scanner[c] EXCEPT !.pc = pc].pc = pc
        /\ [scanner[c] EXCEPT !.pc = pc].seat = scanner[c].seat
        /\ [scanner[c] EXCEPT !.pc = pc].from = scanner[c].from
        /\ [scanner[c] EXCEPT !.pc = pc].to = scanner[c].to
    BY <1>1 DEF Scan
  <2> QED
    BY <2>1, <2>2
<1>3. r.seat \in Seats /\ seat'[r.seat].end # None /\ r.from \in Nat /\ r.to \in Nat /\ r.from < r.to
  BY <1>1, <1>2 DEF EndsKept
<1>4. Knows(r)'
  BY <1>3 DEF Knows
<1> QED
  BY <1>2, <1>4, TickKeeps

\* What a replica knows of the seat it works on.
LEMMA Working ==
  ASSUME SInv, NEW c \in Scanners,
         scanner[c].pc \in {"claim", "charge", "rollback", "mark", "reactivate", "unpaid"}
  PROVE  /\ scanner[c].seat \in Seats
         /\ seat[scanner[c].seat].end \in Nat /\ seat[scanner[c].seat].status \in Statuses \ {"absent"}
         /\ scanner[c].pc \in {"claim", "charge", "rollback"} =>
              scanner[c].from \in Nat /\ scanner[c].to \in Nat /\ scanner[c].from < scanner[c].to
BY DEF SInv, Replicas, Knows, SeatTable, SeatRow

LEMMA ClaimStep == ASSUME SInv, NEW c \in Scanners, Claim(c) PROVE SInv'
<1>0. UNCHANGED <<customer, desk, holders>> /\ Clock' /\ scanner[c].pc = "claim"
  BY ClockKept DEF Claim, history
<1>1. CASE Claimable(c)
  <2>1. /\ seat' = [seat EXCEPT ![scanner[c].seat] = Row(seat[scanner[c].seat].status, scanner[c].to)]
        /\ scanner' = [scanner EXCEPT ![c] = [scanner[c] EXCEPT !.pc = "charge"]]
    BY <1>1 DEF Claim
  <2>2. SeatTable' /\ EndsKept
    BY ZenonT(60), <1>0, <2>1, Working, SeatWritten, SeatsAssumption
  <2> QED
    BY <1>0, <2>1, <2>2, GoesOn
<1>2. CASE ~Claimable(c)
  BY <1>0, <1>2, SeatsKept, Resumes DEF Claim
<1> QED
  BY <1>1, <1>2

LEMMA ChargeSteps ==
  ASSUME SInv, NEW c \in Scanners, ChargePaid(c) \/ ChargeDeclined(c) \/ ChargeLost(c)
  PROVE  SInv'
<1>0. /\ UNCHANGED <<seat, customer, desk, holders>> /\ SeatTable' /\ EndsKept
      /\ scanner[c].pc = "charge"
  BY SeatsKept DEF ChargePaid, ChargeDeclined, ChargeLost
<1>1. Clock'
  <2>1. CASE ChargePaid(c)
    <3>1. /\ answered' = [answered EXCEPT ![<<scanner[c].seat, scanner[c].from>>] = @ + 1]
          /\ UNCHANGED <<now, taken, faults>>
      BY <2>1 DEF ChargePaid
    <3>2. \A x \in Seats \X (0 .. MaxTime + Period) : answered[x] + 1 \in Nat
      BY DEF SInv, Clock
    <3>3. answered' \in [Seats \X (0 .. MaxTime + Period) -> Nat]
      BY <3>1, <3>2 DEF SInv, Clock
    <3> QED
      BY <3>1, <3>3 DEF SInv, Clock
  <2>2. CASE ChargeDeclined(c) \/ ChargeLost(c)
    BY <2>2, SeatsAssumption DEF ChargeDeclined, ChargeLost, history, SInv, Clock
  <2> QED
    BY <2>1, <2>2
<1>2. CASE ChargePaid(c) /\ scanner[c].status # "past_due"
  BY <1>0, <1>1, <1>2, Resumes DEF ChargePaid
<1>3. CASE ~(ChargePaid(c) /\ scanner[c].status # "past_due")
  <2>1. PICK pc \in {"rollback", "reactivate"} :
          scanner' = [scanner EXCEPT ![c] = [scanner[c] EXCEPT !.pc = pc]]
    BY <1>3 DEF ChargePaid, ChargeDeclined, ChargeLost
  <2> QED
    BY <1>0, <1>1, <2>1, GoesOn
<1> QED
  BY <1>2, <1>3

LEMMA WriteSteps ==
  ASSUME SInv, NEW c \in Scanners, Reactivate(c) \/ MarkPastDue(c)
  PROVE  SInv'
<1>0. UNCHANGED <<customer, desk, holders>> /\ Clock' /\ scanner[c].pc \in {"reactivate", "mark"}
  BY ClockKept DEF Reactivate, MarkPastDue, history
<1>1. PICK status \in {"active", "past_due"} :
        /\ seat' = [seat EXCEPT ![scanner[c].seat] = Row(status, seat[scanner[c].seat].end)]
        /\ scanner' = [scanner EXCEPT ![c] = Resume(c)]
  BY DEF Reactivate, MarkPastDue
<1>2. SeatTable' /\ EndsKept
  <2>1. scanner[c].seat \in Seats /\ seat[scanner[c].seat].end \in Nat
    BY <1>0, Working
  <2>2. status \in Statuses \ {"absent"} /\ seat[scanner[c].seat].end # None
    BY <2>1, SeatsAssumption DEF Statuses
  <2> QED
    BY <1>1, <2>1, <2>2, SeatWritten
<1> QED
  BY <1>0, <1>1, <1>2, Resumes

LEMMA RollBackStep == ASSUME SInv, NEW c \in Scanners, RollBack(c) PROVE SInv'
<1>0. UNCHANGED <<customer, desk, holders>> /\ Clock' /\ scanner[c].pc = "rollback"
  BY ClockKept DEF RollBack, history
<1>1. scanner' = [scanner EXCEPT ![c] = [scanner[c] EXCEPT !.pc = "mark"]]
  BY DEF RollBack
<1>2. SeatTable' /\ EndsKept
  <2>1. CASE seat' = seat
    BY <2>1, SeatsKept
  <2>2. CASE seat' = [seat EXCEPT ![scanner[c].seat] = Row(seat[scanner[c].seat].status, scanner[c].from)]
    BY ZenonT(60), <1>0, <2>2, Working, SeatWritten, SeatsAssumption
  <2> QED
    BY <2>1, <2>2 DEF RollBack
<1> QED
  BY <1>0, <1>1, <1>2, GoesOn

LEMMA CloseUnpaidStep == ASSUME SInv, NEW c \in Scanners, CloseUnpaid(c) PROVE SInv'
<1>0. UNCHANGED <<customer, desk, holders>> /\ Clock' /\ scanner[c].pc = "unpaid"
  BY ClockKept DEF CloseUnpaid, history
<1>1. CASE seat[scanner[c].seat].status = "past_due"
  <2>1. /\ seat' = [seat EXCEPT ![scanner[c].seat] = Row("released", seat[scanner[c].seat].end)]
        /\ scanner' = [scanner EXCEPT ![c] = [scanner[c] EXCEPT !.pc = "revoke"]]
    BY <1>1 DEF CloseUnpaid
  <2>2. SeatTable' /\ EndsKept
    <3>1. scanner[c].seat \in Seats /\ seat[scanner[c].seat].end \in Nat
      BY <1>0, Working
    <3>2. "released" \in Statuses \ {"absent"} /\ seat[scanner[c].seat].end # None
      BY <3>1, SeatsAssumption DEF Statuses
    <3> QED
      BY <2>1, <3>1, <3>2, SeatWritten
  <2>3. [scanner[c] EXCEPT !.pc = "revoke"] \in Scan /\ [scanner[c] EXCEPT !.pc = "revoke"].pc = "revoke"
    BY DEF SInv, Replicas, Scan
  <2>4. PICK r \in Scan : r.pc = "revoke" /\ scanner' = [scanner EXCEPT ![c] = r]
    BY <2>1, <2>3
  <2>5. Knows(r)'
    BY <2>4, FreeKnows DEF Free
  <2> QED
    BY <1>0, <2>2, <2>4, <2>5, TickKeeps
<1>2. CASE seat[scanner[c].seat].status # "past_due"
  BY <1>0, <1>2, SeatsKept, Resumes DEF CloseUnpaid
<1> QED
  BY <1>1, <1>2

LEMMA CloseCancelledStep == ASSUME SInv, NEW c \in Scanners, CloseCancelled(c) PROVE SInv'
<1>0. UNCHANGED <<customer, desk, holders>> /\ Clock'
  BY ClockKept DEF CloseCancelled, history
<1>1. PICK s \in scanner[c].due :
        IF seat[s].status = "cancelled"
          THEN /\ seat' = [seat EXCEPT ![s] = Row("released", seat[s].end)]
               /\ scanner' = [scanner EXCEPT ![c] = [scanner[c] EXCEPT !.pc = "revoke", !.due = @ \ {s}]]
          ELSE /\ scanner' = [scanner EXCEPT ![c] = [scanner[c] EXCEPT !.due = @ \ {s}]]
               /\ seat' = seat
  BY DEF CloseCancelled
<1>2. scanner[c] \in Scan /\ scanner[c].pc = "close" /\ s \in Seats
  BY DEF CloseCancelled, SInv, Replicas, Scan
<1>3. SeatTable' /\ EndsKept
  <2>1. seat[s].end \in Nat \cup {None}
    BY <1>2 DEF SInv, SeatTable, SeatRow
  <2> QED
    BY <1>1, <1>2, <2>1, SeatsKept, SeatWritten, SeatsAssumption DEF Statuses, Used, Live
<1>4. PICK r \in Scan : r.pc \in Free /\ scanner' = [scanner EXCEPT ![c] = r]
  <2>1. /\ [scanner[c] EXCEPT !.pc = "revoke", !.due = @ \ {s}] \in Scan
        /\ [scanner[c] EXCEPT !.pc = "revoke", !.due = @ \ {s}].pc = "revoke"
    BY <1>2 DEF Scan
  <2>2. [scanner[c] EXCEPT !.due = @ \ {s}] \in Scan /\ [scanner[c] EXCEPT !.due = @ \ {s}].pc = "close"
    BY <1>2 DEF Scan
  <2> QED
    BY <1>1, <2>1, <2>2 DEF Free
<1>5. Knows(r)'
  BY <1>4, FreeKnows
<1> QED
  BY <1>0, <1>3, <1>4, <1>5, TickKeeps

LEMMA RevokeStep == ASSUME SInv, NEW c \in Scanners, Revoke(c) PROVE SInv'
<1>0. UNCHANGED <<now, seat, customer, desk, answered, taken, faults>> /\ holders' \subseteq holders
  BY DEF Revoke, history
<1>1. SeatTable' /\ EndsKept /\ Customers' /\ Clock'
  BY <1>0, SeatsKept, CustomersKept, ClockKept
<1>2. Desk'
  BY <1>0 DEF SInv, Desk, desk
<1>3. PICK r \in Scan : r.pc \in Free /\ scanner' = [scanner EXCEPT ![c] = r]
  <2>1. CASE scanner[c].seat = None
    <3>1. scanner' = [scanner EXCEPT ![c] = [scanner[c] EXCEPT !.pc = "close"]]
      BY <2>1 DEF Revoke
    <3>2. [scanner[c] EXCEPT !.pc = "close"] \in Scan /\ [scanner[c] EXCEPT !.pc = "close"].pc = "close"
      BY DEF SInv, Replicas, Scan
    <3> QED
      BY <3>1, <3>2 DEF Free
  <2>2. CASE scanner[c].seat # None
    <3>1. scanner' = [scanner EXCEPT ![c] = Resume(c)]
      BY <2>2 DEF Revoke
    <3> QED
      BY <3>1, ResumeScan DEF Free
  <2> QED
    BY <2>1, <2>2
<1>4. Knows(r)'
  BY <1>3, FreeKnows
<1> QED
  BY <1>1, <1>2, <1>3, <1>4, ReplicaMoves DEF SInv

LEMMA InitSInv == SeatsInit => SInv
<1> SUFFICES ASSUME SeatsInit PROVE SInv
  OBVIOUS
<1>1. SeatTable
  BY SeatsAssumption DEF SeatsInit, SeatTable, SeatRow, Statuses, Used, Live, Absent
<1>2. Customers
  BY SeatsAssumption DEF SeatsInit, Customers, IdleVisitor, Visit, Statuses
<1>3. Desk
  BY SeatsAssumption DEF SeatsInit, Desk
<1>4. Replicas
  BY SeatsAssumption DEF SeatsInit, Replicas, IdleScanner, Scan, Statuses, Knows
<1>5. Clock
  <2>1. answered \in [Seats \X (0 .. MaxTime + Period) -> Nat]
    BY DEF SeatsInit
  <2>2. now \in 0 .. MaxTime /\ faults \in 0 .. MaxFaults
    BY SeatsAssumption DEF SeatsInit
  <2>3. taken \in BOOLEAN
    BY Zenon DEF SeatsInit
  <2> QED
    BY <2>1, <2>2, <2>3 DEF Clock
<1> QED
  BY <1>1, <1>2, <1>3, <1>4, <1>5 DEF SInv

LEMMA NextSInv == SInv /\ [SeatsNext]_seatVars => SInv'
<1> SUFFICES ASSUME SInv, [SeatsNext]_seatVars PROVE SInv'
  OBVIOUS
<1>1. CASE UNCHANGED seatVars
  BY <1>1, SeatsKept, CustomersKept, DeskKept, ReplicasKept, ClockKept DEF seatVars, history, SInv
<1>2. ASSUME NEW v \in Visitors,
             FindPending(v) \/ CreateSeat(v) \/ Supersede(v) \/ OpenPage(v) \/ CancelRead(v) \/ CancelWrite(v)
      PROVE  SInv'
  BY <1>2, VisitorSteps, CreateSeatStep, PageSteps, CancelWriteStep
<1>3. ASSUME NEW c \in Scanners, Tick(c) \/ Crash(c) PROVE SInv'
  <2>1. CASE ListDue(c) \/ ReadSeat(c) \/ Claim(c) \/ ListCancelled(c) \/ EndTick(c) \/ Crash(c)
    BY <2>1, FreeSteps, ReadSeatStep, ClaimStep
  <2>2. CASE ChargePaid(c) \/ ChargeDeclined(c) \/ ChargeLost(c) \/ Reactivate(c) \/ MarkPastDue(c)
    BY <2>2, ChargeSteps, WriteSteps
  <2>3. CASE RollBack(c) \/ CloseUnpaid(c) \/ CloseCancelled(c) \/ Revoke(c)
    BY <2>3, RollBackStep, CloseUnpaidStep, CloseCancelledStep, RevokeStep
  <2> QED
    BY <1>3, <2>1, <2>2, <2>3 DEF Tick
<1> QED
  BY <1>1, <1>2, <1>3, ApplySteps, DeskSteps, PassStep DEF SeatsNext

\* Every variable keeps to its type for any number of seats, and a seat that
\* is used has a period whoever wrote it, by its id and without a look at what
\* it had become (cancel, activateWithin, renewOne, markPastDue, releaseDue).
THEOREM SeatsTypes == SeatsSpec => []SeatsTypeOK
<1>1. SInv => SeatsTypeOK
  BY DEF SInv, SeatTable, Customers, Desk, Replicas, Clock, SeatsTypeOK, Scan, Used
<1> QED
  BY <1>1, InitSInv, NextSInv, PTL DEF SeatsSpec

-----------------------------------------------------------------------------
(***************************************************************************)
(* A month is collected once.  A replica that has moved the end of a seat  *)
(* on, and has not yet learnt that its charge went through, holds the      *)
(* month between the two ends: held months lie before the end and apart,   *)
(* and a month that Cardcom answered for lies before the end and outside   *)
(* every held month.  An end that goes back tears this: the roll-back      *)
(* returns the month it holds, but a confirmation that writes the seat it  *)
(* read long before may return a month that was collected.                 *)
(***************************************************************************)
EndsGoOn ==
  \A s \in Seats : seat[s].end # None => seat'[s].end # None /\ seat[s].end <= seat'[s].end

\* No step of the customer, of a confirmation or of the office brings the end
\* of a seat back.
ConfirmationsGoOn == [][scanner' = scanner => EndsGoOn]_seatVars

Holds(c) == scanner[c].pc \in {"charge", "rollback"}

Before(c) == scanner[c].to <= seat[scanner[c].seat].end

Apart(c, d) == scanner[c].to <= scanner[d].from \/ scanner[d].to <= scanner[c].from

MonthsHeld ==
  /\ \A c \in Scanners : Holds(c) => Before(c)
  /\ \A c, d \in Scanners :
       c # d /\ Holds(c) /\ Holds(d) /\ scanner[c].seat = scanner[d].seat => Apart(c, d)

Outside(x, c) == x < scanner[c].from \/ scanner[c].to <= x

MonthsCollected ==
  \A s \in Seats, x \in 0 .. MaxTime + Period :
    /\ answered[<<s, x>>] <= 1
    /\ answered[<<s, x>>] > 0 =>
         /\ seat[s].end # None /\ x < seat[s].end
         /\ \A c \in Scanners : Holds(c) /\ scanner[c].seat = s => Outside(x, c)

MInv == MonthsHeld /\ MonthsCollected

HoldersStay ==
  \A c \in Scanners :
    Holds(c)' => /\ Holds(c)
                 /\ scanner'[c].seat = scanner[c].seat
                 /\ scanner'[c].from = scanner[c].from /\ scanner'[c].to = scanner[c].to

LEMMA HolderKnows ==
  ASSUME SInv, NEW c \in Scanners, Holds(c)
  PROVE  /\ scanner[c].seat \in Seats /\ seat[scanner[c].seat].end \in Nat
         /\ scanner[c].from \in Nat /\ scanner[c].to \in Nat /\ scanner[c].from < scanner[c].to
BY Working DEF Holds

LEMMA EndType == SInv => \A s \in Seats : seat[s].end \in Nat \cup {None}
BY DEF SInv, SeatTable, SeatRow

LEMMA QuietMonths ==
  ASSUME SInv, SInv', MInv, HoldersStay, EndsGoOn, answered' = answered
  PROVE  MInv'
<1>0. ASSUME NEW s \in Seats, seat[s].end # None
      PROVE  /\ seat[s].end \in Nat /\ seat'[s].end \in Nat /\ seat'[s].end # None
             /\ seat[s].end <= seat'[s].end
  <2>1. seat'[s].end \in Nat \cup {None}
    BY DEF SInv, SeatTable, SeatRow
  <2> QED
    BY <1>0, <2>1, EndType DEF EndsGoOn
<1>1. MonthsHeld'
  <2>1. ASSUME NEW c \in Scanners, Holds(c)' PROVE Before(c)'
    <3>1. /\ Holds(c) /\ scanner'[c].seat = scanner[c].seat /\ scanner'[c].to = scanner[c].to
      BY <2>1 DEF HoldersStay
    <3>2. scanner[c].seat \in Seats /\ seat[scanner[c].seat].end \in Nat /\ scanner[c].to \in Nat
      BY <3>1, HolderKnows
    <3>3. scanner[c].to <= seat[scanner[c].seat].end
      BY <3>1 DEF MInv, MonthsHeld, Before
    <3>4. seat'[scanner[c].seat].end \in Nat /\ seat[scanner[c].seat].end <= seat'[scanner[c].seat].end
      BY <1>0, <3>2, SeatsAssumption
    <3> QED
      BY <3>1, <3>2, <3>3, <3>4 DEF Before
  <2>2. ASSUME NEW c \in Scanners, NEW d \in Scanners, c # d, Holds(c)', Holds(d)',
               scanner'[c].seat = scanner'[d].seat
        PROVE  Apart(c, d)'
    BY <2>2 DEF HoldersStay, MInv, MonthsHeld, Apart
  <2> QED
    BY <2>1, <2>2 DEF MonthsHeld
<1>2. MonthsCollected'
  <2> SUFFICES ASSUME NEW s \in Seats, NEW x \in 0 .. MaxTime + Period
               PROVE  /\ answered[<<s, x>>] <= 1
                      /\ answered[<<s, x>>] > 0 =>
                           /\ seat'[s].end # None /\ x < seat'[s].end
                           /\ \A c \in Scanners : Holds(c)' /\ scanner'[c].seat = s => Outside(x, c)'
    BY DEF MonthsCollected
  <2>1. /\ answered[<<s, x>>] <= 1
        /\ answered[<<s, x>>] > 0 =>
             /\ seat[s].end # None /\ x < seat[s].end
             /\ \A c \in Scanners : Holds(c) /\ scanner[c].seat = s => Outside(x, c)
    BY DEF MInv, MonthsCollected
  <2>2. x \in Nat
    BY SeatsAssumption
  <2>3. answered[<<s, x>>] > 0 => seat'[s].end # None /\ x < seat'[s].end
    BY <1>0, <2>1, <2>2
  <2>4. ASSUME NEW c \in Scanners, answered[<<s, x>>] > 0, Holds(c)', scanner'[c].seat = s
        PROVE  Outside(x, c)'
    BY <2>1, <2>4 DEF HoldersStay, Outside
  <2> QED
    BY <2>1, <2>3, <2>4
<1> QED
  BY <1>1, <1>2 DEF MInv

\* Only the replica that moves can come to hold a month.
LEMMA OthersStay ==
  ASSUME SInv, NEW c \in Scanners, NEW r, scanner' = [scanner EXCEPT ![c] = r]
  PROVE  scanner'[c] = r /\ \A d \in Scanners : d # c => scanner'[d] = scanner[d]
BY DEF SInv, Replicas

LEMMA QuietTick ==
  ASSUME SInv, SInv', MInv, NEW c \in Scanners, NEW r, scanner' = [scanner EXCEPT ![c] = r],
         r.pc \notin {"charge", "rollback"}, EndsGoOn, answered' = answered
  PROVE  MInv'
<1>1. HoldersStay
  BY OthersStay DEF HoldersStay, Holds
<1> QED
  BY <1>1, QuietMonths

LEMMA EndsStay ==
  ASSUME SInv, \A s \in Seats : seat'[s].end = seat[s].end
  PROVE  EndsGoOn
BY EndType DEF EndsGoOn

\* A write that keeps the end of the row.
LEMMA StatusWritten ==
  ASSUME SInv, NEW s \in Seats, NEW status \in Statuses, seat' = [seat EXCEPT ![s] = Row(status, seat[s].end)]
  PROVE  EndsGoOn
<1>1. seat[s].end \in Nat \cup {None} /\ now \in 0 .. MaxTime
  BY EndType DEF SInv, Clock
<1>2. Row(status, seat[s].end).end = seat[s].end
  BY <1>1, RowType
<1>3. \A t \in Seats : seat'[t].end = seat[t].end
  BY <1>2 DEF SInv, SeatTable
<1> QED
  BY <1>3, EndsStay

LEMMA QuietReplica ==
  ASSUME SInv, SInv', MInv, NEW c \in Scanners,
         \/ ListDue(c) \/ ReadSeat(c) \/ ListCancelled(c) \/ EndTick(c) \/ Crash(c)
         \/ Reactivate(c) \/ MarkPastDue(c) \/ CloseUnpaid(c) \/ CloseCancelled(c) \/ Revoke(c)
         \/ Claim(c) /\ ~Claimable(c)
  PROVE  MInv'
<1>1. answered' = answered
  BY DEF ListDue, ReadSeat, ListCancelled, EndTick, Crash, Reactivate, MarkPastDue, CloseUnpaid,
         CloseCancelled, Revoke, Claim, history
<1>2. EndsGoOn
  <2>1. CASE seat' = seat
    BY <2>1, EndsStay
  <2>2. CASE Reactivate(c) \/ MarkPastDue(c) \/ CloseUnpaid(c)
    <3>1. scanner[c].seat \in Seats
      BY <2>2, Working DEF Reactivate, MarkPastDue, CloseUnpaid
    <3>2. \/ seat' = seat
          \/ \E status \in {"active", "past_due", "released"} :
               seat' = [seat EXCEPT ![scanner[c].seat] = Row(status, seat[scanner[c].seat].end)]
      BY <2>2 DEF Reactivate, MarkPastDue, CloseUnpaid
    <3> QED
      BY <2>1, <3>1, <3>2, StatusWritten DEF Statuses
  <2>3. CASE CloseCancelled(c)
    <3>1. PICK s \in scanner[c].due :
            seat' = seat \/ seat' = [seat EXCEPT ![s] = Row("released", seat[s].end)]
      BY <2>3 DEF CloseCancelled
    <3>2. s \in Seats
      BY DEF SInv, Replicas, Scan
    <3> QED
      BY <2>1, <3>1, <3>2, StatusWritten DEF Statuses
  <2> QED
    BY <2>1, <2>2, <2>3 DEF ListDue, ReadSeat, ListCancelled, EndTick, Crash, Revoke, Claim
<1>3. PICK r : r.pc \notin {"charge", "rollback"} /\ scanner' = [scanner EXCEPT ![c] = r]
  <2>0. scanner[c] \in Scan
    BY DEF SInv, Replicas
  <2>1. CASE ListDue(c) \/ ListCancelled(c)
    <3>1. PICK pc \in Free, due \in SUBSET Seats :
            scanner' = [scanner EXCEPT ![c] = [IdleScanner EXCEPT !.pc = pc, !.at = now, !.due = due]]
      BY <2>1 DEF ListDue, ListCancelled, Free
    <3>2. now \in 0 .. MaxTime
      BY DEF SInv, Clock
    <3>3. PICK r \in Scan : r.pc = pc /\ scanner' = [scanner EXCEPT ![c] = r]
      BY <3>1, <3>2, FreeScan
    <3> QED
      BY <3>3 DEF Free
  <2>2. CASE EndTick(c) \/ Crash(c)
    BY <2>2, IdleScan DEF EndTick, Crash
  <2>3. CASE \/ Reactivate(c) \/ MarkPastDue(c)
             \/ Claim(c) /\ ~Claimable(c)
    <3>1. scanner' = [scanner EXCEPT ![c] = Resume(c)]
      BY <2>3 DEF Reactivate, MarkPastDue, Claim
    <3> QED
      BY <3>1, ResumeScan
  <2>4. CASE CloseUnpaid(c)
    <3>1. \/ scanner' = [scanner EXCEPT ![c] = Resume(c)]
          \/ scanner' = [scanner EXCEPT ![c] = [scanner[c] EXCEPT !.pc = "revoke"]]
      BY <2>4 DEF CloseUnpaid
    <3>2. [scanner[c] EXCEPT !.pc = "revoke"].pc = "revoke"
      BY <2>0 DEF Scan
    <3> QED
      BY <3>1, <3>2, ResumeScan
  <2>5. CASE Revoke(c)
    <3>1. \/ scanner' = [scanner EXCEPT ![c] = Resume(c)]
          \/ scanner' = [scanner EXCEPT ![c] = [scanner[c] EXCEPT !.pc = "close"]]
      BY <2>5 DEF Revoke
    <3>2. [scanner[c] EXCEPT !.pc = "close"].pc = "close"
      BY <2>0 DEF Scan
    <3> QED
      BY <3>1, <3>2, ResumeScan
  <2>6. CASE CloseCancelled(c)
    <3>1. PICK s \in scanner[c].due :
            \/ scanner' = [scanner EXCEPT ![c] = [scanner[c] EXCEPT !.pc = "revoke", !.due = @ \ {s}]]
            \/ scanner' = [scanner EXCEPT ![c] = [scanner[c] EXCEPT !.due = @ \ {s}]]
      BY <2>6 DEF CloseCancelled
    <3>2. /\ [scanner[c] EXCEPT !.pc = "revoke", !.due = @ \ {s}].pc = "revoke"
          /\ [scanner[c] EXCEPT !.due = @ \ {s}].pc = "close"
      BY <2>0, <2>6 DEF Scan, CloseCancelled
    <3> QED
      BY <3>1, <3>2
  <2>7. CASE ReadSeat(c)
    <3>1. PICK s \in scanner[c].due :
            \/ scanner' = [scanner EXCEPT ![c] = [scanner[c] EXCEPT !.due = @ \ {s}]]
            \/ \E pc \in {"unpaid", "claim", "mark"} :
                 scanner' = [scanner EXCEPT ![c] =
                   [pc |-> pc, at |-> scanner[c].at, due |-> scanner[c].due \ {s}, seat |-> s,
                    status |-> seat[s].status, from |-> seat[s].end,
                    to |-> NextPeriodEnd(seat[s].end, scanner[c].at)]]
      BY <2>7 DEF ReadSeat
    <3>2. [scanner[c] EXCEPT !.due = @ \ {s}].pc = "renew"
      BY <2>0, <2>7 DEF Scan, ReadSeat
    <3> QED
      BY <3>1, <3>2
  <2> QED
    BY <2>1, <2>2, <2>3, <2>4, <2>5, <2>6, <2>7
<1> QED
  BY <1>1, <1>2, <1>3, QuietTick

LEMMA HeldOn ==
  ASSUME SInv, SInv', MInv, NEW c \in Scanners, ChargeDeclined(c) \/ ChargeLost(c)
  PROVE  MInv'
<1>1. /\ answered' = answered /\ seat' = seat /\ Holds(c)
      /\ scanner' = [scanner EXCEPT ![c] = [scanner[c] EXCEPT !.pc = "rollback"]]
  BY DEF ChargeDeclined, ChargeLost, history, Holds
<1>2. HoldersStay
  <2>1. /\ [scanner[c] EXCEPT !.pc = "rollback"].seat = scanner[c].seat
        /\ [scanner[c] EXCEPT !.pc = "rollback"].from = scanner[c].from
        /\ [scanner[c] EXCEPT !.pc = "rollback"].to = scanner[c].to
    BY DEF SInv, Replicas, Scan
  <2> QED
    BY <1>1, <2>1, OthersStay DEF HoldersStay, Holds
<1> QED
  BY <1>1, <1>2, EndsStay, QuietMonths

\* The replica claims the month after the end: what others hold and what was
\* collected lies before it.
LEMMA ClaimHolds ==
  ASSUME SInv, SInv', MInv, NEW c \in Scanners, Claim(c), Claimable(c)
  PROVE  MInv'
<1> DEFINE s    == scanner[c].seat
           from == scanner[c].from
           to   == scanner[c].to
<1>1. /\ s \in Seats /\ from \in Nat /\ to \in Nat /\ from < to
      /\ scanner[c].pc = "claim" /\ scanner[c] \in Scan /\ seat[s].end = from
      /\ seat[s].status \in Statuses /\ from # None /\ to # None /\ now \in 0 .. MaxTime
  BY Working, SeatsAssumption DEF Claim, Claimable, SInv, Replicas, Clock
<1>2. /\ seat' = [seat EXCEPT ![s] = Row(seat[s].status, to)]
      /\ scanner' = [scanner EXCEPT ![c] = [scanner[c] EXCEPT !.pc = "charge"]]
      /\ answered' = answered
  BY DEF Claim, history
<1>3. seat'[s].end = to /\ \A t \in Seats : t # s => seat'[t] = seat[t]
  <2>1. Row(seat[s].status, to).end = to
    BY <1>1, RowType
  <2> QED
    BY <1>1, <1>2, <2>1 DEF SInv, SeatTable
<1>4. /\ scanner'[c].seat = s /\ scanner'[c].from = from /\ scanner'[c].to = to
      /\ \A d \in Scanners : d # c => scanner'[d] = scanner[d]
  <2>1. /\ [scanner[c] EXCEPT !.pc = "charge"].seat = s
        /\ [scanner[c] EXCEPT !.pc = "charge"].from = from
        /\ [scanner[c] EXCEPT !.pc = "charge"].to = to
    BY <1>1 DEF Scan
  <2> QED
    BY <1>2, <2>1, OthersStay
<1>5. ASSUME NEW d \in Scanners, d # c, Holds(d), scanner[d].seat = s
      PROVE  scanner[d].to \in Nat /\ scanner[d].to <= from
  BY <1>1, <1>5, HolderKnows DEF MInv, MonthsHeld, Before
<1>6. MonthsHeld'
  <2>1. ASSUME NEW d \in Scanners, Holds(d)' PROVE Before(d)'
    <3>1. CASE d = c
      BY <1>1, <1>3, <1>4, <3>1 DEF Before
    <3>2. CASE d # c
      <4>1. Holds(d) /\ scanner'[d] = scanner[d] /\ Before(d)
        BY <1>4, <2>1, <3>2 DEF Holds, MInv, MonthsHeld
      <4>2. scanner[d].seat \in Seats /\ scanner[d].to \in Nat
        BY <4>1, HolderKnows
      <4>3. CASE scanner[d].seat = s
        <5>1. scanner[d].to <= from
          BY <1>5, <3>2, <4>1, <4>3
        <5> QED
          BY <1>1, <1>3, <4>1, <4>2, <4>3, <5>1 DEF Before
      <4>4. CASE scanner[d].seat # s
        BY <1>3, <4>1, <4>2, <4>4 DEF Before
      <4> QED
        BY <4>3, <4>4
    <3> QED
      BY <3>1, <3>2
  <2>2. ASSUME NEW d \in Scanners, NEW e \in Scanners, d # e, Holds(d)', Holds(e)',
               scanner'[d].seat = scanner'[e].seat
        PROVE  Apart(d, e)'
    <3>1. CASE d = c
      <4>1. Holds(e) /\ scanner'[e] = scanner[e] /\ scanner[e].seat = s
        BY <1>4, <2>2, <3>1 DEF Holds
      <4> QED
        BY <1>4, <1>5, <2>2, <3>1, <4>1 DEF Apart
    <3>2. CASE e = c
      <4>1. Holds(d) /\ scanner'[d] = scanner[d] /\ scanner[d].seat = s
        BY <1>4, <2>2, <3>2 DEF Holds
      <4> QED
        BY <1>4, <1>5, <2>2, <3>2, <4>1 DEF Apart
    <3>3. CASE d # c /\ e # c
      BY <1>4, <2>2, <3>3 DEF Holds, Apart, MInv, MonthsHeld
    <3> QED
      BY <3>1, <3>2, <3>3
  <2> QED
    BY <2>1, <2>2 DEF MonthsHeld
<1>7. MonthsCollected'
  <2> SUFFICES ASSUME NEW t \in Seats, NEW x \in 0 .. MaxTime + Period
               PROVE  /\ answered[<<t, x>>] <= 1
                      /\ answered[<<t, x>>] > 0 =>
                           /\ seat'[t].end # None /\ x < seat'[t].end
                           /\ \A d \in Scanners : Holds(d)' /\ scanner'[d].seat = t => Outside(x, d)'
    BY <1>2 DEF MonthsCollected
  <2>1. /\ answered[<<t, x>>] <= 1
        /\ answered[<<t, x>>] > 0 =>
             /\ seat[t].end # None /\ x < seat[t].end
             /\ \A d \in Scanners : Holds(d) /\ scanner[d].seat = t => Outside(x, d)
    BY DEF MInv, MonthsCollected
  <2>2. x \in Nat
    BY SeatsAssumption
  <2>3. answered[<<t, x>>] > 0 => seat'[t].end # None /\ x < seat'[t].end
    <3>1. CASE t = s
      BY <1>1, <1>3, <2>1, <2>2, <3>1
    <3>2. CASE t # s
      BY <1>3, <2>1, <3>2
    <3> QED
      BY <3>1, <3>2
  <2>4. ASSUME NEW d \in Scanners, answered[<<t, x>>] > 0, Holds(d)', scanner'[d].seat = t
        PROVE  Outside(x, d)'
    <3>1. CASE d = c
      BY <1>1, <1>4, <2>1, <2>4, <3>1 DEF Outside
    <3>2. CASE d # c
      BY <1>4, <2>1, <2>4, <3>2 DEF Outside, Holds
    <3> QED
      BY <3>1, <3>2
  <2> QED
    BY <2>1, <2>3, <2>4
<1> QED
  BY <1>6, <1>7 DEF MInv

\* Cardcom answers for the first day of a month the replica holds: nobody had
\* collected it, and the replica lets go of it.
LEMMA ChargeCollects ==
  ASSUME SInv, SInv', MInv, NEW c \in Scanners, ChargePaid(c)
  PROVE  MInv'
<1> DEFINE s    == scanner[c].seat
           from == scanner[c].from
           to   == scanner[c].to
<1>1. /\ s \in Seats /\ from \in Nat /\ to \in Nat /\ from < to
      /\ Holds(c) /\ scanner[c] \in Scan /\ seat[s].end \in Nat /\ to <= seat[s].end
  BY HolderKnows DEF ChargePaid, Holds, SInv, Replicas, MInv, MonthsHeld, Before
<1>2. /\ seat' = seat
      /\ answered' = [answered EXCEPT ![<<s, from>>] = answered[<<s, from>>] + 1]
  BY DEF ChargePaid
<1>3. PICK r : r.pc \notin {"charge", "rollback"} /\ scanner' = [scanner EXCEPT ![c] = r]
  <2>1. \/ scanner' = [scanner EXCEPT ![c] = Resume(c)]
        \/ scanner' = [scanner EXCEPT ![c] = [scanner[c] EXCEPT !.pc = "reactivate"]]
    BY DEF ChargePaid
  <2>2. CASE scanner' = [scanner EXCEPT ![c] = Resume(c)]
    BY <2>2, ResumeScan
  <2>3. CASE scanner' = [scanner EXCEPT ![c] = [scanner[c] EXCEPT !.pc = "reactivate"]]
    <3>1. [scanner[c] EXCEPT !.pc = "reactivate"].pc = "reactivate"
      BY <1>1 DEF Scan
    <3> QED
      BY <2>3, <3>1
  <2> QED
    BY <2>1, <2>2, <2>3
<1>4. /\ ~Holds(c)'
      /\ \A d \in Scanners : d # c => scanner'[d] = scanner[d]
  BY <1>3, OthersStay DEF Holds
<1>5. MonthsHeld'
  <2>1. \A d \in Scanners : Holds(d)' => Before(d)'
    BY <1>2, <1>4 DEF Holds, Before, MInv, MonthsHeld
  <2>2. \A d, e \in Scanners :
          d # e /\ Holds(d)' /\ Holds(e)' /\ scanner'[d].seat = scanner'[e].seat => Apart(d, e)'
    BY <1>4 DEF Holds, Apart, MInv, MonthsHeld
  <2> QED
    BY <2>1, <2>2 DEF MonthsHeld
<1>6. MonthsCollected'
  <2> SUFFICES ASSUME NEW t \in Seats, NEW x \in 0 .. MaxTime + Period
               PROVE  /\ answered'[<<t, x>>] <= 1
                      /\ answered'[<<t, x>>] > 0 =>
                           /\ seat'[t].end # None /\ x < seat'[t].end
                           /\ \A d \in Scanners : Holds(d)' /\ scanner'[d].seat = t => Outside(x, d)'
    BY DEF MonthsCollected
  <2>1. /\ answered[<<t, x>>] <= 1
        /\ answered[<<t, x>>] > 0 =>
             /\ seat[t].end # None /\ x < seat[t].end
             /\ \A d \in Scanners : Holds(d) /\ scanner[d].seat = t => Outside(x, d)
    BY DEF MInv, MonthsCollected
  <2>2. x \in Nat /\ <<t, x>> \in Seats \X (0 .. MaxTime + Period) /\ answered[<<t, x>>] \in Nat
    BY SeatsAssumption DEF SInv, Clock
  <2>3. CASE t = s /\ x = from
    <3>1. answered[<<t, x>>] = 0
      <4>1. ~Outside(x, c)
        BY <1>1, <2>3 DEF Outside
      <4>2. ~(answered[<<t, x>>] > 0)
        BY <1>1, <2>1, <2>3, <4>1
      <4> QED
        BY <2>2, <4>2
    <3>2. answered'[<<t, x>>] = 1
      BY <1>2, <2>2, <2>3, <3>1 DEF SInv, Clock
    <3>3. seat'[t].end # None /\ x < seat'[t].end
      BY <1>1, <1>2, <2>3, SeatsAssumption
    <3>4. ASSUME NEW d \in Scanners, Holds(d)', scanner'[d].seat = t PROVE Outside(x, d)'
      <4>1. d # c /\ Holds(d) /\ scanner'[d] = scanner[d] /\ scanner[d].seat = s
        BY <1>4, <2>3, <3>4 DEF Holds
      <4>2. Apart(c, d)
        BY <1>1, <4>1 DEF MInv, MonthsHeld
      <4>3. scanner[d].from \in Nat /\ scanner[d].to \in Nat
        BY <4>1, HolderKnows
      <4> QED
        BY <1>1, <2>3, <4>1, <4>2, <4>3 DEF Apart, Outside
    <3> QED
      BY <3>2, <3>3, <3>4
  <2>4. CASE ~(t = s /\ x = from)
    <3>1. answered'[<<t, x>>] = answered[<<t, x>>]
      BY <1>2, <2>2, <2>4 DEF SInv, Clock
    <3>2. ASSUME NEW d \in Scanners, answered[<<t, x>>] > 0, Holds(d)', scanner'[d].seat = t
          PROVE  Outside(x, d)'
      BY <1>4, <2>1, <3>2 DEF Holds, Outside
    <3> QED
      BY <1>2, <2>1, <3>1, <3>2
  <2> QED
    BY <2>3, <2>4
<1> QED
  BY <1>5, <1>6 DEF MInv

\* The replica returns the month it holds, if that is the last one: what is
\* collected and what others hold lies before it.
LEMMA RollBackReturns ==
  ASSUME SInv, SInv', MInv, NEW c \in Scanners, RollBack(c)
  PROVE  MInv'
<1> DEFINE s    == scanner[c].seat
           from == scanner[c].from
           to   == scanner[c].to
<1>1. /\ s \in Seats /\ from \in Nat /\ to \in Nat /\ from < to
      /\ Holds(c) /\ scanner[c] \in Scan /\ from # None /\ now \in 0 .. MaxTime
      /\ seat[s].end \in Nat /\ seat[s].status \in Statuses
  BY HolderKnows, Working, SeatsAssumption DEF RollBack, Holds, SInv, Replicas, Clock
<1>2. /\ scanner' = [scanner EXCEPT ![c] = [scanner[c] EXCEPT !.pc = "mark"]]
      /\ answered' = answered
  BY DEF RollBack, history
<1>3. PICK r : r.pc = "mark" /\ scanner' = [scanner EXCEPT ![c] = r]
  <2>1. [scanner[c] EXCEPT !.pc = "mark"].pc = "mark"
    BY <1>1 DEF Scan
  <2> QED
    BY <1>2, <2>1
<1>4. CASE seat[s].end # to
  <2>1. EndsGoOn
    BY <1>4, EndsStay DEF RollBack
  <2> QED
    BY <1>2, <1>3, <2>1, QuietTick
<1>5. CASE seat[s].end = to
  <2>1. seat'[s].end = from /\ \A t \in Seats : t # s => seat'[t] = seat[t]
    <3>1. Row(seat[s].status, from).end = from
      BY <1>1, RowType
    <3> QED
      BY <1>1, <1>5, <3>1 DEF RollBack, SInv, SeatTable
  <2>2. /\ ~Holds(c)'
        /\ \A d \in Scanners : d # c => scanner'[d] = scanner[d]
    BY <1>3, OthersStay DEF Holds
  <2>3. ASSUME NEW d \in Scanners, d # c, Holds(d), scanner[d].seat = s
        PROVE  scanner[d].to \in Nat /\ scanner[d].to <= from
    <3>1. Apart(c, d) /\ Before(d)
      BY <1>1, <2>3 DEF MInv, MonthsHeld
    <3>2. scanner[d].from \in Nat /\ scanner[d].to \in Nat /\ scanner[d].from < scanner[d].to
      BY <2>3, HolderKnows
    <3> QED
      BY <1>1, <1>5, <2>3, <3>1, <3>2 DEF Apart, Before
  <2>4. MonthsHeld'
    <3>1. ASSUME NEW d \in Scanners, Holds(d)' PROVE Before(d)'
      <4>1. d # c /\ Holds(d) /\ scanner'[d] = scanner[d] /\ Before(d)
        BY <2>2, <3>1 DEF Holds, MInv, MonthsHeld
      <4>2. scanner[d].seat \in Seats
        BY <4>1, HolderKnows
      <4>3. CASE scanner[d].seat = s
        BY <2>1, <2>3, <4>1, <4>3 DEF Before
      <4>4. CASE scanner[d].seat # s
        BY <2>1, <4>1, <4>2, <4>4 DEF Before
      <4> QED
        BY <4>3, <4>4
    <3>2. \A d, e \in Scanners :
            d # e /\ Holds(d)' /\ Holds(e)' /\ scanner'[d].seat = scanner'[e].seat => Apart(d, e)'
      BY <2>2 DEF Holds, Apart, MInv, MonthsHeld
    <3> QED
      BY <3>1, <3>2 DEF MonthsHeld
  <2>5. MonthsCollected'
    <3> SUFFICES ASSUME NEW t \in Seats, NEW x \in 0 .. MaxTime + Period
                 PROVE  /\ answered[<<t, x>>] <= 1
                        /\ answered[<<t, x>>] > 0 =>
                             /\ seat'[t].end # None /\ x < seat'[t].end
                             /\ \A d \in Scanners : Holds(d)' /\ scanner'[d].seat = t => Outside(x, d)'
      BY <1>2 DEF MonthsCollected
    <3>1. /\ answered[<<t, x>>] <= 1
          /\ answered[<<t, x>>] > 0 =>
               /\ seat[t].end # None /\ x < seat[t].end
               /\ \A d \in Scanners : Holds(d) /\ scanner[d].seat = t => Outside(x, d)
      BY DEF MInv, MonthsCollected
    <3>2. x \in Nat
      BY SeatsAssumption
    <3>3. answered[<<t, x>>] > 0 => seat'[t].end # None /\ x < seat'[t].end
      <4>1. CASE t = s
        <5>1. answered[<<t, x>>] > 0 => Outside(x, c) /\ x < to
          BY <1>1, <1>5, <3>1, <4>1
        <5>2. answered[<<t, x>>] > 0 => x < from
          BY <1>1, <3>2, <5>1 DEF Outside
        <5> QED
          BY <1>1, <2>1, <4>1, <5>2
      <4>2. CASE t # s
        BY <2>1, <3>1, <4>2
      <4> QED
        BY <4>1, <4>2
    <3>4. ASSUME NEW d \in Scanners, answered[<<t, x>>] > 0, Holds(d)', scanner'[d].seat = t
          PROVE  Outside(x, d)'
      BY <2>2, <3>1, <3>4 DEF Holds, Outside
    <3> QED
      BY <3>1, <3>3, <3>4
  <2> QED
    BY <2>4, <2>5 DEF MInv
<1> QED
  BY <1>4, <1>5

LEMMA InitMInv == SeatsInit => MInv
<1> SUFFICES ASSUME SeatsInit PROVE MInv
  OBVIOUS
<1>1. \A c \in Scanners : ~Holds(c)
  BY DEF SeatsInit, Holds, IdleScanner
<1>2. \A s \in Seats, x \in 0 .. MaxTime + Period : answered[<<s, x>>] = 0
  BY DEF SeatsInit
<1> QED
  BY <1>1, <1>2 DEF MInv, MonthsHeld, MonthsCollected

LEMMA NextMInv ==
  ASSUME SInv, SInv', MInv, [SeatsNext]_seatVars, [scanner' = scanner => EndsGoOn]_seatVars
  PROVE  MInv'
<1>0. CASE UNCHANGED seatVars
  <2>1. UNCHANGED <<answered, scanner, seat>>
    BY <1>0 DEF seatVars, history
  <2> QED
    BY <2>1, EndsStay, QuietMonths DEF HoldersStay, Holds
<1>1. CASE scanner' = scanner /\ answered' = answered /\ ~UNCHANGED seatVars
  BY <1>1, QuietMonths DEF HoldersStay, Holds
<1>2. ASSUME NEW c \in Scanners, Tick(c) \/ Crash(c)
      PROVE  MInv'
  <2>1. CASE ListDue(c) \/ ReadSeat(c) \/ ListCancelled(c) \/ EndTick(c) \/ Crash(c)
    BY <2>1, QuietReplica
  <2>2. CASE Reactivate(c) \/ MarkPastDue(c) \/ CloseUnpaid(c) \/ CloseCancelled(c) \/ Revoke(c)
    BY <2>2, QuietReplica
  <2>3. CASE Claim(c)
    <3>1. CASE Claimable(c)
      BY <2>3, <3>1, ClaimHolds
    <3>2. CASE ~Claimable(c)
      BY <2>3, <3>2, QuietReplica
    <3> QED
      BY <3>1, <3>2
  <2>4. CASE ChargePaid(c) \/ ChargeDeclined(c) \/ ChargeLost(c) \/ RollBack(c)
    BY <2>4, ChargeCollects, HeldOn, RollBackReturns
  <2> QED
    BY <1>2, <2>1, <2>2, <2>3, <2>4 DEF Tick
<1>3. ASSUME NEW v \in Visitors,
             FindPending(v) \/ CreateSeat(v) \/ Supersede(v) \/ OpenPage(v) \/ CancelRead(v) \/ CancelWrite(v)
      PROVE  scanner' = scanner /\ answered' = answered
  BY <1>3 DEF FindPending, CreateSeat, Supersede, OpenPage, CancelRead, CancelWrite, history
<1>4. ASSUME NEW p \in Payments, ClaimPayment(p) \/ Activate(p)
      PROVE  scanner' = scanner /\ answered' = answered
  BY <1>4 DEF ClaimPayment, Activate, history
<1>5. ASSUME \/ \E a \in Agents : GrantLock(a)
             \/ \E u \in Agents \cup {Owner} : Withdraw(u)
             \/ GrantCommit \/ CheckExtra \/ WriteExtra \/ Pass
      PROVE  scanner' = scanner /\ answered' = answered
  BY <1>5 DEF GrantLock, Withdraw, GrantCommit, CheckExtra, WriteExtra, Pass, history
<1> QED
  BY <1>0, <1>1, <1>2, <1>3, <1>4, <1>5 DEF SeatsNext

\* Any number of replicas that retry the same seats never collect one month
\* of a seat twice, as far as Cardcom answers (renewOne), as long as no
\* confirmation brings the end of a seat back (activateWithin writes the seat
\* it read before).
THEOREM MonthsCollectedOnce == SeatsSpec /\ ConfirmationsGoOn => []MonthCollectedOnce
<1>1. MInv /\ SInv => MonthCollectedOnce
  <2> SUFFICES ASSUME MInv, SInv, NEW x \in DOMAIN answered PROVE answered[x] <= 1
    BY DEF MonthCollectedOnce
  <2>1. x \in Seats \X (0 .. MaxTime + Period)
    BY DEF SInv, Clock
  <2> QED
    BY <2>1 DEF MInv, MonthsCollected
<1>2. SeatsInit => SInv /\ MInv
  BY InitSInv, InitMInv
<1>3. SInv /\ MInv /\ [SeatsNext]_seatVars /\ [scanner' = scanner => EndsGoOn]_seatVars => SInv' /\ MInv'
  BY NextSInv, NextMInv
<1> QED
  BY <1>1, <1>2, <1>3, PTL DEF SeatsSpec, ConfirmationsGoOn

-----------------------------------------------------------------------------
(***************************************************************************)
(* Who works on a seat.  The quota goes down by itself, when the hour of a *)
(* cancelled seat comes; the number of seats in use does not, and bounds   *)
(* the holders, the one about to be added included, until a replica that   *)
(* has taken a seat away is on its way to take the assistant away too.     *)
(***************************************************************************)
UsedSeats == {s \in Seats : seat[s].status \in Used}

Seated == holders \cup ({giving} \ {None})

Covered == Cardinality(Seated) <= 1 + granted + Cardinality(UsedSeats)

Revoking == \E c \in Scanners : scanner[c].pc = "revoke"

HInv == taken \/ Revoking \/ Covered

\* The seats that count for the quota.
PaidNow ==
  {s \in Seats : \/ seat[s].status \in Live
                 \/ seat[s].status = "cancelled" /\ seat[s].end > now}

LEMMA SeatsCounted ==
  ASSUME SInv
  PROVE  /\ IsFiniteSet(UsedSeats) /\ Cardinality(UsedSeats) \in Nat
         /\ IsFiniteSet(PaidNow) /\ PaidSeats = Cardinality(PaidNow) /\ PaidSeats \in Nat
         /\ PaidSeats <= Cardinality(UsedSeats)
         /\ PaidSeats = Cardinality(UsedSeats) => PaidNow = UsedSeats
<1>1. UsedSeats \subseteq Seats /\ PaidNow \subseteq UsedSeats
  BY DEF UsedSeats, PaidNow, Used
<1>2. IsFiniteSet(UsedSeats) /\ IsFiniteSet(PaidNow)
  BY <1>1, FS_Subset, SeatsAssumption
<1>3. PaidSeats = Cardinality(PaidNow)
  BY DEF PaidSeats, PaidNow
<1> QED
  BY <1>1, <1>2, <1>3, FS_Subset, FS_CardinalityType

LEMMA SeatedFinite ==
  SInv => IsFiniteSet(holders) /\ IsFiniteSet(Seated) /\ Cardinality(holders) \in Nat
          /\ Cardinality(Seated) \in Nat /\ Cardinality(holders) <= Cardinality(Seated)
<1> SUFFICES ASSUME SInv PROVE /\ IsFiniteSet(holders) /\ IsFiniteSet(Seated)
                               /\ Cardinality(holders) \in Nat /\ Cardinality(Seated) \in Nat
                               /\ Cardinality(holders) <= Cardinality(Seated)
  OBVIOUS
<1>1. IsFiniteSet(Agents \cup {Owner})
  BY SeatsAssumption, FS_AddElement
<1>2. holders \subseteq Seated /\ Seated \subseteq Agents \cup {Owner}
  BY DEF SInv, Desk, Seated
<1>3. IsFiniteSet(Seated) /\ IsFiniteSet(holders)
  BY <1>1, <1>2, FS_Subset
<1> QED
  BY <1>2, <1>3, FS_Subset, FS_CardinalityType

LEMMA QuotaBounds ==
  ASSUME SInv, NEW extra \in 0 .. MaxGranted
  PROVE  Quota(extra) \in Nat /\ Quota(extra) >= 1 /\ Quota(extra) <= 1 + extra + Cardinality(UsedSeats)
<1>1. extra \in Nat
  BY SeatsAssumption
<1> QED
  BY <1>1, SeatsCounted DEF Quota

\* Nobody is added, and no seat goes out of use.
LEMMA StaysCovered ==
  ASSUME SInv, SInv', Covered, Seated' \subseteq Seated, granted' = granted, UsedSeats \subseteq UsedSeats'
  PROVE  Covered'
<1>1. Cardinality(Seated') <= Cardinality(Seated) /\ Cardinality(Seated') \in Nat
  BY SeatedFinite, FS_Subset, FS_CardinalityType
<1>2. /\ Cardinality(UsedSeats') \in Nat
      /\ Cardinality(UsedSeats) <= Cardinality(UsedSeats')
  <2>1. IsFiniteSet(UsedSeats')
    <3>1. UsedSeats' \subseteq Seats
      BY DEF UsedSeats
    <3> QED
      BY <3>1, FS_Subset, SeatsAssumption
  <2> QED
    BY <2>1, FS_Subset, FS_CardinalityType
<1>3. granted \in Nat /\ Cardinality(UsedSeats) \in Nat /\ Cardinality(Seated) \in Nat
  BY SeatsCounted, SeatedFinite, SeatsAssumption DEF SInv, Desk
<1> QED
  BY <1>1, <1>2, <1>3 DEF Covered

\* A step that leaves the desk alone, or frees a place at it.
LEMMA QuietSeats ==
  ASSUME SInv, SInv', HInv, taken => taken', Revoking => Revoking' \/ taken', Seated' \subseteq Seated,
         granted' = granted, UsedSeats \subseteq UsedSeats'
  PROVE  HInv'
<1>1. CASE taken
  BY <1>1, Zenon DEF HInv
<1>2. CASE Revoking
  BY <1>2, Zenon DEF HInv
<1>3. CASE Covered
  BY <1>3, StaysCovered, Zenon DEF HInv
<1> QED
  BY <1>1, <1>2, <1>3, Zenon DEF HInv

\* Who leaves a replica that is to take the assistant away.
LEMMA RevokingStays ==
  ASSUME SInv, NEW c \in Scanners, NEW r, scanner' = [scanner EXCEPT ![c] = r], scanner[c].pc # "revoke"
  PROVE  Revoking => Revoking'
BY OthersStay DEF Revoking

\* A write that leaves the seat in use, or finds it out of use.
LEMMA SeatsInUse ==
  ASSUME SInv, NEW s \in Seats, NEW row, seat' = [seat EXCEPT ![s] = row],
         row.status \in Used \/ seat[s].status \notin Used
  PROVE  UsedSeats \subseteq UsedSeats'
BY DEF UsedSeats, SInv, SeatTable

LEMMA CustomerSeats ==
  ASSUME SInv, SInv', HInv,
         \/ \E v \in Visitors : FindPending(v) \/ CreateSeat(v) \/ Supersede(v) \/ OpenPage(v)
                                 \/ CancelRead(v) \/ CancelWrite(v)
         \/ \E p \in Payments : ClaimPayment(p) \/ Activate(p)
  PROVE  HInv'
<1>1. UNCHANGED <<desk, holders, scanner>>
  BY DEF FindPending, CreateSeat, Supersede, OpenPage, CancelRead, CancelWrite, ClaimPayment, Activate
<1>2. now \in 0 .. MaxTime
  BY DEF SInv, Clock
<1>3. Revoking => Revoking'
  BY <1>1 DEF Revoking
<1>4. Seated' = Seated /\ granted' = granted
  BY <1>1 DEF Seated, desk
<1>5. CASE seat' = seat /\ taken' = taken
  <2>1. UsedSeats' = UsedSeats
    BY <1>5 DEF UsedSeats
  <2> QED
    BY <1>3, <1>4, <1>5, <2>1, QuietSeats
<1>6. ASSUME NEW v \in Visitors, CreateSeat(v) PROVE HInv'
  <2>1. PICK s \in Seats : seat[s].status = "absent" /\ seat' = [seat EXCEPT ![s] = Row("pending", None)]
    BY <1>6 DEF CreateSeat
  <2>2. UsedSeats \subseteq UsedSeats'
    BY <2>1, SeatsInUse DEF Used, Live
  <2>3. taken' = taken
    BY <1>6 DEF CreateSeat, history
  <2> QED
    BY <1>3, <1>4, <2>2, <2>3, QuietSeats
<1>7. ASSUME NEW v \in Visitors, CancelWrite(v) PROVE HInv'
  <2> DEFINE s == visitor[v].seat
             status == CancelledAs(visitor[v].status)
  <2>1. /\ s \in Seats /\ seat' = [seat EXCEPT ![s] = Row(status, seat[s].end)]
        /\ visitor[v].status \in Live \cup {"pending"}
    BY <1>7 DEF CancelWrite, SInv, Customers
  <2>2. taken' = (taken \/ (visitor[v].status = "pending" /\ seat[s].status # "pending"))
    BY <1>7 DEF CancelWrite
  <2>3. CASE visitor[v].status = "pending" /\ seat[s].status # "pending"
    BY <2>2, <2>3, Zenon DEF HInv
  <2>4. CASE ~(visitor[v].status = "pending" /\ seat[s].status # "pending")
    <3>1. taken => taken'
      BY <2>2, Zenon
    <3>2. seat[s].end \in Nat \cup {None} /\ status \in Statuses
      BY <2>1, EndType DEF CancelledAs, Statuses
    <3>3. Row(status, seat[s].end).status = status
      BY <1>2, <3>2, RowType
    <3>4. status \in Used \/ seat[s].status \notin Used
      BY <2>1, <2>4 DEF CancelledAs, Used, Live
    <3>5. UsedSeats \subseteq UsedSeats'
      BY <2>1, <3>3, <3>4, SeatsInUse
    <3> QED
      BY <1>3, <1>4, <3>1, <3>5, QuietSeats
  <2> QED
    BY <2>3, <2>4
<1>8. ASSUME NEW p \in Payments, Activate(p) PROVE HInv'
  <2> DEFINE s == payment[p].seat
             end == NextPeriodEnd(confirm[p].end, now)
  <2>1. taken' = taken
    BY <1>8 DEF Activate, history
  <2>2. CASE seat' = seat
    BY <1>5, <2>1, <2>2
  <2>3. CASE seat' = [seat EXCEPT ![s] = Row("active", end)]
    <3>1. s \in Seats /\ confirm[p] \in SeatRow
      BY <1>8 DEF Activate, SInv, Customers
    <3>2. confirm[p].end \in Nat \cup {None} /\ now \in Nat
      BY <1>2, <3>1, SeatsAssumption DEF SeatRow
    <3>3. end \in Nat
      BY <3>2, NextPeriodEndType
    <3>4. Row("active", end).status = "active"
      BY <1>2, <3>3, RowType DEF Statuses
    <3>5. UsedSeats \subseteq UsedSeats'
      BY <2>3, <3>1, <3>4, SeatsInUse DEF Used, Live
    <3> QED
      BY <1>3, <1>4, <2>1, <3>5, QuietSeats
  <2> QED
    BY <1>8, <2>2, <2>3 DEF Activate
<1>9. ASSUME NEW v \in Visitors, FindPending(v) \/ Supersede(v) \/ OpenPage(v) \/ CancelRead(v)
      PROVE  HInv'
  BY <1>5, <1>9 DEF FindPending, Supersede, OpenPage, CancelRead, history
<1>10. ASSUME NEW p \in Payments, ClaimPayment(p) PROVE HInv'
  BY <1>5, <1>10 DEF ClaimPayment, history
<1> QED
  BY <1>6, <1>7, <1>8, <1>9, <1>10

\* A grant queues at the lock and finds a place; the platform's write is
\* counted as one nothing guards when it leaves too few.
LEMMA DeskSeats ==
  ASSUME SInv, SInv', HInv,
         \/ \E a \in Agents : GrantLock(a)
         \/ \E u \in Agents \cup {Owner} : Withdraw(u)
         \/ GrantCommit \/ CheckExtra \/ WriteExtra \/ Pass
  PROVE  HInv'
<1>1. UNCHANGED <<seat, scanner>>
  BY DEF GrantLock, Withdraw, GrantCommit, CheckExtra, WriteExtra, Pass
<1>2. UsedSeats' = UsedSeats /\ Revoking' = Revoking
  BY <1>1 DEF UsedSeats, Revoking
<1>3. ASSUME NEW a \in Agents, GrantLock(a) PROVE HInv'
  <2>1. Seated = holders /\ Seated' = holders \cup {a} /\ granted' = granted /\ a \notin holders
    BY <1>3, SeatsAssumption DEF GrantLock, LockFree, Seated
  <2>2. Cardinality(holders) \in Nat /\ Cardinality(Seated') = Cardinality(holders) + 1
    BY <2>1, SeatedFinite, FS_AddElement
  <2>3. Cardinality(holders) < Quota(granted)
    BY <1>3 DEF GrantLock
  <2>4. granted \in 0 .. MaxGranted
    BY DEF SInv, Desk
  <2>5. /\ Quota(granted) \in Nat /\ Quota(granted) <= 1 + granted + Cardinality(UsedSeats)
        /\ Cardinality(UsedSeats) \in Nat /\ granted \in Nat
    BY <2>4, QuotaBounds, SeatsCounted, SeatsAssumption
  <2>6. Covered'
    BY <1>2, <2>1, <2>2, <2>3, <2>5 DEF Covered
  <2> QED
    BY <2>6, Zenon DEF HInv
<1>4. CASE \/ \E u \in Agents \cup {Owner} : Withdraw(u)
           \/ GrantCommit \/ CheckExtra \/ Pass
  <2>1. Seated' \subseteq Seated /\ granted' = granted /\ taken' = taken
    BY <1>4, SeatsAssumption
       DEF Withdraw, GrantCommit, CheckExtra, Pass, LockFree, Seated, desk, history, SInv, Desk
  <2> QED
    BY <1>2, <2>1, QuietSeats
<1>5. CASE WriteExtra
  <2>1. taken' = (taken \/ Cardinality(Seated) > Quota(granted'))
    BY <1>5 DEF WriteExtra, Seated
  <2>2. Seated' = Seated /\ granted' \in 0 .. MaxGranted
    BY <1>5 DEF WriteExtra, Seated, SInv, Desk
  <2>3. CASE Cardinality(Seated) > Quota(granted')
    BY <2>1, <2>3, Zenon DEF HInv
  <2>4. CASE ~(Cardinality(Seated) > Quota(granted'))
    <3>1. /\ Quota(granted') \in Nat /\ Quota(granted') <= 1 + granted' + Cardinality(UsedSeats)
          /\ Cardinality(UsedSeats) \in Nat /\ granted' \in Nat /\ Cardinality(Seated) \in Nat
      BY <2>2, QuotaBounds, SeatsCounted, SeatedFinite, SeatsAssumption
    <3>2. Covered'
      BY <1>2, <2>2, <2>4, <3>1 DEF Covered
    <3> QED
      BY <3>2, Zenon DEF HInv
  <2> QED
    BY <2>3, <2>4
<1> QED
  BY <1>3, <1>4, <1>5

\* A replica takes the assistant from as many agents as are over the quota,
\* and from all of them if that is not enough.
LEMMA RevokeSeats ==
  ASSUME SInv, NEW c \in Scanners, Revoke(c)
  PROVE  Covered'
<1> DEFINE others == holders \ {Owner}
           excess == IF Cardinality(holders) > Quota(granted)
                       THEN Cardinality(holders) - Quota(granted) ELSE 0
<1>1. PICK victims \in SUBSET others :
        /\ IF excess < Cardinality(others) THEN Cardinality(victims) = excess ELSE victims = others
        /\ holders' = holders \ victims
  BY DEF Revoke
<1>2. /\ UNCHANGED <<seat, granted, giving>> /\ giving = None
      /\ UsedSeats' = UsedSeats /\ Seated' = holders \ victims
  BY <1>1 DEF Revoke, LockFree, desk, UsedSeats, Seated
<1>3. granted \in 0 .. MaxGranted
  BY DEF SInv, Desk
<1>4. /\ Quota(granted) \in Nat /\ Quota(granted) >= 1
      /\ Quota(granted) <= 1 + granted + Cardinality(UsedSeats)
      /\ Cardinality(UsedSeats) \in Nat /\ granted \in Nat
  BY <1>3, QuotaBounds, SeatsCounted, SeatsAssumption
<1>5. IsFiniteSet(holders) /\ Cardinality(holders) \in Nat
  BY SeatedFinite
<1>6. Cardinality(holders \ victims) <= Quota(granted) /\ Cardinality(holders \ victims) \in Nat
  <2>1. CASE excess < Cardinality(others)
    <3>1. Cardinality(victims) = excess
      BY <1>1, <2>1
    <3>2. holders \cap victims = victims
      BY <1>1
    <3>3. /\ Cardinality(holders \ victims) = Cardinality(holders) - Cardinality(holders \cap victims)
          /\ Cardinality(holders \ victims) \in Nat
      BY <1>5, FS_Difference, FS_CardinalityType
    <3> QED
      BY <1>4, <1>5, <3>1, <3>2, <3>3
  <2>2. CASE ~(excess < Cardinality(others))
    <3>1. victims = others
      BY <1>1, <2>2
    <3>2. holders \ victims \subseteq {Owner}
      BY <3>1
    <3>3. IsFiniteSet({Owner}) /\ Cardinality({Owner}) = 1
      BY FS_Singleton
    <3>4. Cardinality(holders \ victims) <= 1 /\ Cardinality(holders \ victims) \in Nat
      BY <3>2, <3>3, FS_Subset, FS_CardinalityType
    <3> QED
      BY <1>4, <3>4
  <2> QED
    BY <2>1, <2>2
<1> QED
  BY <1>2, <1>4, <1>6 DEF Covered

LEMMA ReplicaSeats ==
  ASSUME SInv, SInv', HInv, NEW c \in Scanners, Tick(c) \/ Crash(c)
  PROVE  HInv'
<1>0. /\ scanner[c] \in Scan
      /\ \A d \in Scanners : d # c => scanner'[d] = scanner[d]
  <2>1. PICK r : scanner' = [scanner EXCEPT ![c] = r]
    BY DEF Tick, Crash, ListDue, ReadSeat, Claim, ChargePaid, ChargeDeclined, ChargeLost, Reactivate,
           RollBack, MarkPastDue, CloseUnpaid, ListCancelled, CloseCancelled, Revoke, EndTick
  <2> QED
    BY <2>1, OthersStay DEF SInv, Replicas
<1>1. scanner[c].pc # "revoke" => (Revoking => Revoking')
  BY <1>0 DEF Revoking
<1>2. CASE Revoke(c)
  BY <1>2, RevokeSeats, Zenon DEF HInv
<1>3. CASE Crash(c)
  <2>1. UNCHANGED <<seat, desk, holders>> /\ taken' = (taken \/ scanner[c].pc = "revoke")
    BY <1>3 DEF Crash
  <2>2. UsedSeats' = UsedSeats /\ Seated' = Seated /\ granted' = granted
    BY <2>1 DEF UsedSeats, Seated, desk
  <2>3. taken => taken'
    BY <2>1, Zenon
  <2>4. Revoking => Revoking' \/ taken'
    BY <1>1, <2>1, Zenon
  <2> QED
    BY <2>2, <2>3, <2>4, QuietSeats
<1>4. CASE CloseUnpaid(c) \/ CloseCancelled(c)
  <2>1. UNCHANGED <<desk, holders, taken>> /\ Seated' = Seated /\ granted' = granted /\ scanner[c].pc # "revoke"
    BY <1>4 DEF CloseUnpaid, CloseCancelled, history, Seated, desk
  <2>2. \/ seat' = seat
        \/ scanner'[c].pc = "revoke"
    <3>1. CASE CloseUnpaid(c) /\ seat' # seat
      <4>1. scanner' = [scanner EXCEPT ![c] = [scanner[c] EXCEPT !.pc = "revoke"]]
        BY <3>1 DEF CloseUnpaid
      <4> QED
        BY <1>0, <4>1 DEF SInv, Replicas, Scan
    <3>2. CASE CloseCancelled(c) /\ seat' # seat
      <4>1. PICK s \in scanner[c].due :
              scanner' = [scanner EXCEPT ![c] = [scanner[c] EXCEPT !.pc = "revoke", !.due = @ \ {s}]]
        BY <3>2 DEF CloseCancelled
      <4> QED
        BY <1>0, <4>1 DEF SInv, Replicas, Scan
    <3> QED
      BY <1>4, <3>1, <3>2
  <2>3. CASE seat' = seat
    <3>1. UsedSeats' = UsedSeats
      BY <2>3 DEF UsedSeats
    <3> QED
      BY <1>1, <2>1, <3>1, QuietSeats
  <2>4. CASE scanner'[c].pc = "revoke"
    <3>1. Revoking'
      BY <2>4 DEF Revoking
    <3> QED
      BY <3>1, Zenon DEF HInv
  <2> QED
    BY <2>2, <2>3, <2>4
<1>5. CASE \/ ListDue(c) \/ ReadSeat(c) \/ ChargePaid(c) \/ ChargeDeclined(c) \/ ChargeLost(c)
           \/ ListCancelled(c) \/ EndTick(c)
  <2>1. /\ UNCHANGED <<seat, desk, holders, taken>> /\ Seated' = Seated /\ granted' = granted
        /\ scanner[c].pc # "revoke"
    BY <1>5 DEF ListDue, ReadSeat, ChargePaid, ChargeDeclined, ChargeLost, ListCancelled, EndTick, history,
                Seated, desk
  <2>2. UsedSeats' = UsedSeats
    BY <2>1 DEF UsedSeats
  <2> QED
    BY <1>1, <2>1, <2>2, QuietSeats
<1>6. CASE Claim(c) \/ Reactivate(c) \/ RollBack(c) \/ MarkPastDue(c)
  <2>1. /\ UNCHANGED <<desk, holders, taken>> /\ Seated' = Seated /\ granted' = granted
        /\ scanner[c].pc \in {"claim", "reactivate", "rollback", "mark"}
    BY <1>6 DEF Claim, Reactivate, RollBack, MarkPastDue, history, Seated, desk
  <2> DEFINE s == scanner[c].seat
  <2>2. /\ s \in Seats /\ seat[s].end \in Nat /\ seat[s].status \in Statuses
        /\ now \in 0 .. MaxTime
        /\ scanner[c].pc \in {"claim", "rollback"} => scanner[c].from \in Nat /\ scanner[c].to \in Nat
    BY <2>1, Working DEF SInv, Clock
  <2>3. \/ seat' = seat
        \/ \E end \in Nat, status \in Statuses :
             /\ seat' = [seat EXCEPT ![s] = Row(status, end)]
             /\ status \in {"active", "past_due"} \/ status = seat[s].status
    <3>1. CASE Claim(c)
      BY <2>2, <3>1 DEF Claim
    <3>2. CASE RollBack(c)
      BY <2>2, <3>2 DEF RollBack
    <3>3. CASE Reactivate(c)
      BY <2>2, <3>3 DEF Reactivate, Statuses
    <3>4. CASE MarkPastDue(c)
      BY <2>2, <3>4 DEF MarkPastDue, Statuses
    <3> QED
      BY <1>6, <3>1, <3>2, <3>3, <3>4
  <2>4. UsedSeats \subseteq UsedSeats'
    <3>1. CASE seat' = seat
      BY <3>1 DEF UsedSeats
    <3>2. ASSUME NEW end \in Nat, NEW status \in Statuses,
                 seat' = [seat EXCEPT ![s] = Row(status, end)],
                 status \in {"active", "past_due"} \/ status = seat[s].status
          PROVE  UsedSeats \subseteq UsedSeats'
      <4>1. Row(status, end).status = status
        BY <2>2, RowType
      <4>2. status \in Used \/ seat[s].status \notin Used
        BY <3>2 DEF Used, Live
      <4> QED
        BY <2>2, <3>2, <4>1, <4>2, SeatsInUse
    <3> QED
      BY <2>3, <3>1, <3>2
  <2> QED
    BY <1>1, <2>1, <2>4, QuietSeats
<1> QED
  BY <1>2, <1>3, <1>4, <1>5, <1>6 DEF Tick

LEMMA InitHInv == SeatsInit => HInv
<1> SUFFICES ASSUME SeatsInit PROVE Covered
  BY Zenon DEF HInv
<1>1. Seated = {Owner} /\ SInv
  BY InitSInv DEF SeatsInit, Seated
<1>2. Cardinality(Seated) = 1
  BY <1>1, FS_Singleton
<1>3. granted \in Nat /\ Cardinality(UsedSeats) \in Nat
  BY <1>1, SeatsCounted, SeatsAssumption DEF SInv, Desk
<1> QED
  BY <1>2, <1>3 DEF Covered

LEMMA NextHInv == SInv /\ SInv' /\ HInv /\ [SeatsNext]_seatVars => HInv'
<1> SUFFICES ASSUME SInv, SInv', HInv, [SeatsNext]_seatVars PROVE HInv'
  OBVIOUS
<1>1. CASE UNCHANGED seatVars
  <2>1. UNCHANGED <<seat, granted, holders, giving, scanner, taken>>
    BY <1>1 DEF seatVars, history, desk
  <2>2. /\ UsedSeats' = UsedSeats /\ Seated' = Seated /\ granted' = granted
        /\ taken => taken'
        /\ Revoking => Revoking'
    BY <2>1 DEF UsedSeats, Seated, Revoking
  <2> QED
    BY <2>2, QuietSeats
<1> QED
  BY <1>1, CustomerSeats, DeskSeats, ReplicaSeats DEF SeatsNext

\* In an office of any size agents work with the assistant only on seats that
\* are paid, included or granted, whatever the replicas, the customer and the
\* platform do at once, or a replica is on its way to take the assistant from
\* someone, or the hour of a cancelled seat has come and its sweep has not
\* (releaseDue, closeUnpaid, revokeOverQuota); the writes nothing guards are
\* left out.
THEOREM HoldersStayCovered == SeatsSpec => []HoldersCovered
<1>1. SInv /\ HInv => HoldersCovered
  <2> SUFFICES ASSUME SInv, Covered, ~(Cardinality(holders) <= Quota(granted))
               PROVE  \E s \in Seats : seat[s].status = "cancelled" /\ seat[s].end <= now
    BY Zenon DEF HInv, Revoking, HoldersCovered
  <2>1. /\ Cardinality(holders) \in Nat /\ Cardinality(Seated) \in Nat
        /\ Cardinality(holders) <= Cardinality(Seated)
    BY SeatedFinite
  <2>2. granted \in Nat /\ PaidSeats \in Nat /\ Cardinality(UsedSeats) \in Nat
    BY SeatsCounted, SeatsAssumption DEF SInv, Desk
  <2>3. PaidSeats # Cardinality(UsedSeats)
    BY <2>1, <2>2 DEF Covered, Quota
  <2>4. PICK s \in UsedSeats : s \notin PaidNow
    <3>1. PaidNow # UsedSeats
      BY <2>3, SeatsCounted
    <3> QED
      BY <3>1 DEF PaidNow, UsedSeats, Used
  <2>5. s \in Seats /\ seat[s].status = "cancelled" /\ ~(seat[s].end > now) /\ seat[s].end # None
    BY <2>4 DEF UsedSeats, PaidNow, Used, SInv, SeatTable
  <2>6. seat[s].end \in Nat /\ now \in Nat
    BY <2>5, EndType, SeatsAssumption DEF SInv, Clock
  <2> QED
    BY <2>5, <2>6
<1>2. SeatsInit => SInv /\ HInv
  BY InitSInv, InitHInv
<1>3. SInv /\ HInv /\ [SeatsNext]_seatVars => SInv' /\ HInv'
  BY NextSInv, NextHInv
<1> QED
  BY <1>1, <1>2, <1>3, PTL DEF SeatsSpec
=============================================================================
