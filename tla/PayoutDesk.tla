----------------------------- MODULE PayoutDesk -----------------------------
(***************************************************************************)
(* The money an office has earned on the lead board, and its withdrawals   *)
(* (PayoutsService).  The balance is the sum of payout_ledger: a request   *)
(* takes its amount from it at once, a rejection returns it with a row of  *)
(* its own.  Requests of an office wait for each other at an advisory      *)
(* lock; administrators meet at a conditional update; sales and returns    *)
(* add to the balance under no lock.                                       *)
(*                                                                         *)
(* An open transaction is a record of what it has read: its lock and its   *)
(* effects go with it.                                                     *)
(***************************************************************************)
EXTENDS Integers

CONSTANTS
  Withdrawals,  \* identifiers of rows of payout_requests, of one office
  Users,        \* users of the office
  Clerks,       \* administrators of the platform
  Sums,         \* amounts that may be asked for
  Minimum,      \* payoutMinimumAgorot
  Proceeds,     \* what the office earns with one sale
  MaxSales      \* bounds the sales

ASSUME DeskAssumption ==
  Sums \subseteq Nat \ {0} /\ Minimum \in Nat /\ Proceeds \in Nat /\ MaxSales \in Nat

VARIABLES
  request,   \* table payout_requests
  returned,  \* table payout_ledger: the rows "withdrawal_reversed" of each request
  balance,   \* the sum of payout_ledger
  asking,    \* open transactions of request()
  deciding,  \* open transactions of decide()
  sales

deskVars == <<request, returned, balance, asking, deciding, sales>>

Decisions == {"approved", "paid", "rejected"}
Statuses  == Decisions \cup {"absent", "pending"}

NoRequest == [status |-> "absent", amount |-> 0, paid |-> FALSE]

DeskInit ==
  /\ request = [w \in Withdrawals |-> NoRequest]
  /\ returned = [w \in Withdrawals |-> 0]
  /\ balance = 0
  /\ asking = {} /\ deciding = {}
  /\ sales = 0

\* A client the office referred is paid for in money (LeadMarket).
Sale ==
  /\ sales < MaxSales
  /\ sales' = sales + 1
  /\ balance' = balance + Proceeds
  /\ UNCHANGED <<request, returned, asking, deciding>>

-----------------------------------------------------------------------------
(***************************************************************************)
(* request().                                                              *)
(***************************************************************************)

\* Mutant of LockFree: nothing keeps two requests apart.
LockFreeAlways == TRUE

\* lockPayouts: the lock ends with the transaction.
LockFree == asking = {}

\* The balance is read under the lock.
Ask(u, amount) ==
  /\ LockFree
  /\ \A a \in asking : a.by # u
  /\ amount <= balance /\ amount >= Minimum
  /\ asking' = asking \cup {[by |-> u, amount |-> amount]}
  /\ UNCHANGED <<request, returned, balance, deciding, sales>>

\* The request, and its row of the ledger.
Withdraw(a, w) ==
  /\ request[w].status = "absent"
  /\ request' = [request EXCEPT ![w] = [status |-> "pending", amount |-> a.amount, paid |-> FALSE]]
  /\ balance' = balance - a.amount
  /\ asking' = asking \ {a}
  /\ UNCHANGED <<returned, deciding, sales>>

-----------------------------------------------------------------------------
(***************************************************************************)
(* decide().                                                               *)
(***************************************************************************)

\* ALLOWED_TRANSITIONS.
Allowed(status) ==
  CASE status = "pending"  -> {"approved", "rejected"}
    [] status = "approved" -> {"paid", "rejected"}
    [] OTHER               -> {}

\* The row, and whether it may change as the administrator wants.
Read(c, w, to) ==
  /\ \A d \in deciding : d.by # c
  /\ to \in Allowed(request[w].status)
  /\ deciding' = deciding \cup {[by |-> c, on |-> w, seen |-> request[w].status, to |-> to]}
  /\ UNCHANGED <<request, returned, balance, asking, sales>>

\* Mutant of Unchanged: the row is written by its id alone.
UnchangedAlways(d) == TRUE

\* Two administrators: the row still is what this one read.
Unchanged(d) == request[d.on].status = d.seen

\* The decision, and the money of a rejected request; who comes second gets
\* an error.
Decide(d) ==
  /\ deciding' = deciding \ {d}
  /\ IF Unchanged(d)
       THEN /\ request' = [request EXCEPT ![d.on].status = d.to, ![d.on].paid = @ \/ d.to = "paid"]
            /\ returned' = IF d.to = "rejected" THEN [returned EXCEPT ![d.on] = @ + 1] ELSE returned
            /\ balance' = IF d.to = "rejected" THEN balance + request[d.on].amount ELSE balance
       ELSE UNCHANGED <<request, returned, balance>>
  /\ UNCHANGED <<asking, sales>>

\* A transaction is rolled back, with its lock.
RollBack ==
  /\ \/ (\E a \in asking : asking' = asking \ {a}) /\ UNCHANGED deciding
     \/ (\E d \in deciding : deciding' = deciding \ {d}) /\ UNCHANGED asking
  /\ UNCHANGED <<request, returned, balance, sales>>

DeskStep ==
  \/ \E u \in Users, amount \in Sums : Ask(u, amount)
  \/ \E a \in asking, w \in Withdrawals : Withdraw(a, w)
  \/ \E c \in Clerks, w \in Withdrawals, to \in Decisions : Read(c, w, to)
  \/ \E d \in deciding : Decide(d)
  \/ RollBack

DeskNext == Sale \/ DeskStep

DeskSpec == DeskInit /\ [][DeskNext]_deskVars

-----------------------------------------------------------------------------
(***************************************************************************)
(* What the desk promises.                                                 *)
(***************************************************************************)

\* An office never withdraws money it has not got, however many of its users
\* ask at once and whatever is sold, paid and returned meanwhile.
NeverOverdrawn == balance >= 0

\* A request ends once: its money went back once if it was rejected and never
\* otherwise, and only what is marked as paid has a date of payment (a second
\* "paid" is a second transfer), however administrators race.
DecidedOnce ==
  \A w \in Withdrawals :
    /\ returned[w] = IF request[w].status = "rejected" THEN 1 ELSE 0
    /\ request[w].paid <=> request[w].status = "paid"
=============================================================================
