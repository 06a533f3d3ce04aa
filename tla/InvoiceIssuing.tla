--------------------------- MODULE InvoiceIssuing ---------------------------
(***************************************************************************)
(* The tax document of a payment.  A confirmed payment leaves a row in     *)
(* table invoices; the sweep of every API replica, and a button in the     *)
(* platform's screen, turn the row into a document at Linet.               *)
(*                                                                         *)
(* An action is the code between two awaits.  A request to Linet ends in   *)
(* one of four ways: a document and its answer, a document whose answer    *)
(* was lost, no document, or a client that gave up on a request Linet      *)
(* finishes later.                                                         *)
(*                                                                         *)
(* The clock is abstracted to what next_attempt_at says of a row now.  All *)
(* the requests of one attempt time out within two minutes, so a row is    *)
(* stuck (twenty minutes in "issuing") only when its attempt died.         *)
(***************************************************************************)
EXTENDS Naturals, FiniteSets

CONSTANTS
  Invoices,     \* payments that were confirmed
  Sweepers,     \* API replicas, each with its five-minute sweep
  Clickers,     \* staff at the platform's screen
  MaxAttempts,  \* INVOICE_MAX_ATTEMPTS
  MaxCrashes,   \* bounds the crashes of the API process
  MaxClicks,    \* bounds the clicks on "issue again"
  LateFinish,   \* whether Linet may finish a request its client gave up
  None

ASSUME InvoiceAssumption ==
  /\ MaxAttempts \in Nat \ {0}
  /\ MaxCrashes \in Nat
  /\ MaxClicks \in Nat
  /\ LateFinish \in BOOLEAN
  /\ Sweepers \cap Clickers = {}
  /\ None \notin Invoices

Issuers == Sweepers \cup Clickers

VARIABLES
  row,        \* table invoices
  document,   \* documents Linet holds for each payment (refnum_ext)
  late,       \* requests Linet has not finished though their client gave up
  strays,     \* history: documents such requests made in the end
  issuer,     \* where each sweep or click stands in issueOne
  due,        \* rows a sweep listed and has not come to
  crashes, clicks

vars == <<row, document, late, strays, issuer, due, crashes, clicks>>

AbsentRow  == [status |-> "absent", attempts |-> 0, next |-> "never"]
IdleIssuer == [pc |-> "idle", invoice |-> None, attempts |-> 0, retry |-> FALSE]

\* Past the claim: only here is Linet asked for a document.
Issuing == {"lookup", "create", "record", "fail"}

Init ==
  /\ row = [i \in Invoices |-> AbsentRow]
  /\ document = [i \in Invoices |-> 0]
  /\ late = [i \in Invoices |-> 0]
  /\ strays = [i \in Invoices |-> 0]
  /\ issuer = [s \in Issuers |-> IdleIssuer]
  /\ due = [s \in Sweepers |-> {}]
  /\ crashes = 0
  /\ clicks = 0

-----------------------------------------------------------------------------
\* Mutant of Queue: the row starts without the counter of its attempts.
QueueUncounted(i) ==
  /\ row[i].status = "absent"
  /\ row' = [row EXCEPT ![i] = [status |-> "pending", attempts |-> None, next |-> "never"]]
  /\ UNCHANGED <<document, late, strays, issuer, due, crashes, clicks>>

\* queueForPayment: the unique payment_id makes a second call a no-op.
Queue(i) ==
  /\ row[i].status = "absent"
  /\ row' = [row EXCEPT ![i] = [status |-> "pending", attempts |-> 0, next |-> "due"]]
  /\ UNCHANGED <<document, late, strays, issuer, due, crashes, clicks>>

\* What the sweep's query lists.
Due(i) ==
  \/ /\ row[i].status \in {"pending", "failed"}
     /\ row[i].attempts < MaxAttempts
     /\ row[i].next = "due"
  \/ row[i].status = "issuing" /\ row[i].next = "stuck"

ListDue(s) ==
  /\ issuer[s].pc = "idle"
  /\ due[s] = {}
  /\ due' = [due EXCEPT ![s] = {i \in Invoices : Due(i)}]
  /\ UNCHANGED <<row, document, late, strays, issuer, crashes, clicks>>

-----------------------------------------------------------------------------
(***************************************************************************)
(* issueOne.                                                               *)
(***************************************************************************)

\* An issued row is left alone.  Of any other row the attempts and the status
\* are read, which decide below whether this is a retry.
ReadRow(s, i) ==
  issuer' = [issuer EXCEPT ![s] =
               IF row[i].status = "issued"
                 THEN IdleIssuer
                 ELSE [pc |-> "claim", invoice |-> i, attempts |-> row[i].attempts,
                       retry |-> row[i].attempts > 0 \/ row[i].status = "issuing"]]

TakeListed(s) ==
  /\ issuer[s].pc = "idle"
  /\ \E i \in due[s] :
       /\ ReadRow(s, i)
       /\ due' = [due EXCEPT ![s] = due[s] \ {i}]
  /\ UNCHANGED <<row, document, late, strays, crashes, clicks>>

Click(s, i) ==
  /\ clicks < MaxClicks
  /\ issuer[s].pc = "idle"
  /\ row[i].status # "absent"
  /\ ReadRow(s, i)
  /\ clicks' = clicks + 1
  /\ UNCHANGED <<row, document, late, strays, due, crashes>>

\* Mutant of Claimable: any row being issued can be taken over.
ClaimableWhileIssuing(i) == row[i].status \in {"pending", "failed", "issuing"}

\* The conditional update: who moves the row to "issuing" speaks to Linet.
\* A failed row can be claimed before its time, an exhausted one too.
Claimable(i) ==
  \/ row[i].status \in {"pending", "failed"}
  \/ row[i].status = "issuing" /\ row[i].next = "stuck"

\* Mutant of Claim: a retry creates without looking for an earlier document.
ClaimWithoutLookup(s) ==
  LET i == issuer[s].invoice IN
  /\ issuer[s].pc = "claim"
  /\ Claimable(i)
  /\ row' = [row EXCEPT ![i] = [status |-> "issuing", attempts |-> row[i].attempts + 1,
                                next |-> "later"]]
  /\ issuer' = [issuer EXCEPT ![s].pc = "create"]
  /\ UNCHANGED <<document, late, strays, due, crashes, clicks>>

Claim(s) ==
  LET i == issuer[s].invoice IN
  /\ issuer[s].pc = "claim"
  /\ Claimable(i)
  /\ row' = [row EXCEPT ![i] = [status |-> "issuing", attempts |-> row[i].attempts + 1,
                                next |-> "later"]]
  /\ issuer' = [issuer EXCEPT ![s].pc = IF issuer[s].retry THEN "lookup" ELSE "create"]
  /\ UNCHANGED <<document, late, strays, due, crashes, clicks>>

ClaimLost(s) ==
  /\ issuer[s].pc = "claim"
  /\ ~Claimable(issuer[s].invoice)
  /\ issuer' = [issuer EXCEPT ![s] = IdleIssuer]
  /\ UNCHANGED <<row, document, late, strays, due, crashes, clicks>>

\* Every retry looks for a document with this payment's reference first; a
\* search that fails is no permission to create.
Lookup(s) ==
  /\ issuer[s].pc = "lookup"
  /\ \/ issuer' = [issuer EXCEPT ![s].pc =
                     IF document[issuer[s].invoice] > 0 THEN "record" ELSE "create"]
     \/ issuer' = [issuer EXCEPT ![s].pc = "fail"]
  /\ UNCHANGED <<row, document, late, strays, due, crashes, clicks>>

\* Linet makes the document, and its answer arrives or is lost.
CreateAnswered(s, pc) ==
  /\ issuer[s].pc = "create"
  /\ document' = [document EXCEPT ![issuer[s].invoice] = @ + 1]
  /\ issuer' = [issuer EXCEPT ![s].pc = pc]
  /\ UNCHANGED <<row, late, strays, due, crashes, clicks>>

\* Mutant of CreateRefused: an error in an HTTP 200 envelope is taken for success.
RefusedAsSuccess(s) ==
  /\ issuer[s].pc = "create"
  /\ issuer' = [issuer EXCEPT ![s].pc = "record"]
  /\ UNCHANGED <<row, document, late, strays, due, crashes, clicks>>

\* No document: the office has no owner to bill, Linet refuses or is down.
CreateRefused(s) ==
  /\ issuer[s].pc = "create"
  /\ issuer' = [issuer EXCEPT ![s].pc = "fail"]
  /\ UNCHANGED <<row, document, late, strays, due, crashes, clicks>>

CreateTimesOut(s) ==
  /\ LateFinish
  /\ issuer[s].pc = "create"
  /\ late' = [late EXCEPT ![issuer[s].invoice] = @ + 1]
  /\ issuer' = [issuer EXCEPT ![s].pc = "fail"]
  /\ UNCHANGED <<row, document, strays, due, crashes, clicks>>

FinishLate(i) ==
  /\ late[i] > 0
  /\ late' = [late EXCEPT ![i] = @ - 1]
  /\ document' = [document EXCEPT ![i] = @ + 1]
  /\ strays' = [strays EXCEPT ![i] = @ + 1]
  /\ UNCHANGED <<row, issuer, due, crashes, clicks>>

Record(s) ==
  /\ issuer[s].pc = "record"
  /\ row' = [row EXCEPT ![issuer[s].invoice].status = "issued",
                        ![issuer[s].invoice].next = "never"]
  /\ issuer' = [issuer EXCEPT ![s] = IdleIssuer]
  /\ UNCHANGED <<document, late, strays, due, crashes, clicks>>

\* Mutant of Fail: the failed row gets no time for its next attempt.
FailForGood(s) ==
  /\ issuer[s].pc = "fail"
  /\ row' = [row EXCEPT ![issuer[s].invoice].status = "failed",
                        ![issuer[s].invoice].next = "never"]
  /\ issuer' = [issuer EXCEPT ![s] = IdleIssuer]
  /\ UNCHANGED <<document, late, strays, due, crashes, clicks>>

\* The failure is written by id alone, with the attempts read at the start.
Fail(s) ==
  /\ issuer[s].pc = "fail"
  /\ row' = [row EXCEPT ![issuer[s].invoice].status = "failed",
                        ![issuer[s].invoice].next =
                          IF issuer[s].attempts + 1 >= MaxAttempts THEN "never" ELSE "later"]
  /\ issuer' = [issuer EXCEPT ![s] = IdleIssuer]
  /\ UNCHANGED <<document, late, strays, due, crashes, clicks>>

\* The process dies: the row stays as the attempt left it.
Crash(s) ==
  /\ crashes < MaxCrashes
  /\ crashes' = crashes + 1
  /\ issuer[s].pc # "idle"
  /\ issuer' = [issuer EXCEPT ![s] = IdleIssuer]
  /\ due' = IF s \in Sweepers THEN [due EXCEPT ![s] = {}] ELSE due
  /\ UNCHANGED <<row, document, late, strays, clicks>>

-----------------------------------------------------------------------------
\* A live attempt on row i.
Attempt(s, i) == issuer[s].pc \in Issuing /\ issuer[s].invoice = i

\* next_attempt_at of a failed row passes.
RetryTime(i) ==
  /\ row[i].status = "failed"
  /\ row[i].next = "later"
  /\ row' = [row EXCEPT ![i].next = "due"]
  /\ UNCHANGED <<document, late, strays, issuer, due, crashes, clicks>>

\* STUCK_ISSUING_MS after next_attempt_at of a row in "issuing".
StuckTime(i) ==
  /\ row[i].status = "issuing"
  /\ row[i].next = "later"
  /\ \A s \in Issuers : ~Attempt(s, i)
  /\ row' = [row EXCEPT ![i].next = "stuck"]
  /\ UNCHANGED <<document, late, strays, issuer, due, crashes, clicks>>

Time(i) == RetryTime(i) \/ StuckTime(i)

IssueStep(s) ==
  \/ Claim(s) \/ ClaimLost(s) \/ Lookup(s) \/ CreateAnswered(s, "record")
  \/ CreateAnswered(s, "fail") \/ CreateRefused(s) \/ CreateTimesOut(s)
  \/ Record(s) \/ Fail(s)

SweepStep(s) == ListDue(s) \/ TakeListed(s) \/ IssueStep(s)

Next ==
  \/ \E i \in Invoices : Queue(i) \/ FinishLate(i) \/ Time(i)
  \/ \E s \in Sweepers : SweepStep(s)
  \/ \E s \in Clickers : IssueStep(s) \/ \E i \in Invoices : Click(s, i)
  \/ \E s \in Issuers : Crash(s)

Spec == Init /\ [][Next]_vars

\* The sweep is a timer of every replica, an attempt that started goes on until
\* it ends or its process dies, and time passes.
FairSpec ==
  /\ Spec
  /\ \A s \in Sweepers : WF_vars(SweepStep(s))
  /\ \A s \in Clickers : WF_vars(IssueStep(s))
  /\ \A i \in Invoices : WF_vars(Time(i))

-----------------------------------------------------------------------------
\* Every variable keeps to its columns.
TypeOK ==
  /\ row \in [Invoices -> [status : {"absent", "pending", "issuing", "failed", "issued"},
                           attempts : Nat, next : {"due", "later", "stuck", "never"}]]
  /\ document \in [Invoices -> Nat]
  /\ late \in [Invoices -> Nat]
  /\ strays \in [Invoices -> Nat]
  /\ issuer \in [Issuers -> [pc : {"idle", "claim"} \cup Issuing,
                             invoice : Invoices \cup {None}, attempts : Nat, retry : BOOLEAN]]
  /\ due \in [Sweepers -> SUBSET Invoices]
  /\ crashes \in Nat
  /\ clicks \in Nat

\* "Only who moved the row to issuing speaks to Linet": two attempts on one
\* invoice never run at the same time, and the row says so while one runs.
OneIssuer ==
  \A s \in Issuers : issuer[s].pc \in Issuing =>
    /\ row[issuer[s].invoice].status = "issuing"
    /\ \A t \in Issuers : Attempt(t, issuer[s].invoice) => t = s

\* The unconditional writes at the end of an attempt never overwrite the result
\* of another one: an issued document is not lost again.
IssuedStays ==
  [][\A i \in Invoices : row[i].status = "issued" => row'[i].status = "issued"]_vars

\* What the screen calls issued stands at Linet, whatever answers were lost.
IssuedHasDocument == \A i \in Invoices : row[i].status = "issued" => document[i] > 0

\* A retry never makes a second document: whatever lost answers, refusals and
\* crashes came before, the only documents there can be when a retry creates
\* one are those of requests that Linet finished after everybody had given up.
RetryNeverDuplicates ==
  \A s \in Issuers : issuer[s].pc = "create" /\ issuer[s].retry =>
    document[issuer[s].invoice] = strays[issuer[s].invoice]

\* One payment, one tax document, whatever crashes and lost answers do.
OneDocument == \A i \in Invoices : document[i] <= 1

\* A queued document is issued, or its attempts are used up and it waits for a
\* person: no crash leaves it in "issuing" and no failure in "failed" for ever.
Settled(i) ==
  \/ row[i].status = "issued"
  \/ row[i].status = "failed" /\ row[i].attempts >= MaxAttempts

EventuallySettled == \A i \in Invoices : (row[i].status # "absent") ~> Settled(i)
=============================================================================
