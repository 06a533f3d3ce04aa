------------------------- MODULE InvoiceIssuingProofs -------------------------
(***************************************************************************)
(* For any number of replicas, staff and payments: one attempt at a time   *)
(* works on an invoice, and an issued document stays issued.               *)
(***************************************************************************)
EXTENDS InvoiceIssuing, TLAPS

\* A sweep or click past its start works on an invoice.
WorksOnInvoice == \A s \in Issuers : issuer[s].pc # "idle" => issuer[s].invoice \in Invoices

\* While an attempt runs its row is not stuck, so nobody can take it over.
AttemptNotStuck ==
  \A s \in Issuers : issuer[s].pc \in Issuing => row[issuer[s].invoice].next = "later"

\* What is about to be recorded exists.
RecordsDocument == \A s \in Issuers : issuer[s].pc = "record" => document[issuer[s].invoice] > 0

\* Without a document at Linet there is none of a late request either.
StraysAreDocuments == \A i \in Invoices : document[i] = 0 => strays[i] = 0

IInv ==
  /\ TypeOK
  /\ WorksOnInvoice
  /\ OneIssuer
  /\ AttemptNotStuck
  /\ RecordsDocument
  /\ IssuedHasDocument
  /\ StraysAreDocuments
  /\ RetryNeverDuplicates

\* No row exists and nobody works.
LEMMA InitIInv == Init => IInv
BY InvoiceAssumption
DEF Init, IInv, TypeOK, WorksOnInvoice, OneIssuer, AttemptNotStuck, RecordsDocument,
    IssuedHasDocument, StraysAreDocuments, RetryNeverDuplicates, AbsentRow, IdleIssuer, Issuing, Issuers

RowType    == [status : {"absent", "pending", "issuing", "failed", "issued"},
               attempts : Nat, next : {"due", "later", "stuck", "never"}]
IssuerType == [pc : {"idle", "claim"} \cup Issuing, invoice : Invoices \cup {None},
               attempts : Nat, retry : BOOLEAN]

\* An update of one column keeps a row to its type, and so does a step of pc.
LEMMA RowUpdate ==
  ASSUME NEW table \in [Invoices -> RowType], NEW i \in Invoices,
         NEW status \in {"absent", "pending", "issuing", "failed", "issued"},
         NEW next \in {"due", "later", "stuck", "never"}
  PROVE  [table EXCEPT ![i].status = status, ![i].next = next] \in [Invoices -> RowType]
<1>1. [[table[i] EXCEPT !.status = status] EXCEPT !.next = next] \in RowType
  BY DEF RowType
<1> QED
  BY <1>1

LEMMA IssuerUpdate ==
  ASSUME NEW table \in [Issuers -> IssuerType], NEW s \in Issuers,
         NEW pc \in {"idle", "claim"} \cup Issuing
  PROVE  [table EXCEPT ![s].pc = pc] \in [Issuers -> IssuerType]
<1>1. [table[s] EXCEPT !.pc = pc] \in IssuerType
  BY DEF IssuerType
<1> QED
  BY <1>1

\* A live attempt that goes on to its next request keeps the row to itself.
LEMMA NextRequest ==
  ASSUME IInv, NEW s \in Issuers, issuer[s].pc \in Issuing, NEW pc \in Issuing,
         issuer' = [issuer EXCEPT ![s].pc = pc], row' = row
  PROVE  /\ issuer' \in [Issuers -> [pc : {"idle", "claim"} \cup Issuing,
                                    invoice : Invoices \cup {None}, attempts : Nat, retry : BOOLEAN]]
         /\ WorksOnInvoice'
         /\ OneIssuer'
         /\ AttemptNotStuck'
<1> USE DEF IInv, TypeOK
<1>1. issuer' \in [Issuers -> [pc : {"idle", "claim"} \cup Issuing,
                              invoice : Invoices \cup {None}, attempts : Nat, retry : BOOLEAN]]
  BY IssuerUpdate DEF IssuerType
<1>2. \A t \in Issuers : /\ issuer'[t].invoice = issuer[t].invoice
                         /\ issuer'[t].pc \in Issuing <=> issuer[t].pc \in Issuing
                         /\ issuer'[t].pc = "idle" <=> issuer[t].pc = "idle"
  BY DEF Issuing
<1>3. WorksOnInvoice' /\ AttemptNotStuck'
  BY <1>2 DEF WorksOnInvoice, AttemptNotStuck
<1>4. OneIssuer'
  BY <1>2 DEF OneIssuer, Attempt
<1> QED
  BY <1>1, <1>3, <1>4

\* The end of an attempt: its row is written by id, and nobody else is on it.
LEMMA AttemptEnds ==
  ASSUME IInv, NEW s \in Issuers, issuer[s].pc \in {"record", "fail"},
         NEW status \in {"failed", "issued"}, NEW next \in {"later", "never"},
         status = "issued" => document[issuer[s].invoice] > 0,
         row' = [row EXCEPT ![issuer[s].invoice].status = status,
                            ![issuer[s].invoice].next = next],
         issuer' = [issuer EXCEPT ![s] = IdleIssuer],
         UNCHANGED <<document, late, strays, due, crashes, clicks>>
  PROVE  IInv'
<1> USE DEF IInv, TypeOK, Issuing
<1>1. issuer[s].invoice \in Invoices
  BY DEF WorksOnInvoice
<1>2. /\ issuer'[s].pc = "idle"
      /\ \A t \in Issuers : t # s => issuer'[t] = issuer[t]
  BY DEF IdleIssuer
<1>3. /\ \A i \in Invoices : i # issuer[s].invoice => row'[i] = row[i]
      /\ row'[issuer[s].invoice].status = status
  BY <1>1
<1>4. \A t \in Issuers : t # s /\ issuer[t].pc \in Issuing => issuer[t].invoice # issuer[s].invoice
  BY DEF OneIssuer, Attempt
<1>5. TypeOK'
  <2>1. IdleIssuer \in [pc : {"idle", "claim"} \cup Issuing, invoice : Invoices \cup {None},
                        attempts : Nat, retry : BOOLEAN]
    BY DEF IdleIssuer
  <2>2. row' \in [Invoices -> RowType]
    <3>1. row \in [Invoices -> RowType]
      BY DEF RowType
    <3> HIDE DEF IInv, TypeOK
    <3> QED
      BY <1>1, <3>1, RowUpdate
  <2> QED
    BY <2>1, <2>2 DEF RowType
<1>6. WorksOnInvoice' /\ RecordsDocument' /\ RetryNeverDuplicates' /\ StraysAreDocuments'
  BY <1>2 DEF WorksOnInvoice, RecordsDocument, RetryNeverDuplicates, StraysAreDocuments
<1>7. OneIssuer' /\ AttemptNotStuck'
  BY <1>2, <1>3, <1>4 DEF OneIssuer, AttemptNotStuck, Attempt, WorksOnInvoice
<1>8. IssuedHasDocument'
  BY <1>3 DEF IssuedHasDocument
<1> QED
  BY <1>5, <1>6, <1>7, <1>8

\* The claim: the row was free, so no attempt on it was running.
LEMMA AttemptStarts == ASSUME IInv, NEW s \in Issuers, Claim(s) PROVE IInv'
<1> USE DEF IInv, TypeOK, Issuing
<1>1. /\ issuer[s].pc = "claim"
      /\ issuer[s].invoice \in Invoices
      /\ UNCHANGED <<document, late, strays, due, crashes, clicks>>
  BY DEF Claim, WorksOnInvoice
<1>2. PICK pc \in {"lookup", "create"} :
        /\ issuer' = [issuer EXCEPT ![s].pc = pc]
        /\ pc = "create" => ~issuer[s].retry
  BY DEF Claim
<1>3. /\ row'[issuer[s].invoice].status = "issuing"
      /\ row'[issuer[s].invoice].next = "later"
      /\ \A i \in Invoices : i # issuer[s].invoice => row'[i] = row[i]
  BY <1>1 DEF Claim
<1>4. \A t \in Issuers : issuer[t].pc \in Issuing => issuer[t].invoice # issuer[s].invoice
  BY <1>1 DEF Claim, Claimable, OneIssuer, AttemptNotStuck
<1>5. /\ issuer'[s].pc = pc /\ issuer'[s].invoice = issuer[s].invoice /\ issuer'[s].retry = issuer[s].retry
      /\ \A t \in Issuers : t # s => issuer'[t] = issuer[t]
  BY <1>2
<1>6. TypeOK'
  <2>1. row' \in [Invoices -> RowType]
    BY <1>1 DEF Claim, RowType
  <2>2. issuer' \in [Issuers -> IssuerType]
    BY <1>2, IssuerUpdate DEF IssuerType
  <2> QED
    BY <1>1, <2>1, <2>2 DEF RowType, IssuerType
<1>7. WorksOnInvoice' /\ RecordsDocument' /\ RetryNeverDuplicates' /\ StraysAreDocuments'
  BY <1>1, <1>2, <1>5 DEF WorksOnInvoice, RecordsDocument, RetryNeverDuplicates, StraysAreDocuments
<1>8. OneIssuer' /\ AttemptNotStuck'
  <2>1. AttemptNotStuck'
    BY <1>3, <1>4, <1>5 DEF AttemptNotStuck, WorksOnInvoice
  <2>2. \A t \in Issuers : issuer'[t].pc \in Issuing => row'[issuer'[t].invoice].status = "issuing"
    BY <1>3, <1>4, <1>5 DEF OneIssuer, WorksOnInvoice
  <2>3. \A t, u \in Issuers : Attempt(t, issuer[u].invoice)' /\ issuer'[u].pc \in Issuing => t = u
    BY <1>4, <1>5 DEF OneIssuer, Attempt
  <2>4. \A u \in Issuers : issuer'[u].invoice = issuer[u].invoice
    BY <1>5
  <2>5. OneIssuer'
    BY <2>2, <2>3, <2>4 DEF OneIssuer, Attempt
  <2> QED
    BY <2>1, <2>5
<1>9. IssuedHasDocument'
  BY <1>1, <1>3 DEF IssuedHasDocument
<1> QED
  BY <1>6, <1>7, <1>8, <1>9

\* The rows of the other invoices and the documents of all are as before.
LEMMA NextIInv == IInv /\ [Next]_vars => IInv'
<1> SUFFICES ASSUME IInv, [Next]_vars PROVE IInv'
  OBVIOUS
<1> USE DEF IInv, TypeOK, WorksOnInvoice, OneIssuer, AttemptNotStuck, RecordsDocument,
            IssuedHasDocument, StraysAreDocuments, RetryNeverDuplicates, Attempt, Issuing
<1>1. ASSUME NEW i \in Invoices, Queue(i) PROVE IInv'
  BY <1>1 DEF Queue
<1>2. ASSUME NEW i \in Invoices, FinishLate(i) PROVE IInv'
  BY <1>2 DEF FinishLate
<1>3. ASSUME NEW i \in Invoices, Time(i) PROVE IInv'
  <2>1. CASE RetryTime(i)
    BY <2>1 DEF RetryTime
  <2>2. CASE StuckTime(i)
    <3>1. TypeOK'
      BY <2>2 DEF StuckTime
    <3>2. \A s \in Issuers : issuer[s].pc \in Issuing => issuer[s].invoice # i
      BY <2>2 DEF StuckTime
    <3> QED
      BY <2>2, <3>1, <3>2 DEF StuckTime
  <2> QED
    BY <1>3, <2>1, <2>2 DEF Time
<1>4. ASSUME NEW s \in Sweepers, ListDue(s) PROVE IInv'
  BY <1>4 DEF ListDue
<1>5. ASSUME NEW s \in Sweepers, TakeListed(s) PROVE IInv'
  BY <1>5 DEF TakeListed, ReadRow, IdleIssuer, Issuers
<1>6. ASSUME NEW s \in Clickers, NEW i \in Invoices, Click(s, i) PROVE IInv'
  BY <1>6 DEF Click, ReadRow, IdleIssuer, Issuers
<1>7. ASSUME NEW s \in Issuers, Claim(s) PROVE IInv'
  BY <1>7, AttemptStarts
<1>8. ASSUME NEW s \in Issuers, ClaimLost(s) PROVE IInv'
  BY <1>8 DEF ClaimLost, IdleIssuer
<1>9. ASSUME NEW s \in Issuers, Lookup(s) PROVE IInv'
  <2>1. PICK pc \in {"record", "create", "fail"} :
          /\ issuer' = [issuer EXCEPT ![s].pc = pc]
          /\ pc = "record" => document[issuer[s].invoice] > 0
          /\ pc = "create" => document[issuer[s].invoice] = 0
    BY <1>9 DEF Lookup
  <2>2. UNCHANGED <<row, document, late, strays, due, crashes, clicks>> /\ issuer[s].pc = "lookup"
    BY <1>9 DEF Lookup
  <2>3. RecordsDocument'
    BY <2>1, <2>2
  <2>4. RetryNeverDuplicates'
    BY <2>1, <2>2
  <2> QED
    BY <2>1, <2>2, <2>3, <2>4, NextRequest
<1>10. ASSUME NEW s \in Issuers, CreateAnswered(s, "record") \/ CreateAnswered(s, "fail") PROVE IInv'
  <2>1. PICK pc \in {"record", "fail"} : issuer' = [issuer EXCEPT ![s].pc = pc]
    BY <1>10 DEF CreateAnswered
  <2>2. /\ UNCHANGED <<row, late, strays, due, crashes, clicks>>
        /\ issuer[s].pc = "create"
        /\ document' = [document EXCEPT ![issuer[s].invoice] = document[issuer[s].invoice] + 1]
    BY <1>10 DEF CreateAnswered
  <2>3. /\ document' \in [Invoices -> Nat]
        /\ document'[issuer[s].invoice] > 0
        /\ \A i \in Invoices : document'[i] >= document[i]
    BY <2>2
  <2>4. RecordsDocument'
    BY <2>1, <2>2, <2>3
  <2>5. IssuedHasDocument' /\ StraysAreDocuments'
    BY <2>2, <2>3
  <2>6. RetryNeverDuplicates'
    <3>1. \A t \in Issuers : issuer'[t].pc = "create" => issuer'[t] = issuer[t] /\ t # s
      BY <2>1, <2>2
    <3>2. \A t \in Issuers : t # s /\ issuer[t].pc = "create" => issuer[t].invoice # issuer[s].invoice
      BY <2>2
    <3> QED
      BY <2>2, <3>1, <3>2
  <2> QED
    BY <2>1, <2>2, <2>3, <2>4, <2>5, <2>6, NextRequest
<1>11. ASSUME NEW s \in Issuers, CreateRefused(s) \/ CreateTimesOut(s) PROVE IInv'
  <2>1. /\ issuer' = [issuer EXCEPT ![s].pc = "fail"]
        /\ UNCHANGED <<row, document, strays, due, crashes, clicks>>
        /\ issuer[s].pc = "create"
    BY <1>11 DEF CreateRefused, CreateTimesOut
  <2>2. late' \in [Invoices -> Nat]
    <3>1. CASE UNCHANGED late
      BY <3>1
    <3>2. CASE late' = [late EXCEPT ![issuer[s].invoice] = late[issuer[s].invoice] + 1]
      <4>1. late[issuer[s].invoice] + 1 \in Nat
        BY <2>1
      <4> QED
        BY <3>2, <4>1
    <3> QED
      BY <1>11, <3>1, <3>2 DEF CreateRefused, CreateTimesOut
  <2>3. RecordsDocument' /\ RetryNeverDuplicates'
    BY <2>1
  <2> QED
    BY <2>1, <2>2, <2>3, NextRequest
<1>12. ASSUME NEW s \in Issuers, Record(s) PROVE IInv'
  <2>1. /\ issuer[s].pc = "record" /\ document[issuer[s].invoice] > 0
        /\ row' = [row EXCEPT ![issuer[s].invoice].status = "issued",
                              ![issuer[s].invoice].next = "never"]
        /\ issuer' = [issuer EXCEPT ![s] = IdleIssuer]
        /\ UNCHANGED <<document, late, strays, due, crashes, clicks>>
    BY <1>12 DEF Record
  <2> HIDE DEF IInv, TypeOK
  <2> QED
    BY <2>1, AttemptEnds
<1>13. ASSUME NEW s \in Issuers, Fail(s) PROVE IInv'
  <2>1. PICK next \in {"later", "never"} :
          row' = [row EXCEPT ![issuer[s].invoice].status = "failed",
                             ![issuer[s].invoice].next = next]
    BY <1>13 DEF Fail
  <2>2. /\ issuer[s].pc = "fail"
        /\ issuer' = [issuer EXCEPT ![s] = IdleIssuer]
        /\ UNCHANGED <<document, late, strays, due, crashes, clicks>>
    BY <1>13 DEF Fail
  <2> HIDE DEF IInv, TypeOK
  <2> QED
    BY <2>1, <2>2, AttemptEnds
<1>14. ASSUME NEW s \in Issuers, Crash(s) PROVE IInv'
  BY <1>14 DEF Crash, IdleIssuer
<1>15. CASE UNCHANGED vars
  BY <1>15 DEF vars
<1> QED
  BY <1>1, <1>2, <1>3, <1>4, <1>5, <1>6, <1>7, <1>8, <1>9, <1>10, <1>11, <1>12, <1>13, <1>14, <1>15
  DEF Next, SweepStep, IssueStep, Issuers
-----------------------------------------------------------------------------
\* The columns, and the invariant that makes the others inductive.
THEOREM InductiveInvariant == Spec => []IInv
BY InitIInv, NextIInv, PTL DEF Spec

THEOREM TypeCorrect == Spec => []TypeOK
BY InductiveInvariant, PTL DEF IInv

\* Two attempts on one invoice never run at the same time, for any number of
\* replicas and clicks (the conditional update of issueOne).
THEOREM OneIssuerAtATime == Spec => []OneIssuer
BY InductiveInvariant, PTL DEF IInv

\* An invoice recorded as issued has its document at Linet.
THEOREM IssuedIsAtLinet == Spec => []IssuedHasDocument
BY InductiveInvariant, PTL DEF IInv

\* A retry never makes a second document, but for requests that Linet finished
\* after their client had given up (the search of issueOne).
THEOREM RetriesSearchFirst == Spec => []RetryNeverDuplicates
BY InductiveInvariant, PTL DEF IInv

\* No late failure overwrites an issued document.
THEOREM IssuedIsFinal == Spec => IssuedStays
<1>1. IInv /\ [Next]_vars =>
        [\A i \in Invoices : row[i].status = "issued" => row'[i].status = "issued"]_vars
  <2> SUFFICES ASSUME IInv, [Next]_vars, NEW i \in Invoices, row[i].status = "issued"
               PROVE  row'[i].status = "issued"
    OBVIOUS
  <2> USE DEF IInv, TypeOK, OneIssuer, WorksOnInvoice, Issuing
  <2>1. ASSUME NEW s \in Issuers, Claim(s) PROVE row'[i].status = "issued"
    BY <2>1 DEF Claim, Claimable
  <2>2. ASSUME NEW s \in Issuers, Record(s) \/ Fail(s) PROVE row'[i].status = "issued"
    BY <2>2 DEF Record, Fail
  <2>3. ASSUME NEW j \in Invoices, Queue(j) \/ Time(j) PROVE row'[i].status = "issued"
    BY <2>3 DEF Queue, Time, RetryTime, StuckTime
  <2>4. CASE row' = row
    BY <2>4
  <2> QED
    BY <2>1, <2>2, <2>3, <2>4
    DEF Next, SweepStep, IssueStep, Issuers, FinishLate, ListDue, TakeListed, Click, ClaimLost, Lookup,
        CreateAnswered, CreateRefused, CreateTimesOut, Crash, vars
<1> QED
  BY <1>1, InductiveInvariant, PTL DEF Spec, IssuedStays
===============================================================================
