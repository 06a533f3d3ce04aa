----------------------------- MODULE CreditLedger -----------------------------
(***************************************************************************)
(* The credits of one office: an append-only ledger of which the balance   *)
(* is the sum, and the replay that finds out which of the credits received *)
(* are still there (planCreditExpiry).  A row of the ledger that gives     *)
(* credits is a batch; charges empty the batches in a fixed order, and a   *)
(* row "expiry" writes off what is left of one of them.  A row is referred *)
(* to by its place.                                                        *)
(*                                                                         *)
(* Sums and replays are functions of the number of rows read so far, as    *)
(* the code's loops are.  Rows stand in the order of their commits.  The   *)
(* code sorts them by created_at, then id: the same order as long as no    *)
(* charge is stamped before the gift that paid for it.                     *)
(***************************************************************************)
EXTENDS Integers, Sequences, FiniteSetsExt

Entry(kind, amount, ref) == [kind |-> kind, amount |-> amount, ref |-> ref]

\* The sums of the first i numbers of f, and of all.
Running(f) == LET sum[i \in 0..Len(f)] == IF i = 0 THEN 0 ELSE sum[i - 1] + f[i] IN sum

Total(f) == Running(f)[Len(f)]

SumOf(L) == Total([i \in DOMAIN L |-> L[i].amount])

\* What an office was given lapses, what it bought does not.
Lapses(e) == e.kind \in {"initial_grant", "lead_sale"}

\* What is left of the batches that lapse, and of those that do not.
Given(L, left)  == [b \in DOMAIN left |-> IF Lapses(L[b]) THEN left[b] ELSE 0]
Bought(L, left) == [b \in DOMAIN left |-> IF Lapses(L[b]) THEN 0 ELSE left[b]]

\* A charge empties the batch that lapses first; what never lapses comes last.
\* What the batches before b hold:
Ahead(L, left, b) ==
  LET given  == Running(Given(L, left))
      bought == Running(Bought(L, left)) IN
  IF Lapses(L[b]) THEN given[b - 1] ELSE given[Len(left)] + bought[b - 1]

\* What a charge leaves of a batch: the batches before it pay first.
Kept(amount, ahead, here) ==
  IF amount <= ahead THEN here ELSE IF amount - ahead <= here THEN here - (amount - ahead) ELSE 0

Charge(L, left, amount) == [b \in DOMAIN left |-> Kept(amount, Ahead(L, left, b), left[b])]

\* Row i of the ledger, read after the rows before it have left so much.
Replayed(L, left, i) ==
  CASE L[i].kind = "expiry" -> Append([left EXCEPT ![L[i].ref] = Max({0, @ + L[i].amount})], 0)
    [] L[i].kind # "expiry" /\ L[i].amount > 0 -> Append(left, L[i].amount)
    [] OTHER -> Append(Charge(L, left, -L[i].amount), 0)

\* What is left of every row of the ledger that gave credits.
Remaining(L) ==
  LET left[i \in 0..Len(L)] == IF i = 0 THEN <<>> ELSE Replayed(L, left[i - 1], i)
  IN  left[Len(L)]

\* Mutant of PlannedOf: a batch is written off as it was given, spent or not.
PlannedInFull(L, n) ==
  LET left == Remaining(L)
      rows[b \in 0..n] ==
        IF b = 0 THEN <<>>
        ELSE IF Lapses(L[b]) /\ left[b] > 0 THEN Append(rows[b - 1], Entry("expiry", -L[b].amount, b))
        ELSE rows[b - 1]
  IN  rows[n]

\* What is to be written off when the first n rows are past their validity: gifts
\* as far as they are left, in the order of the rows.
PlannedOf(L, n) ==
  LET left == Remaining(L)
      rows[b \in 0..n] ==
        IF b = 0 THEN <<>>
        ELSE IF Lapses(L[b]) /\ left[b] > 0 THEN Append(rows[b - 1], Entry("expiry", -left[b], b))
        ELSE rows[b - 1]
  IN  rows[n]

\* The rows that write batch b off.
ExpiryOf(L, b) == {i \in DOMAIN L : L[i].kind = "expiry" /\ L[i].ref = b}
===============================================================================
