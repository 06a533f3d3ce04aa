--------------------------- MODULE LeadMarketProofs ---------------------------
(***************************************************************************)
(* Proofs about the lead board and the credits it is paid with             *)
(* (CreditLedger, LeadMarket), and about the desk that pays referrers out  *)
(* (PayoutDesk), for any number of offices, leads, requests and replicas,  *)
(* any prices, and ledgers of any length.                                  *)
(*                                                                         *)
(* The ledger by itself.  The replay and the sums are recursive functions; *)
(* that they exist, and what they are row by row, follows from the         *)
(* well-foundedness of <.  A ledger is Reconciled when the replay leaves   *)
(* no batch below zero, the batches add up to the balance, and a batch     *)
(* that was written off lapses, is empty, and was written off once.  Each  *)
(* of the three kinds of rows keeps that: credits that come in, a charge   *)
(* the balance covers, a plan of the sweep that still stands.              *)
(*                                                                         *)
(* The market.  MarketInv has three parts.  Board: a referral is claimed   *)
(* by one request, the spending lock of an office is held by one request   *)
(* or replica, and whoever claimed a referral has it unsold.  Books: every *)
(* ledger is Reconciled, whoever has the lock still has the credits it     *)
(* read, and what a replica is about to write off is still what is left;   *)
(* both survive the credits others send meanwhile, since these are only    *)
(* added.  Sales: the rows of a sale and of an offer are counted, once     *)
(* with the sale and not at all without.                                   *)
(*                                                                         *)
(* The desk.  NeverOverdrawn needs that the amount an open request has     *)
(* checked is still there (Covered), which holds because the lock lets one *)
(* of them in (OneAsks) and everybody else only adds.  DecidedOnce needs   *)
(* that what an administrator is about to write was allowed from the       *)
(* status that was read (LegalDecisions); that the row still has it is the *)
(* condition of the update.                                                *)
(***************************************************************************)
EXTENDS LeadMarket, PayoutDesk, SequenceTheorems, FiniteSetTheorems, WellFoundedInduction, TLAPS

\* A set of naturals that has 0 and with every number the next one has them all:
\* induction on the number of rows read is applied to such sets.
LEMMA AllNumbers ==
  ASSUME NEW S, 0 \in S, \A n \in Nat : n \in S => n + 1 \in S
  PROVE  Nat \subseteq S
<1> DEFINE T == Nat \ S
<1> SUFFICES ASSUME T # {} PROVE FALSE
  OBVIOUS
<1>1. PICK n \in T : \A k \in T : ~(<<k, n>> \in OpToRel(<, Nat))
  <2> HIDE DEF T
  <2>1. T \subseteq Nat
    BY DEF T
  <2> QED
    BY <2>1, NatLessThanWellFounded, WFMin
<1>2. n # 0 /\ n \in Nat
  OBVIOUS
<1>3. n - 1 \in Nat /\ n - 1 < n /\ (n - 1) + 1 = n
  BY <1>2
<1>4. n - 1 \in T
  BY <1>3
<1>5. <<n - 1, n>> \in OpToRel(<, Nat)
  BY <1>2, <1>3 DEF OpToRel
<1> QED
  BY <1>1, <1>4, <1>5

-----------------------------------------------------------------------------
(***************************************************************************)
(* Sums.                                                                   *)
(***************************************************************************)
IsRunning(f, sum) ==
  sum = [i \in 0..Len(f) |-> IF i = 0 THEN 0 ELSE sum[i - 1] + f[i]]

\* The function that Running defines by recursion exists.
LEMMA RunningExists ==
  ASSUME NEW f \in Seq(Int)
  PROVE  IsRunning(f, Running(f))
<1> DEFINE Upto(n) == {g \in [0..n -> Int] : \A i \in 0..n : g[i] = IF i = 0 THEN 0 ELSE g[i - 1] + f[i]}
           S == {n \in Nat : n <= Len(f) => Upto(n) # {}}
<1>1. 0 \in S
  <2>1. [i \in 0..0 |-> 0] \in Upto(0)
    OBVIOUS
  <2> QED
    BY <2>1
<1>2. ASSUME NEW n \in Nat, n \in S PROVE n + 1 \in S
  <2> SUFFICES ASSUME n + 1 <= Len(f) PROVE Upto(n + 1) # {}
    <3> HIDE DEF Upto
    <3> QED
      OBVIOUS
  <2>a. Len(f) \in Nat /\ DOMAIN f = 1..Len(f)
    BY LenProperties
  <2>b. Upto(n) # {}
    <3> HIDE DEF Upto
    <3> QED
      BY <1>2, <2>a
  <2>1. PICK g : g \in Upto(n)
    BY <2>b
  <2> DEFINE h == [i \in 0..(n + 1) |-> IF i <= n THEN g[i] ELSE g[n] + f[n + 1]]
  <2>2. f[n + 1] \in Int
    BY LenProperties
  <2>3. h \in [0..(n + 1) -> Int]
    BY <2>1, <2>2
  <2>4. ASSUME NEW i \in 0..(n + 1) PROVE h[i] = IF i = 0 THEN 0 ELSE h[i - 1] + f[i]
    <3>1. CASE i <= n
      <4>1. g[i] = IF i = 0 THEN 0 ELSE g[i - 1] + f[i]
        BY <3>1, <2>1
      <4> QED
        BY <3>1, <4>1
    <3>2. CASE i = n + 1
      BY <3>2
    <3> QED
      BY <3>1, <3>2
  <2>5. h \in Upto(n + 1)
    BY <2>3, <2>4
  <2> QED
    BY <2>5
<1>3. Len(f) \in S
  <2> HIDE DEF S
  <2> QED
    BY <1>1, <1>2, AllNumbers, LenProperties
<1>4. PICK g : g \in Upto(Len(f))
  BY <1>3, LenProperties
<1>5. IsRunning(f, g)
  BY <1>4 DEF IsRunning
<1>6. Running(f) = CHOOSE sum : IsRunning(f, sum)
  BY DEF Running, IsRunning
<1> QED
  BY <1>5, <1>6


\* Its values, one after the other.
LEMMA RunningRule ==
  ASSUME NEW f \in Seq(Int)
  PROVE  /\ Running(f) \in [0..Len(f) -> Int]
         /\ Running(f)[0] = 0
         /\ \A i \in 1..Len(f) : Running(f)[i] = Running(f)[i - 1] + f[i]
<1> DEFINE sum == Running(f)
           S == {n \in Nat : n <= Len(f) => sum[n] \in Int}
<1>1. IsRunning(f, sum)
  BY RunningExists
<1> HIDE DEF sum
<1>2. Len(f) \in Nat /\ f \in [1..Len(f) -> Int]
  BY LenProperties
<1>3. DOMAIN sum = 0..Len(f) /\ \A i \in 0..Len(f) : sum[i] = IF i = 0 THEN 0 ELSE sum[i - 1] + f[i]
  BY <1>1 DEF IsRunning
<1>4. sum[0] = 0 /\ \A i \in 1..Len(f) : sum[i] = sum[i - 1] + f[i]
  BY <1>2, <1>3
<1>5. 0 \in S
  BY <1>4
<1>6. ASSUME NEW n \in Nat, n \in S PROVE n + 1 \in S
  <2> SUFFICES ASSUME n + 1 <= Len(f) PROVE sum[n + 1] \in Int
    OBVIOUS
  <2>1. n + 1 \in 1..Len(f) /\ (n + 1) - 1 = n /\ sum[n] \in Int
    BY <1>2, <1>6
  <2> QED
    BY <1>2, <1>4, <2>1
<1>7. Nat \subseteq S
  <2> HIDE DEF S
  <2> QED
    BY <1>5, <1>6, AllNumbers
<1>8. \A i \in 0..Len(f) : sum[i] \in Int
  BY <1>2, <1>7
<1>9. sum = [i \in 0..Len(f) |-> sum[i]]
  BY <1>1 DEF IsRunning
<1>10. sum \in [0..Len(f) -> Int]
  BY <1>8, <1>9
<1> QED
  BY <1>4, <1>10 DEF sum

\* Sequences that agree up to n have the same sums up to n.
LEMMA SameSums ==
  ASSUME NEW f \in Seq(Int), NEW g \in Seq(Int), NEW m \in Nat, m <= Len(f), m <= Len(g),
         \A i \in 1..m : f[i] = g[i]
  PROVE  \A i \in 0..m : Running(f)[i] = Running(g)[i]
<1> DEFINE S == {n \in Nat : n <= m => Running(f)[n] = Running(g)[n]}
<1>1. 0 \in S
  BY RunningRule
<1>2. ASSUME NEW n \in Nat, n \in S PROVE n + 1 \in S
  <2> SUFFICES ASSUME n + 1 <= m PROVE Running(f)[n + 1] = Running(g)[n + 1]
    OBVIOUS
  <2>1. Running(f)[n] = Running(g)[n]
    BY <1>2
  <2>2. n + 1 \in 1..Len(f) /\ n + 1 \in 1..Len(g) /\ n + 1 \in 1..m /\ (n + 1) - 1 = n
    BY LenProperties
  <2> QED
    BY <2>1, <2>2, RunningRule
<1>3. Nat \subseteq S
  <2> HIDE DEF S
  <2> QED
    BY <1>1, <1>2, AllNumbers
<1> QED
  BY <1>3

\* The sum of a longer sequence.
LEMMA TotalOfAppend ==
  ASSUME NEW f \in Seq(Int), NEW x \in Int
  PROVE  Total(f) \in Int /\ Total(Append(f, x)) = Total(f) + x
<1> DEFINE g == Append(f, x)
           n == Len(f)
<1>1. n \in Nat /\ g \in Seq(Int) /\ Len(g) = n + 1 /\ g[n + 1] = x /\ \A i \in 1..n : g[i] = f[i]
  BY LenProperties, AppendProperties
<1>a. n <= Len(f) /\ n <= Len(g)
  BY <1>1
<1> HIDE DEF g, n
<1>2. Running(g)[n] = Running(f)[n]
  <2>1. \A i \in 0..n : Running(g)[i] = Running(f)[i]
    BY <1>1, <1>a, SameSums, Zenon
  <2> QED
    BY <1>1, <2>1
<1>3. Running(g)[n + 1] = Running(g)[n] + g[n + 1]
  <2>1. n + 1 \in 1..Len(g) /\ (n + 1) - 1 = n
    BY <1>1
  <2> QED
    BY <1>1, <2>1, RunningRule
<1>4. Running(f)[n] \in Int
  BY <1>1, RunningRule DEF n
<1> QED
  BY <1>1, <1>2, <1>3, <1>4 DEF Total, g, n

\* Numbers that are not negative have sums that are not, and that never fall.
LEMMA SumsOfNaturals ==
  ASSUME NEW f \in Seq(Nat)
  PROVE  /\ f \in Seq(Int)
         /\ Running(f) \in [0..Len(f) -> Nat]
<1> DEFINE S == {n \in Nat : n <= Len(f) => Running(f)[n] \in Nat}
<1>1. Len(f) \in Nat /\ f \in [1..Len(f) -> Nat] /\ f \in Seq(Int)
  <2>1. \A i \in 1..Len(f) : f[i] \in Int
    BY LenProperties
  <2> QED
    BY <2>1, LenProperties
<1>2. 0 \in S
  BY <1>1, RunningRule
<1>3. ASSUME NEW n \in Nat, n \in S PROVE n + 1 \in S
  <2> SUFFICES ASSUME n + 1 <= Len(f) PROVE Running(f)[n + 1] \in Nat
    OBVIOUS
  <2>1. n + 1 \in 1..Len(f) /\ (n + 1) - 1 = n /\ Running(f)[n] \in Nat
    BY <1>1, <1>3
  <2>2. Running(f)[n + 1] = Running(f)[n] + f[n + 1] /\ f[n + 1] \in Nat
    BY <1>1, <2>1, RunningRule
  <2> QED
    BY <2>1, <2>2
<1>4. Nat \subseteq S
  <2> HIDE DEF S
  <2> QED
    BY <1>2, <1>3, AllNumbers
<1>5. Running(f) \in [0..Len(f) -> Int]
  BY <1>1, RunningRule
<1>6. \A i \in 0..Len(f) : Running(f)[i] \in Nat
  BY <1>1, <1>4
<1> QED
  BY <1>1, <1>5, <1>6

\* A sum telescopes: whatever grows by f[i] at i is the sum of f.
LEMMA Telescopes ==
  ASSUME NEW f \in Seq(Int), NEW d \in [0..Len(f) -> Int], d[0] = 0,
         \A i \in 1..Len(f) : f[i] = d[i] - d[i - 1]
  PROVE  Running(f) = d /\ Total(f) = d[Len(f)]
<1> DEFINE S == {n \in Nat : n <= Len(f) => Running(f)[n] = d[n]}
<1>1. Len(f) \in Nat
  BY LenProperties
<1>2. 0 \in S
  BY <1>1, RunningRule
<1>3. ASSUME NEW n \in Nat, n \in S PROVE n + 1 \in S
  <2> SUFFICES ASSUME n + 1 <= Len(f) PROVE Running(f)[n + 1] = d[n + 1]
    OBVIOUS
  <2>1. n + 1 \in 1..Len(f) /\ (n + 1) - 1 = n /\ Running(f)[n] = d[n]
    BY <1>1, <1>3
  <2>2. d[n] \in Int /\ d[n + 1] \in Int
    <3>1. n \in 0..Len(f) /\ n + 1 \in 0..Len(f)
      BY <1>1, <2>1
    <3> QED
      BY <3>1
  <2>3. Running(f)[n + 1] = Running(f)[n] + f[n + 1] /\ f[n + 1] = d[n + 1] - d[n]
    BY <2>1, RunningRule
  <2> QED
    BY <2>1, <2>2, <2>3
<1>4. Nat \subseteq S
  <2> HIDE DEF S
  <2> QED
    BY <1>2, <1>3, AllNumbers
<1>5. \A i \in 0..Len(f) : Running(f)[i] = d[i]
  BY <1>1, <1>4
<1>6. Running(f) \in [0..Len(f) -> Int]
  BY RunningRule
<1>7. Running(f) = d
  BY <1>5, <1>6
<1> QED
  BY <1>7 DEF Total

\* A sum from which c was taken and to which v was added.
Shifted(sum, c, v) == sum - c + v

\* The sum after one number is exchanged.
LEMMA TotalOfExchange ==
  ASSUME NEW f, NEW b, NEW v \in Int
  PROVE  f \in Seq(Int) /\ b \in 1..Len(f) => Total([f EXCEPT ![b] = v]) = Total(f) - f[b] + v
<1>h. HAVE f \in Seq(Int) /\ b \in 1..Len(f)
<1> DEFINE n == Len(f)
           g == [f EXCEPT ![b] = v]
           sum == Running(f)
           d == [i \in 0..n |-> IF i < b THEN sum[i] ELSE Shifted(sum[i], f[b], v)]
<1>1. n \in Nat /\ f \in [1..n -> Int] /\ b \in 1..n
  BY <1>h, LenProperties
<1>2. g \in Seq(Int) /\ Len(g) = n /\ \A i \in 1..n : g[i] = IF i = b THEN v ELSE f[i]
  BY <1>h, <1>1, ExceptSeq
<1>3. sum \in [0..n -> Int] /\ sum[0] = 0 /\ \A i \in 1..n : sum[i] = sum[i - 1] + f[i]
  BY <1>h, RunningRule
<1>4. Total(f) = sum[n]
  BY DEF Total
<1>5. Total(f) - f[b] + v = Shifted(sum[n], f[b], v)
  BY <1>4 DEF Shifted
<1>6. g = [f EXCEPT ![b] = v]
  OBVIOUS
<1> HIDE DEF n, g, sum
<1>7. b \in Int /\ 0 < b /\ b <= n /\ f[b] \in Int
  BY <1>1
<1>8. \A i \in 0..n : sum[i] \in Int /\ Shifted(sum[i], f[b], v) \in Int
  BY <1>3, <1>7 DEF Shifted
<1>9. d \in [0..n -> Int] /\ d[0] = 0 /\ d[n] = Shifted(sum[n], f[b], v)
  <2>1. 0 \in 0..n /\ n \in 0..n /\ 0 < b /\ ~(n < b)
    BY <1>1, <1>7
  <2>2. \A i \in 0..n : (IF i < b THEN sum[i] ELSE Shifted(sum[i], f[b], v)) \in Int
    BY <1>8, Zenon
  <2> QED
    BY <1>3, <2>1, <2>2, Zenon
<1>10. ASSUME NEW i \in 1..n PROVE g[i] = d[i] - d[i - 1]
  <2>1. i - 1 \in 0..n /\ i \in 0..n /\ f[i] \in Int /\ i \in Int
    BY <1>1
  <2>2. sum[i] \in Int /\ sum[i - 1] \in Int /\ sum[i] = sum[i - 1] + f[i]
    BY <1>3, <2>1
  <2>3. d[i] = IF i < b THEN sum[i] ELSE Shifted(sum[i], f[b], v)
    BY <2>1
  <2>4. d[i - 1] = IF i - 1 < b THEN sum[i - 1] ELSE Shifted(sum[i - 1], f[b], v)
    BY <2>1
  <2> HIDE DEF d
  <2>5. /\ Shifted(sum[i], f[b], v) - Shifted(sum[i - 1], f[b], v) = f[i]
        /\ Shifted(sum[i], f[i], v) - sum[i - 1] = v
        /\ sum[i] - sum[i - 1] = f[i]
    BY <1>7, <2>1, <2>2 DEF Shifted
  <2>6. CASE i < b
    <3>1. i - 1 < b /\ i # b
      BY <1>7, <2>1, <2>6
    <3> QED
      BY <1>2, <2>3, <2>4, <2>5, <2>6, <3>1, Zenon
  <2>7. CASE i = b
    <3>1. ~(i < b) /\ i - 1 < b
      BY <1>7, <2>1, <2>7
    <3> QED
      BY <1>2, <2>3, <2>4, <2>5, <2>7, <3>1, Zenon
  <2>8. CASE i > b
    <3>1. ~(i < b) /\ ~(i - 1 < b) /\ i # b
      BY <1>7, <2>1, <2>8
    <3> QED
      BY <1>2, <2>3, <2>4, <2>5, <3>1, Zenon
  <2> QED
    BY <1>7, <2>1, <2>6, <2>7, <2>8
<1> HIDE DEF d
<1>11. Total(g) = d[n]
  BY <1>2, <1>9, <1>10, Telescopes
<1> QED
  BY <1>5, <1>6, <1>9, <1>11

-----------------------------------------------------------------------------
(***************************************************************************)
(* A charge.                                                               *)
(***************************************************************************)
\* A sequence of the same length, place by place.
LEMMA PlaceByPlace ==
  ASSUME NEW S, NEW f, NEW n \in Nat, f \in [1..n -> S]
  PROVE  f \in Seq(S) /\ Len(f) = n
BY LenProperties

\* The two pools are what is left, and neither holds less than nothing.
LEMMA PoolsShare ==
  ASSUME NEW L, NEW left \in Seq(Nat), NEW given, NEW bought,
         given = Running(Given(L, left)), bought = Running(Bought(L, left))
  PROVE  /\ given \in [0..Len(left) -> Nat] /\ bought \in [0..Len(left) -> Nat]
         /\ given[0] = 0 /\ bought[0] = 0
         /\ \A i \in 1..Len(left) :
              /\ given[i] = given[i - 1] + (IF Lapses(L[i]) THEN left[i] ELSE 0)
              /\ bought[i] = bought[i - 1] + (IF Lapses(L[i]) THEN 0 ELSE left[i])
         /\ \A i \in 0..Len(left) : Running(left)[i] = given[i] + bought[i]
<1> DEFINE n == Len(left)
<1>1. n \in Nat /\ left \in [1..n -> Nat] /\ DOMAIN left = 1..n
  BY LenProperties
<1>2. /\ Given(L, left) \in Seq(Nat) /\ Len(Given(L, left)) = n
      /\ Bought(L, left) \in Seq(Nat) /\ Len(Bought(L, left)) = n
  <2>1. Given(L, left) \in [1..n -> Nat] /\ Bought(L, left) \in [1..n -> Nat]
    BY <1>1 DEF Given, Bought
  <2> QED
    BY <1>1, <2>1, PlaceByPlace
<1> HIDE DEF n
<1>3. /\ given \in [0..n -> Nat] /\ given[0] = 0
      /\ \A i \in 1..n : given[i] = given[i - 1] + Given(L, left)[i]
  <2>1. Given(L, left) \in Seq(Nat) /\ Len(Given(L, left)) = n
    BY <1>2
  <2> QED
    BY <2>1, SumsOfNaturals, RunningRule
<1>4. /\ bought \in [0..n -> Nat] /\ bought[0] = 0
      /\ \A i \in 1..n : bought[i] = bought[i - 1] + Bought(L, left)[i]
  <2>1. Bought(L, left) \in Seq(Nat) /\ Len(Bought(L, left)) = n
    BY <1>2
  <2> QED
    BY <2>1, SumsOfNaturals, RunningRule
<1>5. ASSUME NEW i \in 1..n
      PROVE  /\ given[i] = given[i - 1] + (IF Lapses(L[i]) THEN left[i] ELSE 0)
             /\ bought[i] = bought[i - 1] + (IF Lapses(L[i]) THEN 0 ELSE left[i])
  BY <1>1, <1>3, <1>4 DEF Given, Bought
<1>6. \A i \in 0..n : Running(left)[i] = given[i] + bought[i]
  <2> DEFINE d == [i \in 0..n |-> given[i] + bought[i]]
  <2>1. d \in [0..n -> Int] /\ d[0] = 0
    <3>1. \A i \in 0..n : given[i] \in Int /\ bought[i] \in Int
      BY <1>3, <1>4
    <3> QED
      BY <1>1, <1>3, <1>4, <3>1
  <2>2. ASSUME NEW i \in 1..n PROVE left[i] = d[i] - d[i - 1]
    <3>1. i - 1 \in 0..n /\ i \in 0..n /\ left[i] \in Nat
      BY <1>1
    <3>2. given[i] \in Nat /\ given[i - 1] \in Nat /\ bought[i] \in Nat /\ bought[i - 1] \in Nat
      BY <1>3, <1>4, <3>1
    <3>3. d[i] = given[i] + bought[i] /\ d[i - 1] = given[i - 1] + bought[i - 1]
      BY <3>1
    <3> HIDE DEF d
    <3>4. CASE Lapses(L[i])
      <4>1. given[i] = given[i - 1] + left[i] /\ bought[i] = bought[i - 1] + 0
        BY <1>5, <3>4
      <4> QED
        BY SMTT(30), <3>1, <3>2, <3>3, <4>1
    <3>5. CASE ~Lapses(L[i])
      <4>1. given[i] = given[i - 1] + 0 /\ bought[i] = bought[i - 1] + left[i]
        BY <1>5, <3>5
      <4> QED
        BY <3>1, <3>2, <3>3, <4>1
    <3> QED
      BY <3>4, <3>5
  <2>3. left \in Seq(Int) /\ n = Len(left)
    BY SumsOfNaturals DEF n
  <2>4. Running(left) = d
    <3> HIDE DEF d
    <3> QED
      BY <2>1, <2>2, <2>3, Telescopes
  <2> QED
    BY <2>4
<1> QED
  BY <1>3, <1>4, <1>5, <1>6 DEF n

Lesser(x, y) == IF x <= y THEN x ELSE y

\* What is left of two pools of which the first pays the charge before the second.
LeftOf(amount, rest, given, bought) == given + bought - Lesser(amount, given) - Lesser(rest, bought)

\* Nothing is left of a charge of nothing, and a charge takes what it asks for.
LEMMA LeftOfPools ==
  ASSUME NEW amount \in Nat, NEW first \in Nat, NEW rest, rest = amount - Lesser(amount, first)
  PROVE  /\ rest \in Nat
         /\ \A g, w \in Nat : LeftOf(amount, rest, g, w) \in Int
         /\ LeftOf(amount, rest, 0, 0) = 0
         /\ \A w \in Nat : amount <= first + w => LeftOf(amount, rest, first, w) = first + w - amount
BY DEF LeftOf, Lesser

\* A charge that the balance covers takes just its amount, from no batch more
\* than is there.
LEMMA ChargeTakes ==
  ASSUME NEW L, NEW left, NEW amount \in Nat
  PROVE  left \in Seq(Nat) /\ amount <= Total(left) =>
           /\ Charge(L, left, amount) \in Seq(Nat)
           /\ Len(Charge(L, left, amount)) = Len(left)
           /\ \A b \in 1..Len(left) : Charge(L, left, amount)[b] <= left[b]
           /\ Total(Charge(L, left, amount)) = Total(left) - amount
<1>h. HAVE left \in Seq(Nat) /\ amount <= Total(left)
<1> DEFINE n == Len(left)
           given == Running(Given(L, left))
           bought == Running(Bought(L, left))
           after == Charge(L, left, amount)
           rest == amount - Lesser(amount, given[n])
           d == [i \in 0..n |-> LeftOf(amount, rest, given[i], bought[i])]
<1>1. n \in Nat /\ left \in [1..n -> Nat] /\ DOMAIN left = 1..n
  BY <1>h, LenProperties
<1>2. /\ given \in [0..n -> Nat] /\ bought \in [0..n -> Nat]
      /\ given[0] = 0 /\ bought[0] = 0
      /\ \A i \in 1..n :
           /\ given[i] = given[i - 1] + (IF Lapses(L[i]) THEN left[i] ELSE 0)
           /\ bought[i] = bought[i - 1] + (IF Lapses(L[i]) THEN 0 ELSE left[i])
      /\ \A i \in 0..n : Running(left)[i] = given[i] + bought[i]
  BY <1>h, PoolsShare
<1>3. \A b \in 1..n : after[b] = Kept(amount, Ahead(L, left, b), left[b])
  BY <1>1 DEF Charge
<1>4. \A b \in 1..n : Ahead(L, left, b) = IF Lapses(L[b]) THEN given[b - 1] ELSE given[n] + bought[b - 1]
  BY DEF Ahead
<1>5. after = [b \in 1..n |-> after[b]]
  BY <1>1 DEF Charge
<1>6. Total(left) = given[n] + bought[n]
  BY <1>1, <1>2 DEF Total
<1>7. n = Len(left) /\ after = Charge(L, left, amount)
  OBVIOUS
<1>8. rest = amount - Lesser(amount, given[n])
  OBVIOUS
<1> HIDE DEF n, given, bought, after, rest
<1>9. given[n] \in Nat /\ bought[n] \in Nat /\ amount <= given[n] + bought[n]
  BY <1>h, <1>1, <1>2, <1>6
<1>10. /\ rest \in Nat
       /\ \A g, w \in Nat : LeftOf(amount, rest, g, w) \in Int
       /\ LeftOf(amount, rest, 0, 0) = 0
       /\ LeftOf(amount, rest, given[n], bought[n]) = given[n] + bought[n] - amount
  BY <1>8, <1>9, LeftOfPools
<1>11. \A i \in 0..n : given[i] \in Nat /\ bought[i] \in Nat
  BY <1>2
<1>12. d \in [0..n -> Int] /\ d[0] = 0 /\ d[n] = given[n] + bought[n] - amount
  <2>1. 0 \in 0..n /\ n \in 0..n
    BY <1>1
  <2>2. \A i \in 0..n : LeftOf(amount, rest, given[i], bought[i]) \in Int
    BY <1>10, <1>11, Zenon
  <2> QED
    BY <1>2, <1>10, <2>1, <2>2, Zenon
<1>13. ASSUME NEW b \in 1..n
       PROVE  after[b] \in Nat /\ after[b] <= left[b] /\ after[b] = d[b] - d[b - 1]
  <2>1. b \in 0..n /\ b - 1 \in 0..n /\ left[b] \in Nat
    BY <1>1
  <2>2. given[b] \in Nat /\ given[b - 1] \in Nat /\ bought[b] \in Nat /\ bought[b - 1] \in Nat
    BY <1>11, <2>1
  <2>3. d[b] = LeftOf(amount, rest, given[b], bought[b])
    BY <2>1
  <2>4. d[b - 1] = LeftOf(amount, rest, given[b - 1], bought[b - 1])
    BY <2>1
  <2> HIDE DEF d
  <2>5. CASE Lapses(L[b])
    <3>1. given[b] = given[b - 1] + left[b] /\ bought[b] = bought[b - 1]
      <4>1. bought[b] = bought[b - 1] + 0 /\ given[b] = given[b - 1] + left[b]
        BY <1>2, <2>5
      <4> QED
        BY <2>2, <4>1
    <3>2. after[b] = Kept(amount, given[b - 1], left[b])
      BY <1>3, <1>4, <2>5
    <3>3. /\ Kept(amount, given[b - 1], left[b]) \in Nat /\ Kept(amount, given[b - 1], left[b]) <= left[b]
          /\ Kept(amount, given[b - 1], left[b]) = LeftOf(amount, rest, given[b], bought[b - 1])
                                                    - LeftOf(amount, rest, given[b - 1], bought[b - 1])
      BY <1>10, <2>1, <2>2, <3>1 DEF Kept, LeftOf, Lesser
    <3> QED
      BY <2>3, <2>4, <3>1, <3>2, <3>3, Zenon
  <2>6. CASE ~Lapses(L[b])
    <3>1. bought[b] = bought[b - 1] + left[b] /\ given[b] = given[b - 1]
      <4>1. given[b] = given[b - 1] + 0 /\ bought[b] = bought[b - 1] + left[b]
        BY <1>2, <2>6
      <4> QED
        BY <2>2, <4>1
    <3> DEFINE ahead == given[n] + bought[b - 1]
    <3>2. after[b] = Kept(amount, ahead, left[b])
      BY <1>3, <1>4, <2>6
    <3>3. ahead \in Nat /\ ahead = given[n] + bought[b - 1]
      BY <1>9, <2>2
    <3> HIDE DEF ahead
    <3>4. /\ Kept(amount, ahead, left[b]) \in Nat /\ Kept(amount, ahead, left[b]) <= left[b]
          /\ Kept(amount, ahead, left[b]) = LeftOf(amount, rest, given[b], bought[b])
                                              - LeftOf(amount, rest, given[b], bought[b - 1])
      <4> DEFINE w == bought[b - 1]
                 w1 == bought[b]
                 here == left[b]
                 g == given[b]
                 first == given[n]
      <4>1. /\ w \in Nat /\ here \in Nat /\ g \in Nat /\ first \in Nat /\ w1 = w + here
            /\ ahead = first + w /\ rest = amount - Lesser(amount, first)
        BY <1>8, <1>9, <2>1, <2>2, <3>1, <3>3
      <4> HIDE DEF w, w1, here, g, first
      <4>2. /\ Kept(amount, ahead, here) \in Nat /\ Kept(amount, ahead, here) <= here
            /\ Kept(amount, ahead, here) = LeftOf(amount, rest, g, w1) - LeftOf(amount, rest, g, w)
        BY <4>1 DEF Kept, LeftOf, Lesser
      <4> QED
        BY <4>2 DEF w, w1, here, g
    <3> QED
      BY <2>3, <2>4, <3>1, <3>2, <3>4, Zenon
  <2> QED
    BY <2>5, <2>6
<1> HIDE DEF d
<1>14. after \in Seq(Nat) /\ Len(after) = n
  <2>1. after \in [1..n -> Nat]
    BY <1>5, <1>13
  <2> QED
    BY <1>1, <2>1, PlaceByPlace
<1>15. Total(after) = d[n]
  <2>1. after \in Seq(Int)
    BY <1>14, SumsOfNaturals
  <2> QED
    BY <1>12, <1>13, <1>14, <2>1, Telescopes
<1>16. Total(after) = Total(left) - amount
  BY <1>6, <1>9, <1>12, <1>15
<1> QED
  BY <1>7, <1>13, <1>14, <1>16, Zenon


-----------------------------------------------------------------------------
(***************************************************************************)
(* The replay.                                                             *)
(***************************************************************************)
Kinds == {"initial_grant", "purchase", "lead_purchase", "lead_sale", "coop_offer", "expiry"}

\* The rows of a ledger, whatever they refer to.
Entries(R) == [kind : Kinds, amount : Int, ref : R]

\* The greater of two numbers.
LEMMA MaxOfPair ==
  ASSUME NEW m \in Int, NEW n \in Int
  PROVE  Max({m, n}) = IF m >= n THEN m ELSE n
<1> DEFINE S == {m, n}
           x == IF m >= n THEN m ELSE n
<1>1. x \in S /\ \A y \in S : x >= y
  OBVIOUS
<1>2. \A z \in S : (\A y \in S : z >= y) => z = x
  OBVIOUS
<1> HIDE DEF S, x
<1>3. Max(S) = x
  BY <1>1, <1>2 DEF Max
<1> QED
  BY <1>3 DEF S, x

\* The lesser of two numbers.
LEMMA MinOfPair ==
  ASSUME NEW m \in Int, NEW n \in Int
  PROVE  Min({m, n}) = IF m <= n THEN m ELSE n
<1> DEFINE S == {m, n}
           x == IF m <= n THEN m ELSE n
<1>1. x \in S /\ \A y \in S : x =< y
  OBVIOUS
<1>2. \A z \in S : (\A y \in S : z =< y) => z = x
  OBVIOUS
<1> HIDE DEF S, x
<1>3. Min(S) = x
  BY <1>1, <1>2 DEF Min
<1> QED
  BY <1>3 DEF S, x

\* The pools are sums of integers.
LEMMA PoolsExist ==
  ASSUME NEW L, NEW left \in Seq(Int)
  PROVE  /\ Running(Given(L, left)) \in [0..Len(left) -> Int]
         /\ Running(Bought(L, left)) \in [0..Len(left) -> Int]
<1> DEFINE n == Len(left)
<1>1. n \in Nat /\ left \in [1..n -> Int] /\ DOMAIN left = 1..n
  BY LenProperties
<1>2. Given(L, left) \in [1..n -> Int] /\ Bought(L, left) \in [1..n -> Int]
  BY <1>1 DEF Given, Bought
<1>3. /\ Given(L, left) \in Seq(Int) /\ Len(Given(L, left)) = n
      /\ Bought(L, left) \in Seq(Int) /\ Len(Bought(L, left)) = n
  BY <1>1, <1>2, PlaceByPlace
<1> QED
  BY <1>3, RunningRule

\* What a charge leaves is a number for every batch.
LEMMA ChargeTypes ==
  ASSUME NEW L, NEW left \in Seq(Int), NEW amount \in Int
  PROVE  Charge(L, left, amount) \in Seq(Int) /\ Len(Charge(L, left, amount)) = Len(left)
<1> DEFINE n == Len(left)
<1>1. n \in Nat /\ left \in [1..n -> Int] /\ DOMAIN left = 1..n
  BY LenProperties
<1>2. /\ Running(Given(L, left)) \in [0..n -> Int]
      /\ Running(Bought(L, left)) \in [0..n -> Int]
  BY PoolsExist
<1>3. ASSUME NEW b \in 1..n PROVE Kept(amount, Ahead(L, left, b), left[b]) \in Int
  <2>1. Ahead(L, left, b) \in Int
    <3> DEFINE given == Running(Given(L, left))
               bought == Running(Bought(L, left))
    <3>1. b - 1 \in 0..n /\ n \in 0..n
      BY <1>1
    <3>2. given[b - 1] \in Int /\ given[n] \in Int /\ bought[b - 1] \in Int
      BY <1>2, <3>1, Zenon
    <3>3. Ahead(L, left, b) = IF Lapses(L[b]) THEN given[b - 1] ELSE given[n] + bought[b - 1]
      BY DEF Ahead
    <3> HIDE DEF given, bought
    <3> QED
      BY <3>2, <3>3
  <2>2. left[b] \in Int
    BY <1>1
  <2> QED
    BY <2>1, <2>2 DEF Kept
<1>4. Charge(L, left, amount) \in [1..n -> Int]
  BY <1>1, <1>3 DEF Charge
<1> QED
  BY <1>1, <1>4, PlaceByPlace

\* Every row read makes the replay longer by one.
LEMMA ReplayedTypes ==
  ASSUME NEW R, NEW L \in Seq(Entries(R)), NEW i \in 1..Len(L),
         NEW left \in Seq(Int), Len(left) = i - 1
  PROVE  Replayed(L, left, i) \in Seq(Int) /\ Len(Replayed(L, left, i)) = i
<1>1. L[i] \in Entries(R) /\ L[i].amount \in Int /\ i \in Nat
  <2>1. L[i] \in Entries(R) /\ i \in Nat
    BY LenProperties
  <2> QED
    BY <2>1 DEF Entries
<1>2. ASSUME NEW s \in Seq(Int), Len(s) = i - 1, NEW x \in Int
      PROVE  Append(s, x) \in Seq(Int) /\ Len(Append(s, x)) = i
  BY <1>1, <1>2, AppendProperties
<1>3. CASE L[i].kind = "expiry"
  <2> DEFINE v == Max({0, left[L[i].ref] + L[i].amount})
             s == [left EXCEPT ![L[i].ref] = v]
  <2>1. s \in Seq(Int) /\ Len(s) = i - 1
    <3>1. CASE L[i].ref \in 1..Len(left)
      <4>1. v \in Int
        <5>1. left[L[i].ref] + L[i].amount \in Int
          BY SMTT(30), <1>1, <3>1, LenProperties
        <5> QED
          BY <5>1, MaxOfPair
      <4> QED
        BY <3>1, <4>1, ExceptSeq
    <3>2. CASE L[i].ref \notin 1..Len(left)
      <4>1. s = left
        BY <3>2, LenProperties
      <4> QED
        BY <4>1
    <3> QED
      BY <3>1, <3>2
  <2>2. Replayed(L, left, i) = Append(s, 0)
    BY <1>3 DEF Replayed
  <2> HIDE DEF s
  <2> QED
    BY <1>2, <2>1, <2>2
<1>4. CASE L[i].kind # "expiry" /\ L[i].amount > 0
  <2>1. Replayed(L, left, i) = Append(left, L[i].amount)
    BY <1>4 DEF Replayed
  <2> QED
    BY <1>1, <1>2, <2>1
<1>5. CASE L[i].kind # "expiry" /\ ~(L[i].amount > 0)
  <2>1. Replayed(L, left, i) = Append(Charge(L, left, -L[i].amount), 0)
    BY <1>5 DEF Replayed
  <2>2. -L[i].amount \in Int
    BY <1>1
  <2> QED
    BY <1>2, <2>1, <2>2, ChargeTypes
<1> QED
  BY <1>3, <1>4, <1>5

\* A row is read the same whatever comes after it.
LEMMA ReplayedAlike ==
  ASSUME NEW L, NEW M, NEW i \in Nat, \A k \in 1..i : L[k] = M[k], i # 0,
         NEW left \in Seq(Int), Len(left) = i - 1
  PROVE  Replayed(L, left, i) = Replayed(M, left, i)
<1>1. DOMAIN left = 1..(i - 1)
  BY LenProperties
<1>2. \A b \in DOMAIN left : L[b] = M[b]
  BY <1>1
<1>3. Given(L, left) = Given(M, left) /\ Bought(L, left) = Bought(M, left)
  BY <1>2 DEF Given, Bought
<1>4. \A b \in DOMAIN left : Ahead(L, left, b) = Ahead(M, left, b)
  BY <1>2, <1>3 DEF Ahead
<1>5. \A amount : Charge(L, left, amount) = Charge(M, left, amount)
  BY <1>4 DEF Charge
<1>6. L[i] = M[i]
  OBVIOUS
<1> QED
  BY <1>5, <1>6 DEF Replayed


IsReplay(L, left) ==
  left = [i \in 0..Len(L) |-> IF i = 0 THEN <<>> ELSE Replayed(L, left[i - 1], i)]

\* The replay that Remaining defines by recursion exists.
LEMMA ReplayExists ==
  ASSUME NEW R, NEW L \in Seq(Entries(R))
  PROVE  \E left : IsReplay(L, left) /\ Remaining(L) = left[Len(L)]
<1> DEFINE Upto(n) == {g \in [0..n -> Seq(Int)] :
                         \A i \in 0..n : /\ g[i] = IF i = 0 THEN <<>> ELSE Replayed(L, g[i - 1], i)
                                         /\ Len(g[i]) = i}
           S == {n \in Nat : n <= Len(L) => Upto(n) # {}}
<1>1. 0 \in S
  <2>1. [i \in 0..0 |-> <<>>] \in Upto(0)
    BY EmptySeq
  <2> QED
    BY <2>1
<1>2. ASSUME NEW n \in Nat, n \in S PROVE n + 1 \in S
  <2> SUFFICES ASSUME n + 1 <= Len(L) PROVE Upto(n + 1) # {}
    <3> HIDE DEF Upto
    <3> QED
      OBVIOUS
  <2>a. Len(L) \in Nat
    BY LenProperties
  <2>b. Upto(n) # {}
    <3> HIDE DEF Upto
    <3> QED
      BY <1>2, <2>a
  <2>1. PICK g : g \in Upto(n)
    BY <2>b
  <2> DEFINE next == Replayed(L, g[n], n + 1)
             h == [i \in 0..(n + 1) |-> IF i <= n THEN g[i] ELSE next]
  <2>2. next \in Seq(Int) /\ Len(next) = n + 1
    <3>1. g[n] \in Seq(Int) /\ Len(g[n]) = (n + 1) - 1 /\ n + 1 \in 1..Len(L)
      BY <2>1, <2>a
    <3> QED
      BY <3>1, ReplayedTypes
  <2>c. next = Replayed(L, g[n], n + 1)
    OBVIOUS
  <2> HIDE DEF next
  <2>3. h \in [0..(n + 1) -> Seq(Int)]
    BY <2>1, <2>2
  <2>4. ASSUME NEW i \in 0..(n + 1)
        PROVE  h[i] = (IF i = 0 THEN <<>> ELSE Replayed(L, h[i - 1], i)) /\ Len(h[i]) = i
    <3>1. CASE i <= n
      <4>1. g[i] = (IF i = 0 THEN <<>> ELSE Replayed(L, g[i - 1], i)) /\ Len(g[i]) = i
        BY <3>1, <2>1
      <4>2. h[i] = g[i] /\ (i # 0 => h[i - 1] = g[i - 1])
        BY <3>1
      <4> QED
        BY <4>1, <4>2
    <3>2. CASE i = n + 1
      <4>1. h[i] = next /\ h[i - 1] = g[n] /\ i # 0
        BY <3>2
      <4> QED
        BY <2>2, <2>c, <3>2, <4>1
    <3> QED
      BY <3>1, <3>2
  <2>5. h \in Upto(n + 1)
    BY <2>3, <2>4
  <2> QED
    BY <2>5
<1>3. Len(L) \in S
  <2> HIDE DEF S
  <2> QED
    BY <1>1, <1>2, AllNumbers, LenProperties
<1>4. PICK g : g \in Upto(Len(L))
  <2>1. Len(L) <= Len(L)
    BY LenProperties
  <2> HIDE DEF Upto
  <2> QED
    BY <1>3, <2>1
<1>5. IsReplay(L, g)
  BY <1>4 DEF IsReplay
<1> DEFINE r == CHOOSE left : IsReplay(L, left)
<1>6. Remaining(L) = r[Len(L)]
  BY DEF Remaining, IsReplay
<1>7. IsReplay(L, r)
  BY <1>5
<1> QED
  BY <1>6, <1>7

\* A replay, one row after the other.
LEMMA ReplayRule ==
  ASSUME NEW R, NEW L \in Seq(Entries(R)), NEW left, IsReplay(L, left)
  PROVE  /\ left[0] = <<>>
         /\ \A i \in 1..Len(L) : left[i] = Replayed(L, left[i - 1], i)
         /\ \A i \in 0..Len(L) : left[i] \in Seq(Int) /\ Len(left[i]) = i
<1> DEFINE S == {n \in Nat : n <= Len(L) => left[n] \in Seq(Int) /\ Len(left[n]) = n}
<1>1. Len(L) \in Nat
  BY LenProperties
<1>2. \A i \in 0..Len(L) : left[i] = IF i = 0 THEN <<>> ELSE Replayed(L, left[i - 1], i)
  BY <1>1 DEF IsReplay
<1>3. left[0] = <<>> /\ \A i \in 1..Len(L) : left[i] = Replayed(L, left[i - 1], i)
  BY <1>1, <1>2
<1>4. 0 \in S
  BY <1>3, EmptySeq
<1>5. ASSUME NEW n \in Nat, n \in S PROVE n + 1 \in S
  <2> SUFFICES ASSUME n + 1 <= Len(L) PROVE left[n + 1] \in Seq(Int) /\ Len(left[n + 1]) = n + 1
    OBVIOUS
  <2>1. n + 1 \in 1..Len(L) /\ (n + 1) - 1 = n /\ left[n] \in Seq(Int) /\ Len(left[n]) = (n + 1) - 1
    BY <1>1, <1>5
  <2>2. left[n + 1] = Replayed(L, left[n], n + 1)
    BY <1>3, <2>1
  <2> QED
    BY <2>1, <2>2, ReplayedTypes
<1>6. Nat \subseteq S
  <2> HIDE DEF S
  <2> QED
    BY <1>4, <1>5, AllNumbers
<1> QED
  BY <1>1, <1>3, <1>6

\* What is left of a ledger with one more row.
LEMMA RemainingRule ==
  ASSUME NEW R, NEW L \in Seq(Entries(R)), NEW e \in Entries(R)
  PROVE  /\ Remaining(L) \in Seq(Int) /\ Len(Remaining(L)) = Len(L)
         /\ Remaining(Append(L, e)) = Replayed(Append(L, e), Remaining(L), Len(L) + 1)
<1> DEFINE M == Append(L, e)
           n == Len(L)
<1>1. n \in Nat /\ M \in Seq(Entries(R)) /\ Len(M) = n + 1 /\ \A i \in 1..n : M[i] = L[i]
  BY LenProperties, AppendProperties
<1>2. PICK p : IsReplay(L, p) /\ Remaining(L) = p[n]
  BY ReplayExists
<1>3. PICK q : IsReplay(M, q) /\ Remaining(M) = q[n + 1]
  BY <1>1, ReplayExists
<1>4. /\ p[0] = <<>> /\ \A i \in 1..n : p[i] = Replayed(L, p[i - 1], i)
      /\ \A i \in 0..n : p[i] \in Seq(Int) /\ Len(p[i]) = i
  BY <1>2, ReplayRule
<1> HIDE DEF M
<1>5. q[0] = <<>> /\ \A i \in 1..(n + 1) : q[i] = Replayed(M, q[i - 1], i)
  BY <1>1, <1>3, ReplayRule
<1>a. n = Len(L)
  OBVIOUS
<1> HIDE DEF n
<1> DEFINE S == {k \in Nat : k <= n => q[k] = p[k]}
<1>6. 0 \in S
  BY <1>4, <1>5
<1>7. ASSUME NEW k \in Nat, k \in S PROVE k + 1 \in S
  <2> SUFFICES ASSUME k + 1 <= n PROVE q[k + 1] = p[k + 1]
    OBVIOUS
  <2>1. k + 1 \in 1..n /\ k + 1 \in 1..(n + 1) /\ (k + 1) - 1 = k /\ k \in 0..n /\ k + 1 # 0 /\ k + 1 \in Nat
    BY <1>1
  <2>2. q[k] = p[k]
    BY <1>1, <1>7, <2>1
  <2>3. q[k + 1] = Replayed(M, p[k], k + 1) /\ p[k + 1] = Replayed(L, p[k], k + 1)
    BY <1>4, <1>5, <2>1, <2>2
  <2>4. p[k] \in Seq(Int) /\ Len(p[k]) = (k + 1) - 1
    BY <1>4, <2>1
  <2>5. \A j \in 1..(k + 1) : L[j] = M[j]
    BY <1>1, <2>1
  <2>6. Replayed(L, p[k], k + 1) = Replayed(M, p[k], k + 1)
    BY <2>1, <2>4, <2>5, ReplayedAlike
  <2> QED
    BY <2>3, <2>6
<1>8. q[n] = p[n]
  <2> HIDE DEF S
  <2>1. n \in S
    BY <1>1, <1>6, <1>7, AllNumbers
  <2> QED
    BY <1>1, <2>1 DEF S
<1>9. q[n + 1] = Replayed(M, p[n], n + 1)
  <2>1. n + 1 \in 1..(n + 1) /\ (n + 1) - 1 = n
    BY <1>1
  <2> QED
    BY <1>5, <1>8, <2>1
<1>10. p[n] \in Seq(Int) /\ Len(p[n]) = n
  BY <1>1, <1>4
<1> QED
  BY <1>2, <1>3, <1>9, <1>10, <1>a DEF M

\* An empty ledger has no batches.
LEMMA NothingRemainsOfNothing == Remaining(<<>>) = <<>>
<1>1. <<>> \in Seq(Entries({})) /\ Len(<<>>) = 0
  BY EmptySeq
<1>2. PICK p : IsReplay(<<>>, p) /\ Remaining(<<>>) = p[Len(<<>>)]
  BY <1>1, ReplayExists
<1>3. p[0] = <<>>
  BY <1>1, <1>2, ReplayRule
<1> QED
  BY <1>1, <1>2, <1>3


\* A row more adds its amount to the sum.
LEMMA SumOfAppend ==
  ASSUME NEW R, NEW L \in Seq(Entries(R)), NEW e \in Entries(R)
  PROVE  SumOf(L) \in Int /\ SumOf(Append(L, e)) = SumOf(L) + e.amount
<1> DEFINE n == Len(L)
           M == Append(L, e)
           f == [i \in DOMAIN L |-> L[i].amount]
           g == [i \in DOMAIN M |-> M[i].amount]
<1>1. /\ n \in Nat /\ DOMAIN L = 1..n /\ \A i \in 1..n : L[i].amount \in Int
      /\ DOMAIN M = 1..(n + 1) /\ \A i \in 1..n : M[i] = L[i]
      /\ M[n + 1] = e /\ e.amount \in Int
  <2>1. /\ n \in Nat /\ DOMAIN L = 1..n /\ \A i \in 1..n : L[i] \in Entries(R)
        /\ DOMAIN M = 1..(n + 1) /\ \A i \in 1..n : M[i] = L[i]
        /\ M[n + 1] = e
    BY LenProperties, AppendProperties
  <2> QED
    BY <2>1 DEF Entries
<1> HIDE DEF n, M
<1>2. f \in [1..n -> Int] /\ \A i \in 1..n : f[i] = L[i].amount
  BY <1>1
<1>3. g \in [1..(n + 1) -> Int] /\ \A i \in 1..n : g[i] = f[i]
  <2>1. \A i \in 1..(n + 1) : M[i].amount \in Int
    BY <1>1
  <2> QED
    BY <1>1, <2>1
<1>4. g[n + 1] = e.amount
  <2>1. n + 1 \in 1..(n + 1)
    BY <1>1
  <2> QED
    BY <1>1, <2>1
<1>5. SumOf(L) = Total(f) /\ SumOf(M) = Total(g)
  BY DEF SumOf
<1> HIDE DEF f, g
<1>6. f \in Seq(Int) /\ Len(f) = n /\ g \in Seq(Int) /\ Len(g) = n + 1
  BY <1>1, <1>2, <1>3, PlaceByPlace
<1>7. g = Append(f, e.amount)
  <2>1. e.amount \in Int
    BY <1>1
  <2>2. Append(f, e.amount) \in Seq(Int) /\ Len(Append(f, e.amount)) = n + 1
        /\ (\A i \in 1..n : Append(f, e.amount)[i] = f[i]) /\ Append(f, e.amount)[n + 1] = e.amount
    BY <1>6, <2>1, AppendProperties
  <2>3. \A i \in 1..(n + 1) : g[i] = Append(f, e.amount)[i]
    BY <1>1, <1>3, <1>4, <2>2
  <2> QED
    BY <1>6, <2>2, <2>3, SeqEqual
<1> QED
  BY <1>1, <1>5, <1>6, <1>7, TotalOfAppend DEF M

WrittenOff(L, left, i) ==
  L[i].ref \in 1..Len(L) /\ Lapses(L[L[i].ref]) /\ left[L[i].ref] = 0

\* What the replay finds is the sum of the ledger; of a batch that was written
\* off nothing is left, and no other row writes it off.
Reconciled(R, L) ==
  /\ L \in Seq(Entries(R))
  /\ Remaining(L) \in Seq(Nat) /\ Total(Remaining(L)) = SumOf(L)
  /\ \A i \in 1..Len(L) : L[i].kind = "expiry" => WrittenOff(L, Remaining(L), i)
  /\ \A i, j \in 1..Len(L) :
       L[i].kind = "expiry" /\ L[j].kind = "expiry" /\ L[i].ref = L[j].ref => i = j

\* An office without a row.
LEMMA EmptyIsReconciled == \A R : Reconciled(R, <<>>)
<1> SUFFICES ASSUME NEW R PROVE Reconciled(R, <<>>)
  OBVIOUS
<1>1. <<>> \in Seq(Entries(R)) /\ Len(<<>>) = 0 /\ <<>> \in Seq(Nat) /\ <<>> \in Seq(Int)
  BY EmptySeq
<1>2. Total(<<>>) = 0
  BY <1>1, RunningRule DEF Total
<1>3. SumOf(<<>>) = 0
  <2> DEFINE f == [i \in DOMAIN <<>> |-> <<>>[i].amount]
  <2>1. DOMAIN <<>> = 1..0
    BY <1>1, LenProperties
  <2>2. f \in [1..0 -> Int]
    BY <2>1
  <2>3. SumOf(<<>>) = Total(f)
    BY DEF SumOf
  <2> HIDE DEF f
  <2>4. f \in Seq(Int) /\ Len(f) = 0
    BY <2>2, PlaceByPlace
  <2>5. f = <<>>
    <3>1. \A t \in Seq(Int) : t # <<>> => Len(t) \in Nat \ {0}
      BY EmptySeq, Zenon
    <3>2. Len(f) \notin Nat \ {0}
      BY <2>4
    <3> QED
      BY <2>4, <3>1, <3>2, Zenon
  <2>6. Total(f) = Total(<<>>)
    BY <2>5, Zenon
  <2> QED
    BY <1>2, <2>3, <2>6, Zenon
<1>4. \A i \in 1..Len(<<>>) : FALSE
  BY <1>1
<1>5. Remaining(<<>>) \in Seq(Nat) /\ Total(Remaining(<<>>)) = SumOf(<<>>)
  BY <1>1, <1>2, <1>3, NothingRemainsOfNothing, Zenon
<1> QED
  BY <1>1, <1>4, <1>5, Zenon DEF Reconciled

\* What a new row has to do for the ledger to stay reconciled.
LEMMA OneRowMore ==
  ASSUME NEW R, NEW L, Reconciled(R, L), NEW e \in Entries(R),
         NEW after \in Seq(Nat), Len(after) = Len(L), NEW x \in Nat,
         Remaining(Append(L, e)) = Append(after, x),
         Total(after) + x = SumOf(L) + e.amount,
         \A b \in 1..Len(L) : Remaining(L)[b] = 0 => after[b] = 0,
         \/ e.kind # "expiry"
         \/ /\ e.ref \in 1..Len(L) /\ Lapses(L[e.ref])
            /\ after[e.ref] = 0 /\ Remaining(L)[e.ref] # 0
  PROVE  Reconciled(R, Append(L, e))
<1> DEFINE M == Append(L, e)
           n == Len(L)
           left == Remaining(L)
           left2 == Remaining(M)
<1>1. L \in Seq(Entries(R))
  BY DEF Reconciled
<1>2. /\ n \in Nat /\ M \in Seq(Entries(R)) /\ Len(M) = n + 1 /\ \A i \in 1..n : M[i] = L[i]
      /\ M[n + 1] = e
  BY <1>1, LenProperties, AppendProperties
<1>3. left2 \in Seq(Nat) /\ \A b \in 1..n : left2[b] = after[b]
  BY AppendProperties
<1>4. Total(left2) = SumOf(M)
  <2>1. after \in Seq(Int) /\ x \in Int
    BY SumsOfNaturals
  <2>2. Total(Append(after, x)) = Total(after) + x
    BY <2>1, TotalOfAppend
  <2>3. SumOf(M) = SumOf(L) + e.amount
    BY <1>1, SumOfAppend
  <2> QED
    BY <2>2, <2>3
<1>5. \A b \in 1..n : left[b] = 0 => left2[b] = 0
  BY <1>3
<1>6. \A i \in 1..n : L[i].kind = "expiry" => WrittenOff(L, left, i)
  BY DEF Reconciled
<1>7. \A i, j \in 1..n :
        L[i].kind = "expiry" /\ L[j].kind = "expiry" /\ L[i].ref = L[j].ref => i = j
  BY DEF Reconciled
<1>8. \/ e.kind # "expiry"
      \/ e.ref \in 1..n /\ Lapses(L[e.ref]) /\ left2[e.ref] = 0 /\ left[e.ref] # 0
  BY <1>3
<1>9. n = Len(L)
  OBVIOUS
<1> HIDE DEF M, left, left2, n
<1>10. ASSUME NEW i \in 1..(n + 1), M[i].kind = "expiry" PROVE WrittenOff(M, left2, i)
  <2>1. CASE i \in 1..n
    <3>1. L[i].ref \in 1..n /\ Lapses(L[L[i].ref]) /\ left[L[i].ref] = 0
      BY <1>2, <1>6, <1>9, <1>10, <2>1 DEF WrittenOff
    <3> QED
      BY <1>2, <1>5, <2>1, <3>1 DEF WrittenOff
  <2>2. CASE i = n + 1
    <3>1. M[i] = e
      BY <1>2, <2>2
    <3> QED
      BY <1>2, <1>8, <1>10, <3>1 DEF WrittenOff
  <2> QED
    BY <1>2, <2>1, <2>2
<1>11. ASSUME NEW i \in 1..n, M[i].kind = "expiry", e.kind = "expiry" PROVE M[i].ref # e.ref
  <2>1. left[L[i].ref] = 0
    BY <1>2, <1>6, <1>11 DEF WrittenOff
  <2> QED
    BY <1>2, <1>8, <1>11, <2>1
<1>12. ASSUME NEW i \in 1..(n + 1), NEW j \in 1..(n + 1),
              M[i].kind = "expiry", M[j].kind = "expiry", M[i].ref = M[j].ref
       PROVE  i = j
  <2>1. CASE i \in 1..n /\ j \in 1..n
    BY <1>2, <1>7, <1>12, <2>1
  <2>2. CASE i = n + 1 /\ j \in 1..n
    BY <1>2, <1>11, <1>12, <2>2
  <2>3. CASE j = n + 1 /\ i \in 1..n
    BY <1>2, <1>11, <1>12, <2>3
  <2>4. CASE i = n + 1 /\ j = n + 1
    BY <2>4
  <2> QED
    BY <1>2, <2>1, <2>2, <2>3, <2>4
<1>13. Reconciled(R, M)
  BY <1>2, <1>3, <1>4, <1>10, <1>12 DEF Reconciled, left2
<1> QED
  BY <1>13 DEF M

\* Credits come in.
LEMMA GiftReconciles ==
  ASSUME NEW R, NEW L, Reconciled(R, L), NEW e \in Entries(R), e.kind # "expiry", e.amount > 0
  PROVE  /\ Reconciled(R, Append(L, e))
         /\ Remaining(Append(L, e)) = Append(Remaining(L), e.amount)
<1> DEFINE M == Append(L, e)
           n == Len(L)
<1>1. /\ L \in Seq(Entries(R)) /\ Remaining(L) \in Seq(Nat) /\ Total(Remaining(L)) = SumOf(L)
      /\ Len(Remaining(L)) = n /\ Remaining(M) = Replayed(M, Remaining(L), n + 1)
  <2>1. L \in Seq(Entries(R)) /\ Remaining(L) \in Seq(Nat) /\ Total(Remaining(L)) = SumOf(L)
    BY DEF Reconciled
  <2> QED
    BY <2>1, RemainingRule
<1>2. M[n + 1] = e /\ e.amount \in Int
  BY <1>1, AppendProperties DEF Entries
<1>3. Remaining(M) = Append(Remaining(L), e.amount)
  <2> HIDE DEF M, n
  <2> QED
    BY <1>1, <1>2 DEF Replayed
<1>4. e.amount \in Nat
  BY <1>2
<1>5. Reconciled(R, M)
  BY <1>1, <1>3, <1>4, OneRowMore
<1> QED
  BY <1>3, <1>5

\* Credits that are there are spent.
LEMMA SpendingReconciles ==
  ASSUME NEW R, NEW L, Reconciled(R, L), NEW e \in Entries(R), e.kind # "expiry",
         NEW amount \in Nat, e.amount + amount = 0, amount <= SumOf(L)
  PROVE  /\ Reconciled(R, Append(L, e))
         /\ Remaining(Append(L, e)) = Append(Charge(L, Remaining(L), amount), 0)
<1> DEFINE M == Append(L, e)
           n == Len(L)
           left == Remaining(L)
           after == Charge(L, left, amount)
<1>1. /\ L \in Seq(Entries(R)) /\ left \in Seq(Nat) /\ Total(left) = SumOf(L)
      /\ Len(left) = n /\ Remaining(M) = Replayed(M, left, n + 1)
  <2>1. L \in Seq(Entries(R)) /\ left \in Seq(Nat) /\ Total(left) = SumOf(L)
    BY DEF Reconciled
  <2> QED
    BY <2>1, RemainingRule
<1>2. n \in Nat /\ M[n + 1] = e /\ \A i \in 1..n : M[i] = L[i]
  BY <1>1, LenProperties, AppendProperties
<1>3. Remaining(M) = Append(Charge(M, left, amount), 0)
  <2>1. -e.amount = amount /\ ~(e.amount > 0)
    BY DEF Entries
  <2> HIDE DEF M, n, left
  <2> QED
    BY <1>1, <1>2, <2>1 DEF Replayed
<1>4. Charge(M, left, amount) = after
  <2>1. DOMAIN left = 1..n
    BY <1>1, LenProperties
  <2>2. \A b \in DOMAIN left : M[b] = L[b]
    BY <1>2, <2>1
  <2> HIDE DEF M, left
  <2>3. Given(M, left) = Given(L, left) /\ Bought(M, left) = Bought(L, left)
    BY <2>2 DEF Given, Bought
  <2>4. \A b \in DOMAIN left : Ahead(M, left, b) = Ahead(L, left, b)
    BY <2>2, <2>3 DEF Ahead
  <2> QED
    BY <2>4 DEF Charge
<1>5. /\ after \in Seq(Nat) /\ Len(after) = n /\ Total(after) = SumOf(L) - amount
      /\ \A b \in 1..n : after[b] <= left[b]
  <2>1. amount <= Total(left)
    BY <1>1
  <2> HIDE DEF left
  <2> QED
    BY <1>1, <2>1, ChargeTakes
<1>6. \A b \in 1..n : left[b] = 0 => after[b] = 0
  <2>1. \A b \in 1..n : after[b] \in Nat
    BY <1>5, LenProperties
  <2> HIDE DEF after, left, n
  <2> QED
    BY <1>5, <2>1
<1>7. Total(after) + 0 = SumOf(L) + e.amount
  <2>1. SumOf(L) \in Int
    BY <1>1, SumOfAppend
  <2>2. e.amount \in Int
    BY DEF Entries
  <2> HIDE DEF after, left
  <2> QED
    BY <1>5, <2>1, <2>2
<1>8. Remaining(M) = Append(after, 0)
  BY <1>3, <1>4
<1> HIDE DEF after
<1>9. Reconciled(R, M)
  BY <1>5, <1>6, <1>7, <1>8, OneRowMore
<1> QED
  BY <1>8, <1>9 DEF after

\* A charge of nothing takes nothing.
LEMMA ChargeOfNothing ==
  ASSUME NEW L, NEW left \in Seq(Nat)
  PROVE  Charge(L, left, 0) = left
<1> DEFINE n == Len(left)
           given == Running(Given(L, left))
           bought == Running(Bought(L, left))
<1>1. n \in Nat /\ left \in [1..n -> Nat] /\ DOMAIN left = 1..n
  BY LenProperties
<1>2. given \in [0..n -> Nat] /\ bought \in [0..n -> Nat]
  BY PoolsShare
<1>3. ASSUME NEW b \in 1..n PROVE Kept(0, Ahead(L, left, b), left[b]) = left[b]
  <2>1. b - 1 \in 0..n /\ n \in 0..n
    BY <1>1
  <2>2. given[b - 1] \in Nat /\ given[n] \in Nat /\ bought[b - 1] \in Nat
    BY <1>2, <2>1, Zenon
  <2>3. Ahead(L, left, b) = IF Lapses(L[b]) THEN given[b - 1] ELSE given[n] + bought[b - 1]
    BY DEF Ahead
  <2> HIDE DEF given, bought
  <2>4. Ahead(L, left, b) \in Nat
    BY <2>2, <2>3
  <2> QED
    BY <2>4 DEF Kept
<1>4. Charge(L, left, 0) = [b \in 1..n |-> left[b]]
  BY <1>1, <1>3 DEF Charge
<1> QED
  BY <1>1, <1>4

\* What is left of a gift is written off.
LEMMA WritingOffReconciles ==
  ASSUME NEW R, NEW L, Reconciled(R, L), NEW e \in Entries(R), e.kind = "expiry",
         e.ref \in 1..Len(L), Lapses(L[e.ref]),
         Remaining(L)[e.ref] = -e.amount, e.amount # 0
  PROVE  /\ Reconciled(R, Append(L, e))
         /\ Remaining(Append(L, e)) = Append([Remaining(L) EXCEPT ![e.ref] = 0], 0)
<1> DEFINE M == Append(L, e)
           n == Len(L)
           left == Remaining(L)
           b == e.ref
           after == [left EXCEPT ![b] = 0]
<1>1. /\ L \in Seq(Entries(R)) /\ left \in Seq(Nat) /\ Total(left) = SumOf(L)
      /\ Len(left) = n /\ Remaining(M) = Replayed(M, left, n + 1)
  <2>1. L \in Seq(Entries(R)) /\ left \in Seq(Nat) /\ Total(left) = SumOf(L)
    BY DEF Reconciled
  <2> QED
    BY <2>1, RemainingRule
<1>2. M[n + 1] = e /\ e.amount \in Int
  BY <1>1, AppendProperties DEF Entries
<1>3. Max({0, left[b] + e.amount}) = 0
  <2>1. left[b] + e.amount = 0
    BY <1>2
  <2> QED
    BY <2>1, MaxOfPair
<1>4. Remaining(M) = Append(after, 0)
  <2>1. Remaining(M) = Append([left EXCEPT ![b] = Max({0, left[b] + e.amount})], 0)
    <3> HIDE DEF M, n, left
    <3> QED
      BY <1>1, <1>2 DEF Replayed
  <2> QED
    BY <1>3, <2>1
<1>5. after \in Seq(Nat) /\ Len(after) = n /\ \A k \in 1..n : after[k] = IF k = b THEN 0 ELSE left[k]
  BY <1>1, ExceptSeq
<1>6. Total(after) + 0 = SumOf(L) + e.amount
  <2>1. left \in Seq(Int) /\ b \in 1..Len(left)
    BY <1>1, SumsOfNaturals
  <2>2. Total(after) = Total(left) - left[b] + 0
    BY <2>1, TotalOfExchange
  <2>3. SumOf(L) \in Int
    BY <1>1, SumOfAppend
  <2> HIDE DEF after, left
  <2> QED
    BY <1>1, <1>2, <2>2, <2>3 DEF left
<1>7. \A k \in 1..n : left[k] = 0 => after[k] = 0
  BY <1>5
<1>8. after[b] = 0 /\ left[b] # 0
  BY <1>2, <1>5
<1> HIDE DEF after
<1>9. Reconciled(R, M)
  BY SMTT(30), <1>4, <1>5, <1>6, <1>7, <1>8, OneRowMore
<1> QED
  BY <1>4, <1>9 DEF after


-----------------------------------------------------------------------------
(***************************************************************************)
(* The sweep.                                                              *)
(***************************************************************************)
\* A row of a plan: the write-off of what is left of one batch that lapses.
WellPlannedRow(L, left, e) ==
  /\ e.kind = "expiry" /\ e.ref \in 1..Len(L) /\ Lapses(L[e.ref])
  /\ left[e.ref] = -e.amount /\ e.amount # 0

\* The plan still is what the ledger says.
WellPlanned(R, L, P) ==
  /\ P \in Seq(Entries(R))
  /\ \A k \in 1..Len(P) : WellPlannedRow(L, Remaining(L), P[k])
  /\ \A j, k \in 1..Len(P) : P[j].ref = P[k].ref => j = k

\* The plan of b rows, made from that of one row less.
PlannedRow(L, left, b, before) ==
  IF Lapses(L[b]) /\ left[b] > 0 THEN Append(before, Entry("expiry", -left[b], b)) ELSE before

IsPlanning(L, left, n, rows) ==
  rows = [b \in 0..n |-> IF b = 0 THEN <<>> ELSE PlannedRow(L, left, b, rows[b - 1])]

\* The plan that PlannedOf defines by recursion exists.
LEMMA PlanningExists ==
  ASSUME NEW L, NEW m \in Nat
  PROVE  \E rows : IsPlanning(L, Remaining(L), m, rows) /\ PlannedOf(L, m) = rows[m]
<1> DEFINE left == Remaining(L)
           S == {n \in Nat : \E g : IsPlanning(L, left, n, g)}
<1> HIDE DEF left
<1>1. 0 \in S
  <2> DEFINE g == [b \in 0..0 |-> <<>>]
  <2>1. g = [b \in 0..0 |-> IF b = 0 THEN <<>> ELSE PlannedRow(L, left, b, g[b - 1])]
    OBVIOUS
  <2>2. IsPlanning(L, left, 0, g)
    BY <2>1 DEF IsPlanning
  <2> QED
    BY <2>2
<1>2. ASSUME NEW n \in Nat, n \in S PROVE n + 1 \in S
  <2>1. PICK g : IsPlanning(L, left, n, g)
    BY <1>2
  <2> DEFINE next == PlannedRow(L, left, n + 1, g[n])
             h == [b \in 0..(n + 1) |-> IF b <= n THEN g[b] ELSE next]
  <2>2. next = PlannedRow(L, left, n + 1, g[n])
    OBVIOUS
  <2> HIDE DEF next
  <2>3. \A b \in 0..n : g[b] = IF b = 0 THEN <<>> ELSE PlannedRow(L, left, b, g[b - 1])
    BY <2>1, Zenon DEF IsPlanning
  <2>4. ASSUME NEW b \in 0..(n + 1)
        PROVE  h[b] = IF b = 0 THEN <<>> ELSE PlannedRow(L, left, b, h[b - 1])
    <3>1. CASE b <= n
      <4>a. b \in 0..n
        BY <3>1
      <4>1. g[b] = IF b = 0 THEN <<>> ELSE PlannedRow(L, left, b, g[b - 1])
        BY <2>3, <4>a, Zenon
      <4>2. h[b] = g[b] /\ (b # 0 => h[b - 1] = g[b - 1])
        BY <3>1
      <4> QED
        BY <4>1, <4>2
    <3>2. CASE b = n + 1
      <4>1. h[b] = next /\ h[b - 1] = g[n] /\ b # 0
        BY <3>2
      <4> QED
        BY <2>2, <3>2, <4>1
    <3> QED
      BY <3>1, <3>2
  <2>5. h = [b \in 0..(n + 1) |-> h[b]]
    OBVIOUS
  <2> HIDE DEF h
  <2>6. IsPlanning(L, left, n + 1, h)
    BY <2>4, <2>5 DEF IsPlanning
  <2> QED
    BY <2>6
<1>3. m \in S
  <2> HIDE DEF S
  <2> QED
    BY <1>1, <1>2, AllNumbers
<1>4. PICK g : IsPlanning(L, left, m, g)
  BY <1>3
<1> DEFINE r == CHOOSE rows : IsPlanning(L, left, m, rows)
<1>5. PlannedOf(L, m) = r[m]
  BY DEF PlannedOf, IsPlanning, PlannedRow, left
<1>6. IsPlanning(L, left, m, r)
  BY <1>4
<1> QED
  BY <1>5, <1>6 DEF left

\* What the sweep plans is what is left of batches that lapse, each once.
LEMMA PlansAreRight ==
  ASSUME NEW R, Nat \subseteq R, NEW L, Reconciled(R, L), NEW m \in Nat, m <= Len(L)
  PROVE  WellPlanned(R, L, PlannedOf(L, m))
<1> DEFINE left == Remaining(L)
<1>1. L \in Seq(Entries(R)) /\ left \in Seq(Nat) /\ Len(left) = Len(L) /\ Len(L) \in Nat
  <2>1. L \in Seq(Entries(R)) /\ left \in Seq(Nat)
    BY DEF Reconciled
  <2>2. \E e : e \in Entries(R)
    <3>1. [kind |-> "expiry", amount |-> 0, ref |-> 0] \in Entries(R)
      BY DEF Entries, Kinds
    <3> QED
      BY <3>1
  <2> QED
    BY <2>1, <2>2, RemainingRule, LenProperties
<1>2. PICK rows : IsPlanning(L, left, m, rows) /\ PlannedOf(L, m) = rows[m]
  BY PlanningExists
<1>3. \A b \in 1..m : left[b] \in Nat
  BY <1>1, LenProperties
<1>l. left = Remaining(L)
  OBVIOUS
<1> HIDE DEF left
<1>4. rows[0] = <<>> /\ \A b \in 1..m : rows[b] = PlannedRow(L, left, b, rows[b - 1])
  BY <1>2 DEF IsPlanning
<1> DEFINE Fit(b) ==
             /\ rows[b] \in Seq(Entries(R))
             /\ \A k \in 1..Len(rows[b]) :
                  WellPlannedRow(L, left, rows[b][k]) /\ rows[b][k].ref <= b
             /\ \A j, k \in 1..Len(rows[b]) : rows[b][j].ref = rows[b][k].ref => j = k
           S == {b \in Nat : b <= m => Fit(b)}
<1>5. 0 \in S
  <2>1. rows[0] \in Seq(Entries(R)) /\ Len(rows[0]) = 0
    BY <1>4, EmptySeq
  <2> QED
    BY <2>1
<1>6. ASSUME NEW n \in Nat, n \in S PROVE n + 1 \in S
  <2> SUFFICES ASSUME n + 1 <= m PROVE Fit(n + 1)
    <3> HIDE DEF Fit
    <3> QED
      OBVIOUS
  <2> DEFINE b == n + 1
             s == rows[n]
             t == rows[n + 1]
             e == Entry("expiry", -left[b], b)
  <2>1. b \in 1..m /\ b - 1 = n /\ b \in Nat /\ b \in 1..Len(L) /\ left[b] \in Nat
    BY <1>1, <1>3
  <2>2. t = PlannedRow(L, left, b, s)
    BY <1>4, <2>1
  <2>3. Fit(n)
    <3> HIDE DEF Fit
    <3> QED
      BY <1>6, <2>1
  <2>4. /\ s \in Seq(Entries(R))
        /\ \A k \in 1..Len(s) : WellPlannedRow(L, left, s[k]) /\ s[k].ref <= n
        /\ \A j, k \in 1..Len(s) : s[j].ref = s[k].ref => j = k
    BY <2>3
  <2>5. Len(s) \in Nat /\ \A k \in 1..Len(s) : s[k].ref \in Nat
    <3>1. Len(s) \in Nat
      BY <2>4, LenProperties
    <3>2. \A k \in 1..Len(s) : s[k].ref \in 1..Len(L)
      BY <2>4 DEF WellPlannedRow
    <3> QED
      BY <1>1, <3>1, <3>2
  <2> SUFFICES /\ t \in Seq(Entries(R))
               /\ \A k \in 1..Len(t) : WellPlannedRow(L, left, t[k]) /\ t[k].ref <= n + 1
               /\ \A j, k \in 1..Len(t) : t[j].ref = t[k].ref => j = k
    OBVIOUS
  <2>6. CASE Lapses(L[b]) /\ left[b] > 0
    <3>1. t = Append(s, e)
      BY <2>2, <2>6 DEF PlannedRow
    <3>2. e \in Entries(R) /\ WellPlannedRow(L, left, e) /\ e.ref = b
      <4>1. e = [kind |-> "expiry", amount |-> -left[b], ref |-> b]
        BY DEF Entry
      <4> HIDE DEF e, b
      <4>2. b \in R /\ -left[b] \in Int /\ -left[b] # 0 /\ left[b] = -(-left[b])
        BY <2>1, <2>6
      <4> QED
        BY <2>1, <2>6, <4>1, <4>2 DEF Entries, Kinds, WellPlannedRow
    <3> HIDE DEF e, s, t
    <3>3. t \in Seq(Entries(R)) /\ Len(t) = Len(s) + 1 /\ t[Len(s) + 1] = e /\ \A k \in 1..Len(s) : t[k] = s[k]
      BY <2>4, <3>1, <3>2, AppendProperties
    <3>4. \A k \in 1..Len(t) : k \in 1..Len(s) \/ k = Len(s) + 1
      BY <2>5, <3>3
    <3>5. \A k \in 1..Len(t) : WellPlannedRow(L, left, t[k]) /\ t[k].ref <= n + 1
      BY SMTT(30), <2>1, <2>4, <2>5, <3>2, <3>3, <3>4
    <3>6. \A k \in 1..Len(s) : t[k].ref # b
      BY <2>1, <2>4, <2>5, <3>3
    <3>7. \A j, k \in 1..Len(t) : t[j].ref = t[k].ref => j = k
      BY <2>4, <3>2, <3>3, <3>4, <3>6
    <3> QED
      BY <3>3, <3>5, <3>7
  <2>7. CASE ~(Lapses(L[b]) /\ left[b] > 0)
    <3>1. t = s
      BY <2>2, <2>7 DEF PlannedRow
    <3> HIDE DEF s, t
    <3>2. \A k \in 1..Len(s) : s[k].ref <= n + 1
      BY <2>4, <2>5
    <3> QED
      BY <2>4, <3>1, <3>2
  <2> QED
    BY <2>6, <2>7
<1>7. Fit(m)
  <2> HIDE DEF Fit
  <2> QED
    <3> HIDE DEF S
    <3>1. m \in S
      BY <1>5, <1>6, AllNumbers
    <3> QED
      BY <3>1 DEF S
<1> QED
  BY <1>2, <1>7, <1>l DEF WellPlanned

\* Credits that come in between do not change what is left of earlier batches.
LEMMA PlansOutlastGifts ==
  ASSUME NEW R, NEW L, Reconciled(R, L), NEW e \in Entries(R), e.kind # "expiry", e.amount >= 0,
         NEW P, WellPlanned(R, L, P)
  PROVE  Reconciled(R, Append(L, e)) /\ WellPlanned(R, Append(L, e), P)
<1> DEFINE M == Append(L, e)
           n == Len(L)
           left == Remaining(L)
<1>1. L \in Seq(Entries(R)) /\ left \in Seq(Nat) /\ Len(left) = n /\ n \in Nat /\ e.amount \in Int
  <2>1. L \in Seq(Entries(R)) /\ left \in Seq(Nat) /\ e.amount \in Int
    BY DEF Reconciled, Entries
  <2> QED
    BY <2>1, RemainingRule, LenProperties
<1>2. Reconciled(R, M) /\ \E x \in Nat : Remaining(M) = Append(left, x)
  <2>1. CASE e.amount > 0
    <3>1. Reconciled(R, M) /\ Remaining(M) = Append(left, e.amount)
      BY <2>1, GiftReconciles
    <3>2. e.amount \in Nat
      BY <1>1, <2>1
    <3> QED
      BY <3>1, <3>2
  <2>2. CASE e.amount = 0
    <3>1. Total(left) = SumOf(L) /\ Total(left) \in Nat
      BY <1>1, SumsOfNaturals DEF Total, Reconciled
    <3> DEFINE nothing == 0
    <3>a. nothing = 0
      OBVIOUS
    <3> HIDE DEF left, nothing
    <3>2. nothing \in Nat /\ e.amount + nothing = 0 /\ nothing <= SumOf(L)
      <4>1. nothing \in Nat /\ nothing <= SumOf(L)
        BY <3>1, <3>a
      <4>2. e.amount + nothing = 0
        BY <2>2, <3>a
      <4> QED
        BY <4>1, <4>2
    <3>3. Reconciled(R, M) /\ Remaining(M) = Append(Charge(L, left, nothing), 0)
      BY <3>2, SpendingReconciles DEF left
    <3>4. Charge(L, left, 0) = left
      BY <1>1, ChargeOfNothing DEF left
    <3> QED
      BY <3>3, <3>4, <3>a
  <2> QED
    BY <1>1, <2>1, <2>2
<1>3. \A b \in 1..n : Remaining(M)[b] = left[b]
  BY <1>1, <1>2, AppendProperties
<1>4. Len(M) = n + 1 /\ \A b \in 1..n : M[b] = L[b]
  BY <1>1, AppendProperties
<1>5. \A k \in 1..Len(P) : WellPlannedRow(M, Remaining(M), P[k])
  <2> SUFFICES ASSUME NEW k \in 1..Len(P) PROVE WellPlannedRow(M, Remaining(M), P[k])
    OBVIOUS
  <2>1. WellPlannedRow(L, left, P[k])
    BY DEF WellPlanned
  <2> HIDE DEF M, left, n
  <2>2. P[k].ref \in 1..n
    BY <2>1 DEF WellPlannedRow, n
  <2>3. P[k].ref \in 1..Len(M)
    BY <1>1, <1>4, <2>2
  <2> QED
    BY <1>3, <1>4, <2>1, <2>2, <2>3 DEF WellPlannedRow
<1> QED
  BY <1>2, <1>5 DEF WellPlanned

\* Appending to the second of two sequences.
LEMMA AppendToConcat ==
  ASSUME NEW S, NEW s \in Seq(S), NEW t \in Seq(S), NEW x \in S
  PROVE  s \o Append(t, x) = Append(s \o t, x)
<1>1. s \o t \in Seq(S) /\ <<x>> \in Seq(S)
  BY ConcatProperties
<1>2. Append(t, x) = t \o <<x>> /\ Append(s \o t, x) = (s \o t) \o <<x>>
  BY <1>1, AppendIsConcat
<1>3. (s \o t) \o <<x>> = s \o (t \o <<x>>)
  BY <1>1, ConcatAssociative
<1> QED
  BY <1>2, <1>3

\* The last place of a subsequence.
LEMMA LastOfSubSeq ==
  ASSUME NEW S, NEW s \in Seq(S), NEW k \in Nat, k + 1 \in 1..Len(s),
         SubSeq(s, 1, k) \in Seq(S)
  PROVE  SubSeq(s, 1, k + 1) = Append(SubSeq(s, 1, k), s[k + 1])
<1>1. 1 \in 1..Len(s) /\ k + 1 \in 1..Len(s) /\ (k + 1) - 1 = k /\ s[k + 1] \in S
  BY LenProperties
<1>2. SubSeq(s, 1, k + 1) = SubSeq(s, 1, k) \o <<s[k + 1]>>
  BY <1>1, SubSeqRecursiveSecond
<1> QED
  BY <1>1, <1>2, AppendIsConcat

\* What a sequence starts with is not touched by what is appended.
LEMMA HeadOfConcat ==
  ASSUME NEW S, NEW s \in Seq(S), NEW t \in Seq(S)
  PROVE  /\ s \o t \in Seq(S) /\ Len(s \o t) >= Len(s)
         /\ \A i \in 1..Len(s) : (s \o t)[i] = s[i]
<1>1. Len(s) \in Nat /\ Len(t) \in Nat
  BY LenProperties
<1>2. /\ s \o t \in Seq(S) /\ Len(s \o t) = Len(s) + Len(t)
      /\ \A i \in 1..(Len(s) + Len(t)) : (s \o t)[i] = IF i <= Len(s) THEN s[i] ELSE t[i - Len(s)]
  BY ConcatProperties
<1> QED
  BY <1>1, <1>2

\* Carrying a plan out, row by row, leaves the ledger reconciled.
LEMMA SweepReconciles ==
  ASSUME NEW R, NEW L, Reconciled(R, L), NEW P, WellPlanned(R, L, P)
  PROVE  Reconciled(R, L \o P)
<1> DEFINE n == Len(L)
           m == Len(P)
           Upto(k) == L \o SubSeq(P, 1, k)
           Holds(k) == /\ SubSeq(P, 1, k) \in Seq(Entries(R))
                       /\ Reconciled(R, Upto(k))
                       /\ \A j \in (k + 1)..m : Remaining(Upto(k))[P[j].ref] = -P[j].amount
           S == {k \in Nat : k <= m => Holds(k)}
<1>1. L \in Seq(Entries(R)) /\ P \in Seq(Entries(R)) /\ n \in Nat /\ m \in Nat /\ \A k \in 1..m : P[k] \in Entries(R)
  <2>1. L \in Seq(Entries(R)) /\ P \in Seq(Entries(R))
    BY DEF Reconciled, WellPlanned
  <2> QED
    BY <2>1, LenProperties
<1>2. \A k \in 1..m : /\ P[k].kind = "expiry" /\ P[k].ref \in 1..n /\ Lapses(L[P[k].ref])
                      /\ Remaining(L)[P[k].ref] = -P[k].amount /\ P[k].amount # 0
  BY DEF WellPlanned, WellPlannedRow
<1>3. \A j, k \in 1..m : P[j].ref = P[k].ref => j = k
  BY DEF WellPlanned
<1>4. ASSUME NEW k \in Nat, k + 1 <= m, SubSeq(P, 1, k) \in Seq(Entries(R))
      PROVE  /\ SubSeq(P, 1, k + 1) \in Seq(Entries(R))
             /\ Upto(k + 1) = Append(Upto(k), P[k + 1])
             /\ Upto(k) \in Seq(Entries(R)) /\ Len(Upto(k)) >= n
             /\ \A i \in 1..n : Upto(k)[i] = L[i]
  <2>1. k + 1 \in 1..m /\ (k + 1) - 1 = k /\ 1 \in 1..m
    BY <1>1, <1>4
  <2>2. P[k + 1] \in Entries(R)
    BY <1>1, <2>1
  <2>3. SubSeq(P, 1, k + 1) = Append(SubSeq(P, 1, k), P[k + 1])
    BY <1>1, <2>1, LastOfSubSeq
  <2>4. L \o Append(SubSeq(P, 1, k), P[k + 1]) = Append(L \o SubSeq(P, 1, k), P[k + 1])
    BY <1>1, <1>4, <2>2, AppendToConcat
  <2>5. Append(SubSeq(P, 1, k), P[k + 1]) \in Seq(Entries(R))
    BY <1>4, <2>2, AppendProperties
  <2>6. /\ Upto(k) \in Seq(Entries(R)) /\ Len(Upto(k)) >= n
        /\ \A i \in 1..n : Upto(k)[i] = L[i]
    BY <1>1, <1>4, HeadOfConcat
  <2> QED
    BY <2>3, <2>4, <2>5, <2>6
<1>5. SubSeq(P, 1, 0) = <<>> /\ SubSeq(P, 1, 0) \in Seq(Entries(R))
  BY SubSeqEmpty, EmptySeq
<1>6. Upto(0) = L
  BY <1>1, <1>5, ConcatEmptySeq
<1>7. Upto(m) = L \o P
  BY <1>1, SubSeqFull
<1>8. Reconciled(R, L)
  OBVIOUS
<1> HIDE DEF Upto, n, m
<1>9. 0 \in S
  <2>1. \A j \in (0 + 1)..m : j \in 1..m
    BY <1>1
  <2> QED
    BY <1>2, <1>5, <1>6, <1>8, <2>1
<1>10. ASSUME NEW k \in Nat, k \in S PROVE k + 1 \in S
  <2> SUFFICES ASSUME k + 1 <= m PROVE Holds(k + 1)
    <3> HIDE DEF Holds
    <3> QED
      OBVIOUS
  <2> DEFINE M == Upto(k)
             e == P[k + 1]
             left == Remaining(M)
  <2>1. k + 1 \in 1..m /\ k + 1 \in (k + 1)..m /\ k <= m
    BY <1>1
  <2>2. Holds(k)
    <3> HIDE DEF Holds
    <3> QED
      BY <1>10, <2>1
  <2>3. /\ Reconciled(R, M) /\ SubSeq(P, 1, k) \in Seq(Entries(R))
        /\ \A j \in (k + 1)..m : left[P[j].ref] = -P[j].amount
    BY <2>2
  <2>4. /\ Upto(k + 1) = Append(M, e) /\ M \in Seq(Entries(R)) /\ Len(M) >= n /\ Len(M) \in Nat
        /\ \A i \in 1..n : M[i] = L[i]
        /\ SubSeq(P, 1, k + 1) \in Seq(Entries(R))
    BY <1>4, <2>3, LenProperties
  <2>5. /\ e \in Entries(R) /\ e.kind = "expiry" /\ e.ref \in 1..n /\ Lapses(L[e.ref])
        /\ e.amount # 0 /\ left[e.ref] = -e.amount
    BY <1>1, <1>2, <2>1, <2>3
  <2>6. \A j \in (k + 2)..m : /\ j \in 1..m /\ j \in (k + 1)..m /\ P[j].ref # e.ref
                              /\ P[j].ref \in 1..n
    <3> SUFFICES ASSUME NEW j \in (k + 2)..m
                 PROVE  j \in 1..m /\ j \in (k + 1)..m /\ P[j].ref # e.ref /\ P[j].ref \in 1..n
      OBVIOUS
    <3>1. j \in 1..m /\ j \in (k + 1)..m /\ j # k + 1
      BY <1>1
    <3> QED
      BY <1>2, <1>3, <2>1, <3>1
  <2>l. left = Remaining(M)
    OBVIOUS
  <2> HIDE DEF M, e, left
  <2>7. e.ref \in 1..Len(M) /\ Lapses(M[e.ref])
    <3>1. e.ref \in 1..Len(M)
      BY <1>1, <2>4, <2>5
    <3> QED
      BY <2>4, <2>5, <3>1
  <2>8. /\ Reconciled(R, Append(M, e))
        /\ Remaining(Append(M, e)) = Append([left EXCEPT ![e.ref] = 0], 0)
    BY <2>3, <2>5, <2>7, <2>l, WritingOffReconciles
  <2>9. left \in Seq(Nat) /\ Len(left) = Len(M)
    BY <2>3, <2>4, <2>5, <2>l, RemainingRule DEF Reconciled
  <2>10. ASSUME NEW c \in 1..n, c # e.ref PROVE Remaining(Append(M, e))[c] = left[c]
    <3> DEFINE after == [left EXCEPT ![e.ref] = 0]
    <3>1. e.ref \in 1..Len(left) /\ c \in 1..Len(left)
      BY <1>1, <2>4, <2>5, <2>9
    <3>2. after \in Seq(Nat) /\ Len(after) = Len(left) /\ after[c] = left[c]
      BY <2>9, <2>10, <3>1, ExceptSeq
    <3> HIDE DEF after
    <3>3. Append(after, 0)[c] = after[c]
      BY <3>1, <3>2, AppendProperties
    <3> QED
      BY <2>8, <3>2, <3>3 DEF after
  <2>11. \A j \in (k + 2)..m : Remaining(Append(M, e))[P[j].ref] = -P[j].amount
    BY <2>3, <2>6, <2>10
  <2>12. k + 2 = (k + 1) + 1
    OBVIOUS
  <2> QED
    BY <2>4, <2>8, <2>11, <2>12
<1>11. Holds(m)
  <2> HIDE DEF Holds
  <2>1. m \in S
    <3> HIDE DEF S
    <3> QED
      BY <1>1, <1>9, <1>10, AllNumbers
  <2> QED
    BY <1>1, <2>1
<1> QED
  BY <1>7, <1>11

-----------------------------------------------------------------------------
(***************************************************************************)
(* The board and its locks.                                                *)
(***************************************************************************)
\* What rows refer to.
Refs == Shares \cup Offers \cup Nat \cup {None}

BoardTypes ==
  /\ lead \in [Leads -> {"open", "closed"}]
  /\ share \in [Shares -> [status : {"unused", "active", "down", "sold"}, lead : Leads \cup {None},
                           mode : Modes, buyer : Offices \cup {None}]]
  /\ offered \subseteq Offers
  /\ payouts \in Seq([office : Offices, ref : Shares])
  /\ fees \in Seq([ref : Shares, fee : Int, bonus : Int, cash : BOOLEAN])
  /\ session \in [Sessions -> [pc : {"idle", "sharing", "checked", "claimed", "funded",
                                     "offering", "offer_funded", "granting"},
                               on : Leads \cup Shares \cup Offers \cup {None}]]
  /\ topUps \in Nat

SharesFit ==
  \A x \in Shares : share[x].status \in {"active", "sold"} => share[x].lead \in Leads

\* A referral that was read has been published, and one that is on the board
\* belongs to another office.
Sellable(s) ==
  /\ session[s].on \in Shares /\ share[session[s].on].status # "unused"
  /\ share[session[s].on].status = "active" => Owner[share[session[s].on].lead] # Seat[s]

\* What a request has in hand is of the kind its step needs.
Fit(s) ==
  /\ session[s].pc = "sharing" => session[s].on \in Leads
  /\ session[s].pc = "checked" => Sellable(s)
  /\ session[s].pc \in {"claimed", "funded"} =>
       Sellable(s) /\ share[session[s].on].status = "active"
  /\ session[s].pc \in {"offering", "offer_funded"} =>
       session[s].on \in Offers /\ Owner[session[s].on] = Seat[s]

SessionsFit == \A s \in Sessions : Fit(s)

\* A referral is claimed by one purchase at a time.
OneClaim ==
  \A s, t \in Sessions :
    /\ session[s].pc \in {"claimed", "funded"} /\ session[t].pc \in {"claimed", "funded"}
    /\ session[s].on = session[t].on
    => s = t

\* The spending lock of an office lets one in.
OneSpender ==
  /\ \A s, t \in Sessions :
       /\ session[s].pc \in {"funded", "offer_funded"} /\ session[t].pc \in {"funded", "offer_funded"}
       /\ Seat[s] = Seat[t]
       => s = t
  /\ \A s \in Sessions, w \in Sweepers :
       session[s].pc \in {"funded", "offer_funded"} => sweeper[w].office # Seat[s]
  /\ \A v, w \in Sweepers : sweeper[v].office = sweeper[w].office /\ sweeper[v].office # None => v = w

SweepersFit ==
  \A w \in Sweepers : sweeper[w] = Resting \/ sweeper[w].office \in Offices

Board == BoardTypes /\ SharesFit /\ SessionsFit /\ OneClaim /\ OneSpender /\ SweepersFit

\* How the referrals may move: from not published, or off the board while no
\* purchase has them in hand.
SharesMove ==
  \A x \in Shares :
    \/ share'[x] = share[x]
    \/ share[x].status = "unused"
    \/ /\ share'[x].status \in {"down", "sold"}
       /\ \A t \in Sessions : session'[t].pc \in {"claimed", "funded"} => session'[t].on # x

\* No request takes a referral or a lock that it did not hold.
ClaimsKept ==
  \A t \in Sessions : session'[t].pc \in {"claimed", "funded"} =>
    session[t].pc \in {"claimed", "funded"} /\ session'[t].on = session[t].on

LocksKept ==
  /\ \A t \in Sessions :
       session'[t].pc \in {"funded", "offer_funded"} => session[t].pc \in {"funded", "offer_funded"}
  /\ \A w \in Sweepers : sweeper'[w] = sweeper[w] \/ sweeper'[w] = Resting

\* Request s moves to what its new step needs, the others stay.
OneMoves(s) ==
  /\ \A t \in Sessions : t # s => session'[t] = session[t]
  /\ Fit(s)'

\* Requests that do not move still have what they need.
LEMMA SessionsStayFit ==
  ASSUME SessionsFit, SharesMove, NEW s \in Sessions, OneMoves(s)
  PROVE  SessionsFit'
<1> SUFFICES ASSUME NEW t \in Sessions PROVE Fit(t)'
  BY DEF SessionsFit
<1>1. CASE t = s
  BY <1>1 DEF OneMoves
<1>2. CASE t # s
  <2>1. Fit(t) /\ session'[t] = session[t]
    BY <1>2 DEF SessionsFit, OneMoves
  <2>2. ASSUME Sellable(t) PROVE Sellable(t)'
    BY <2>1, <2>2 DEF Sellable, SharesMove
  <2>3. ASSUME session[t].pc \in {"claimed", "funded"}
        PROVE  share'[session[t].on].status = "active"
    <3>1. Sellable(t) /\ share[session[t].on].status = "active"
      BY <2>1, <2>3 DEF Fit
    <3> QED
      BY <2>1, <2>3, <3>1 DEF Sellable, SharesMove
  <2> QED
    BY <2>1, <2>2, <2>3 DEF Fit
<1> QED
  BY <1>1, <1>2

\* Nobody claims anew: a referral is still claimed once.
LEMMA ClaimsStayApart == OneClaim /\ ClaimsKept => OneClaim'
BY DEF OneClaim, ClaimsKept

\* Nobody takes a lock anew: it still lets one in.
LEMMA LocksStayApart ==
  MarketAssumption /\ OneSpender /\ SweepersFit /\ LocksKept => OneSpender' /\ SweepersFit'
<1> SUFFICES ASSUME MarketAssumption, OneSpender, SweepersFit, LocksKept
             PROVE  OneSpender' /\ SweepersFit'
  OBVIOUS
<1>1. \A s \in Sessions : Seat[s] \in Offices /\ Seat[s] # None
  BY DEF MarketAssumption
<1>2. \A w \in Sweepers : sweeper'[w] = sweeper[w] \/ sweeper'[w].office = None
  BY DEF LocksKept, Resting
<1>3. SweepersFit'
  BY DEF SweepersFit, LocksKept
<1>4. OneSpender'
  BY <1>1, <1>2 DEF OneSpender, LocksKept
<1> QED
  BY <1>3, <1>4

\* The least of some numbers is one of them.
LEMMA MinOfNumbers ==
  ASSUME NEW S, S \subseteq Nat, S # {}
  PROVE  Min(S) \in S
<1>1. PICK n \in S : \A k \in S : ~(<<k, n>> \in OpToRel(<, Nat))
  BY NatLessThanWellFounded, WFMin
<1>2. ASSUME NEW k \in S PROVE n =< k
  <2> SUFFICES ASSUME k < n PROVE FALSE
    OBVIOUS
  <2>1. <<k, n>> \in OpToRel(<, Nat)
    BY DEF OpToRel
  <2> QED
    BY <1>1, <2>1
<1> QED
  BY <1>2 DEF Min

Steps == {"idle", "sharing", "checked", "claimed", "funded", "offering", "offer_funded", "granting"}

\* A request that ends holds nothing.
LEMMA FinishingReleases ==
  ASSUME BoardTypes, NEW s \in Sessions, Finish(s)
  PROVE  /\ session' \in [Sessions -> [pc : Steps, on : Leads \cup Shares \cup Offers \cup {None}]]
         /\ OneMoves(s) /\ ClaimsKept
         /\ \A t \in Sessions : session'[t] = session[t] \/ session'[t].pc = "idle"
<1>1. \A t \in Sessions : session'[t] = IF t = s THEN Idle ELSE session[t]
  BY DEF Finish, BoardTypes
<1>2. Idle.pc = "idle" /\ Idle \in [pc : Steps, on : Leads \cup Shares \cup Offers \cup {None}]
  BY DEF Idle, Steps
<1>3. session' \in [Sessions -> [pc : Steps, on : Leads \cup Shares \cup Offers \cup {None}]]
  BY <1>2 DEF Finish, BoardTypes, Steps
<1>4. OneMoves(s)
  BY <1>1, <1>2 DEF OneMoves, Fit
<1>5. ClaimsKept
  BY <1>1, <1>2 DEF ClaimsKept
<1> QED
  BY <1>1, <1>2, <1>3, <1>4, <1>5

\* A request goes on with what it has in hand.
LEMMA GoingOn ==
  ASSUME BoardTypes, NEW s \in Sessions, NEW pc \in Steps, Go(s, pc)
  PROVE  /\ session' \in [Sessions -> [pc : Steps, on : Leads \cup Shares \cup Offers \cup {None}]]
         /\ session'[s].pc = pc /\ session'[s].on = session[s].on
         /\ \A t \in Sessions : t # s => session'[t] = session[t]
<1>1. session[s] \in [pc : Steps, on : Leads \cup Shares \cup Offers \cup {None}]
  BY DEF BoardTypes, Steps
<1>2. session' = [session EXCEPT ![s] = [session[s] EXCEPT !.pc = pc]]
  BY DEF Go
<1>3. [session[s] EXCEPT !.pc = pc] \in [pc : Steps, on : Leads \cup Shares \cup Offers \cup {None}]
  BY <1>1
<1> QED
  BY <1>1, <1>2, <1>3 DEF BoardTypes, Steps

\* A request begins.
LEMMA Beginning ==
  ASSUME BoardTypes, NEW s \in Sessions, NEW pc \in Steps, NEW on \in Leads \cup Shares \cup Offers,
         session' = [session EXCEPT ![s] = [pc |-> pc, on |-> on]]
  PROVE  /\ session' \in [Sessions -> [pc : Steps, on : Leads \cup Shares \cup Offers \cup {None}]]
         /\ session'[s].pc = pc /\ session'[s].on = on
         /\ \A t \in Sessions : t # s => session'[t] = session[t]
BY DEF BoardTypes, Steps

\* Nothing of the board but its tables and the sweeps moves.
LEMMA TablesMove ==
  ASSUME MarketAssumption, Board, BoardTypes', share' = share, session' = session, LocksKept
  PROVE  Board'
<1>1. SharesFit' /\ SessionsFit' /\ OneClaim'
  BY DEF Board, SharesFit, SessionsFit, Fit, Sellable, OneClaim
<1>2. OneSpender' /\ SweepersFit'
  BY LocksStayApart DEF Board
<1> QED
  BY <1>1, <1>2 DEF Board

\* One request moves, without a new claim and without a new lock.
LEMMA RequestMoves ==
  ASSUME MarketAssumption, Board, BoardTypes', SharesFit', SharesMove,
         NEW s \in Sessions, OneMoves(s), ClaimsKept, LocksKept
  PROVE  Board'
<1>1. SessionsFit'
  BY SessionsStayFit DEF Board
<1>2. OneClaim'
  BY ClaimsStayApart DEF Board
<1>3. OneSpender' /\ SweepersFit'
  BY LocksStayApart DEF Board
<1> QED
  BY <1>1, <1>2, <1>3 DEF Board

\* A request that only ends.
LEMMA EndingKeepsBoard ==
  ASSUME MarketAssumption, Board, NEW s \in Sessions, Finish(s),
         UNCHANGED <<lead, share, payouts, fees, sweeper, topUps>>, offered' \subseteq Offers
  PROVE  Board'
<1>1. BoardTypes
  BY DEF Board
<1>2. BoardTypes'
  BY <1>1, FinishingReleases DEF BoardTypes, Steps
<1>3. OneMoves(s) /\ ClaimsKept
  BY <1>1, FinishingReleases
<1>4. LocksKept
  <2>1. \A t \in Sessions : session'[t] = session[t] \/ session'[t].pc = "idle"
    BY <1>1, FinishingReleases
  <2> QED
    BY <2>1 DEF LocksKept
<1>5. SharesMove /\ SharesFit'
  BY DEF Board, SharesMove, SharesFit
<1> QED
  BY <1>2, <1>3, <1>4, <1>5, RequestMoves

\* A request that begins or goes on, and takes no lock by it.
LEMMA AdvancingKeepsBoard ==
  ASSUME MarketAssumption, Board, NEW s \in Sessions,
         NEW pc \in {"sharing", "checked", "offering", "granting"},
         session' \in [Sessions -> [pc : Steps, on : Leads \cup Shares \cup Offers \cup {None}]],
         session'[s].pc = pc, \A t \in Sessions : t # s => session'[t] = session[t],
         Fit(s)',
         UNCHANGED <<lead, share, offered, payouts, fees, sweeper, topUps>>
  PROVE  Board'
<1>1. BoardTypes'
  BY DEF Board, BoardTypes, Steps
<1>2. OneMoves(s)
  BY DEF OneMoves
<1>3. ClaimsKept /\ LocksKept
  BY DEF ClaimsKept, LocksKept
<1>4. SharesMove /\ SharesFit'
  BY DEF Board, SharesMove, SharesFit
<1> QED
  BY <1>1, <1>2, <1>3, <1>4, RequestMoves

-----------------------------------------------------------------------------
(***************************************************************************)
(* The actions.                                                            *)
(***************************************************************************)
\* The referrer looks at its lead.
LEMMA ShareReadKeepsBoard ==
  ASSUME MarketAssumption, Board, NEW s \in Sessions, NEW l \in Leads, ShareRead(s, l)
  PROVE  Board'
<1>1. BoardTypes
  BY DEF Board
<1>2. /\ session' = [session EXCEPT ![s] = [pc |-> "sharing", on |-> l]]
      /\ UNCHANGED <<lead, share, offered, payouts, fees, sweeper, topUps>>
  BY DEF ShareRead, tables, clock
<1>3. /\ session' \in [Sessions -> [pc : Steps, on : Leads \cup Shares \cup Offers \cup {None}]]
      /\ session'[s].pc = "sharing" /\ session'[s].on = l
      /\ \A t \in Sessions : t # s => session'[t] = session[t]
  BY <1>1, <1>2, Beginning DEF Steps
<1>4. Fit(s)'
  BY <1>3 DEF Fit
<1> QED
  BY <1>2, <1>3, <1>4, AdvancingKeepsBoard

\* An office looks at the offer it is about to make.
LEMMA OfferReadKeepsBoard ==
  ASSUME MarketAssumption, Board, NEW s \in Sessions, NEW p \in Offers, OfferRead(s, p)
  PROVE  Board'
<1>1. BoardTypes
  BY DEF Board
<1>2. /\ session' = [session EXCEPT ![s] = [pc |-> "offering", on |-> p]] /\ Owner[p] = Seat[s]
      /\ UNCHANGED <<lead, share, offered, payouts, fees, sweeper, topUps>>
  BY DEF OfferRead, tables, clock
<1>3. /\ session' \in [Sessions -> [pc : Steps, on : Leads \cup Shares \cup Offers \cup {None}]]
      /\ session'[s].pc = "offering" /\ session'[s].on = p
      /\ \A t \in Sessions : t # s => session'[t] = session[t]
  BY <1>1, <1>2, Beginning DEF Steps
<1>4. Fit(s)'
  BY <1>2, <1>3 DEF Fit
<1> QED
  BY <1>2, <1>3, <1>4, AdvancingKeepsBoard

\* An office is seen to have no row yet.
LEMMA GrantReadKeepsBoard ==
  ASSUME MarketAssumption, Board, NEW s \in Sessions, GrantRead(s)
  PROVE  Board'
<1>1. BoardTypes
  BY DEF Board
<1>2. Go(s, "granting") /\ UNCHANGED <<lead, share, offered, payouts, fees, sweeper, topUps>>
  BY DEF GrantRead, tables, clock
<1>3. /\ session' \in [Sessions -> [pc : Steps, on : Leads \cup Shares \cup Offers \cup {None}]]
      /\ session'[s].pc = "granting"
      /\ \A t \in Sessions : t # s => session'[t] = session[t]
  BY <1>1, <1>2, GoingOn DEF Steps
<1>4. Fit(s)'
  BY <1>3 DEF Fit
<1> QED
  BY <1>2, <1>3, <1>4, AdvancingKeepsBoard

\* A referral goes up, or the lead stands on the board already.
LEMMA ShareWriteKeepsBoard ==
  ASSUME MarketAssumption, Board, NEW s \in Sessions, NEW mode \in Modes, ShareWrite(s, mode)
  PROVE  Board'
<1> DEFINE l == session[s].on
           free == {x \in Shares : share[x].status = "unused"}
<1>1. BoardTypes
  BY DEF Board
<1>2. Finish(s) /\ UNCHANGED <<lead, offered, payouts, fees, sweeper, topUps>> /\ session[s].pc = "sharing"
  BY DEF ShareWrite, clock, At
<1>3. l \in Leads
  BY <1>2 DEF Board, SessionsFit, Fit
<1>4. /\ OneMoves(s) /\ ClaimsKept
      /\ session' \in [Sessions -> [pc : Steps, on : Leads \cup Shares \cup Offers \cup {None}]]
  BY <1>1, <1>2, FinishingReleases
<1>5. LocksKept
  <2>1. \A t \in Sessions : session'[t] = session[t] \/ session'[t].pc = "idle"
    BY <1>1, <1>2, FinishingReleases
  <2> QED
    BY <1>2, <2>1 DEF LocksKept
<1>6. CASE share' = share
  <2>1. BoardTypes' /\ SharesFit' /\ SharesMove
    BY <1>1, <1>2, <1>4, <1>6 DEF Board, BoardTypes, Steps, SharesFit, SharesMove
  <2> QED
    BY <1>4, <1>5, <2>1, RequestMoves
<1>7. CASE free # {} /\ share' = [share EXCEPT ![Min(free)] =
                                    [status |-> "active", lead |-> l, mode |-> mode, buyer |-> None]]
  <2>1. Min(free) \in free
    <3>1. free \subseteq Nat
      BY DEF Shares
    <3> HIDE DEF free
    <3> QED
      BY <1>7, <3>1, MinOfNumbers
  <2> DEFINE x == Min(free)
  <2>2. x \in Shares /\ share[x].status = "unused"
    BY <2>1
  <2> HIDE DEF x, free
  <2>3. share' = [share EXCEPT ![x] = [status |-> "active", lead |-> l, mode |-> mode, buyer |-> None]]
    BY <1>7 DEF x
  <2>4. BoardTypes'
    BY <1>1, <1>2, <1>3, <1>4, <2>2, <2>3 DEF BoardTypes, Steps
  <2>5. SharesFit'
    BY <1>1, <1>3, <2>2, <2>3 DEF Board, SharesFit, BoardTypes
  <2>6. SharesMove
    BY <1>1, <2>2, <2>3 DEF SharesMove, BoardTypes
  <2> QED
    BY <1>4, <1>5, <2>4, <2>5, <2>6, RequestMoves
<1> QED
  BY <1>6, <1>7 DEF ShareWrite

\* A referral that nobody has in hand comes down.
LEMMA TakingDownFits ==
  ASSUME Board, NEW D \in SUBSET Shares, \A x \in D : ~RowHeld(x),
         \A t \in Sessions : session'[t] = session[t],
         share' = [x \in Shares |-> IF x \in D THEN NoShare("down") ELSE share[x]]
  PROVE  /\ share' \in [Shares -> [status : {"unused", "active", "down", "sold"}, lead : Leads \cup {None},
                                   mode : Modes, buyer : Offices \cup {None}]]
         /\ SharesFit' /\ SharesMove
<1>1. NoShare("down") \in [status : {"unused", "active", "down", "sold"}, lead : Leads \cup {None},
                           mode : Modes, buyer : Offices \cup {None}]
  BY DEF NoShare, Modes
<1>2. NoShare("down").status = "down"
  BY DEF NoShare
<1>3. share' \in [Shares -> [status : {"unused", "active", "down", "sold"}, lead : Leads \cup {None},
                             mode : Modes, buyer : Offices \cup {None}]]
  BY <1>1 DEF Board, BoardTypes
<1>4. SharesFit'
  BY <1>2 DEF Board, SharesFit
<1>5. \A x \in D, t \in Sessions : session[t].pc \in {"claimed", "funded"} => session[t].on # x
  BY DEF RowHeld, InState
<1>6. SharesMove
  BY <1>2, <1>5 DEF SharesMove
<1> QED
  BY <1>3, <1>4, <1>6

\* Some referrals come down, and nothing else moves on the board.
LEMMA TakingDownKeepsBoard ==
  ASSUME MarketAssumption, Board, NEW D \in SUBSET Shares, \A x \in D : ~RowHeld(x),
         share' = [x \in Shares |-> IF x \in D THEN NoShare("down") ELSE share[x]],
         lead' \in [Leads -> {"open", "closed"}],
         UNCHANGED <<offered, payouts, fees, session, sweeper, topUps>>
  PROVE  Board'
<1>1. \A t \in Sessions : session'[t] = session[t]
  OBVIOUS
<1>2. /\ share' \in [Shares -> [status : {"unused", "active", "down", "sold"}, lead : Leads \cup {None},
                                mode : Modes, buyer : Offices \cup {None}]]
      /\ SharesFit' /\ SharesMove
  BY <1>1, TakingDownFits
<1>3. BoardTypes'
  BY <1>2 DEF Board, BoardTypes
<1>4. SessionsFit'
  <2>1. CASE Sessions = {}
    BY <2>1 DEF SessionsFit
  <2>2. CASE Sessions # {}
    <3>1. PICK s \in Sessions : TRUE
      BY <2>2
    <3>2. Fit(s)'
      <4>1. Fit(s) /\ session'[s] = session[s]
        BY DEF Board, SessionsFit
      <4>2. ASSUME Sellable(s) PROVE Sellable(s)'
        BY <1>2, <4>1, <4>2 DEF Sellable, SharesMove
      <4>3. ASSUME session[s].pc \in {"claimed", "funded"}
            PROVE  share'[session[s].on].status = "active"
        <5>1. Sellable(s) /\ share[session[s].on].status = "active"
          BY <4>1, <4>3 DEF Fit
        <5> QED
          BY <1>2, <4>1, <4>3, <5>1 DEF Sellable, SharesMove
      <4> QED
        BY <4>1, <4>2, <4>3 DEF Fit
    <3>3. OneMoves(s)
      BY <1>1, <3>2 DEF OneMoves
    <3> QED
      BY <1>2, <3>3, SessionsStayFit DEF Board
  <2> QED
    BY <2>1, <2>2
<1>5. ClaimsKept /\ LocksKept
  BY DEF ClaimsKept, LocksKept
<1>6. OneClaim' /\ OneSpender' /\ SweepersFit'
  BY <1>5, ClaimsStayApart, LocksStayApart DEF Board
<1> QED
  BY <1>2, <1>3, <1>4, <1>6 DEF Board

\* A referral that nobody has in hand is withdrawn.
LEMMA WithdrawLeadKeepsBoard ==
  ASSUME MarketAssumption, Board, NEW x \in Shares, WithdrawLead(x)
  PROVE  Board'
<1> DEFINE D == {x}
<1>1. \A y \in D : ~RowHeld(y)
  BY DEF WithdrawLead
<1>2. share' = [y \in Shares |-> IF y \in D THEN NoShare("down") ELSE share[y]]
  BY DEF WithdrawLead, Board, BoardTypes
<1>3. UNCHANGED <<lead, offered, payouts, fees, session, sweeper, topUps>>
  BY DEF WithdrawLead, clock
<1>4. lead' \in [Leads -> {"open", "closed"}] /\ D \in SUBSET Shares
  BY <1>3 DEF Board, BoardTypes
<1> HIDE DEF D
<1> QED
  BY <1>1, <1>2, <1>3, <1>4, TakingDownKeepsBoard

\* All referrals of a deleted lead come down, unless they were sold.
LEMMA RemoveLeadKeepsBoard ==
  ASSUME MarketAssumption, Board, NEW l \in Leads, RemoveLead(l)
  PROVE  Board'
<1> DEFINE D == {x \in Shares : share[x].lead = l /\ share[x].status # "sold"}
<1>1. \A y \in D : ~RowHeld(y)
  BY DEF RemoveLead, LeadRowsHeld
<1>2. share' = [y \in Shares |-> IF y \in D THEN NoShare("down") ELSE share[y]]
  BY DEF RemoveLead
<1>3. UNCHANGED <<offered, payouts, fees, session, sweeper, topUps>>
  BY DEF RemoveLead, clock
<1>4. lead' \in [Leads -> {"open", "closed"}]
  BY DEF Board, BoardTypes, RemoveLead
<1>5. D \in SUBSET Shares
  OBVIOUS
<1> HIDE DEF D
<1> QED
  BY <1>1, <1>2, <1>3, <1>4, <1>5, TakingDownKeepsBoard

\* A buyer looks at a referral, or takes it down for the referrer.
LEMMA BuyReadKeepsBoard ==
  ASSUME MarketAssumption, Board, NEW s \in Sessions, NEW x \in Shares, BuyRead(s, x)
  PROVE  Board'
<1>1. BoardTypes
  BY DEF Board
<1>2. /\ UNCHANGED <<lead, offered, payouts, fees, sweeper, topUps>>
      /\ share[x].status = "active" /\ Owner[share[x].lead] # Seat[s]
  BY DEF BuyRead, clock
<1>3. CASE session' = [session EXCEPT ![s] = [pc |-> "checked", on |-> x]] /\ UNCHANGED share
  <2>1. /\ session' \in [Sessions -> [pc : Steps, on : Leads \cup Shares \cup Offers \cup {None}]]
        /\ session'[s].pc = "checked" /\ session'[s].on = x
        /\ \A t \in Sessions : t # s => session'[t] = session[t]
    BY <1>1, <1>3, Beginning DEF Steps
  <2>2. Fit(s)'
    BY <1>2, <1>3, <2>1 DEF Fit, Sellable
  <2>3. UNCHANGED <<lead, share, offered, payouts, fees, sweeper, topUps>>
    BY <1>2, <1>3
  <2> QED
    BY <2>1, <2>2, <2>3, AdvancingKeepsBoard
<1>4. CASE ~RowHeld(x) /\ share' = [share EXCEPT ![x] = NoShare("down")] /\ UNCHANGED session
  <2> DEFINE D == {x}
  <2>1. \A y \in D : ~RowHeld(y)
    BY <1>4
  <2>2. share' = [y \in Shares |-> IF y \in D THEN NoShare("down") ELSE share[y]]
    BY <1>1, <1>4 DEF BoardTypes
  <2>3. UNCHANGED <<offered, payouts, fees, session, sweeper, topUps>>
    BY <1>2, <1>4
  <2>4. lead' \in [Leads -> {"open", "closed"}] /\ D \in SUBSET Shares
    BY <1>1, <1>2 DEF BoardTypes
  <2> HIDE DEF D
  <2> QED
    BY <2>1, <2>2, <2>3, <2>4, TakingDownKeepsBoard
<1> QED
  BY <1>3, <1>4 DEF BuyRead

\* A lead is taken care of.
LEMMA ConvertLeadKeepsBoard ==
  ASSUME MarketAssumption, Board, NEW l \in Leads, ConvertLead(l)
  PROVE  Board'
<1>1. UNCHANGED <<share, offered, payouts, fees, session, sweeper, topUps>>
  BY DEF ConvertLead, clock
<1>2. BoardTypes'
  BY <1>1 DEF ConvertLead, Board, BoardTypes
<1>3. LocksKept
  BY <1>1 DEF LocksKept
<1> QED
  BY <1>1, <1>2, <1>3, TablesMove

\* The claim: of the purchases that wait for one row, one gets it.
LEMMA BuyClaimKeepsBoard ==
  ASSUME MarketAssumption, Board, NEW s \in Sessions, BuyClaim(s)
  PROVE  Board'
<1> DEFINE x == session[s].on
<1>1. BoardTypes
  BY DEF Board
<1>2. /\ session[s].pc = "checked" /\ ~RowHeld(x)
      /\ UNCHANGED <<lead, share, offered, payouts, fees, sweeper, topUps>>
  BY DEF BuyClaim, tables, clock, At
<1>3. CASE Finish(s)
  <2>1. offered' \subseteq Offers
    BY <1>1, <1>2 DEF BoardTypes
  <2> QED
    BY <1>2, <1>3, <2>1, EndingKeepsBoard
<1>4. CASE share[x].status = "active" /\ Go(s, "claimed")
  <2>1. /\ session' \in [Sessions -> [pc : Steps, on : Leads \cup Shares \cup Offers \cup {None}]]
        /\ session'[s].pc = "claimed" /\ session'[s].on = x
        /\ \A t \in Sessions : t # s => session'[t] = session[t]
    BY <1>1, <1>4, GoingOn DEF Steps
  <2>2. Sellable(s)
    BY <1>2 DEF Board, SessionsFit, Fit
  <2>3. Fit(s)'
    BY <1>2, <1>4, <2>1, <2>2 DEF Fit, Sellable
  <2>4. BoardTypes' /\ SharesFit' /\ SharesMove /\ OneMoves(s) /\ LocksKept
    BY <1>1, <1>2, <2>1, <2>3 DEF Board, BoardTypes, Steps, SharesFit, SharesMove, OneMoves, LocksKept
  <2>5. SessionsFit'
    BY <2>4, SessionsStayFit DEF Board
  <2>6. \A t \in Sessions : session[t].pc \in {"claimed", "funded"} => session[t].on # x
    BY <1>2 DEF RowHeld, InState
  <2>7. OneClaim'
    BY <2>1, <2>6 DEF Board, OneClaim
  <2>8. OneSpender' /\ SweepersFit'
    BY <2>4, LocksStayApart DEF Board
  <2> QED
    BY <2>4, <2>5, <2>7, <2>8 DEF Board
<1> QED
  BY <1>3, <1>4 DEF BuyClaim

\* The spending lock is taken by a request that has something to pay for.
LEMMA LockingKeepsBoard ==
  ASSUME MarketAssumption, Board, NEW s \in Sessions, NEW pc \in {"funded", "offer_funded"},
         ~SpendHeld(Seat[s]), Go(s, pc),
         pc = "funded" => session[s].pc = "claimed",
         pc = "offer_funded" => session[s].pc = "offering",
         UNCHANGED <<lead, share, offered, payouts, fees, sweeper, topUps>>
  PROVE  Board'
<1>1. BoardTypes
  BY DEF Board
<1>2. /\ session' \in [Sessions -> [pc : Steps, on : Leads \cup Shares \cup Offers \cup {None}]]
      /\ session'[s].pc = pc /\ session'[s].on = session[s].on
      /\ \A t \in Sessions : t # s => session'[t] = session[t]
  <2>1. pc \in Steps
    BY DEF Steps
  <2> QED
    BY <1>1, <2>1, GoingOn
<1>3. Fit(s)'
  <2>1. Fit(s)
    BY DEF Board, SessionsFit
  <2>2. CASE pc = "funded"
    <3>1. Sellable(s) /\ share[session[s].on].status = "active"
      BY <2>1, <2>2 DEF Fit
    <3> QED
      BY <1>2, <2>2, <3>1 DEF Fit, Sellable
  <2>3. CASE pc = "offer_funded"
    <3>1. session[s].on \in Offers /\ Owner[session[s].on] = Seat[s]
      BY <2>1, <2>3 DEF Fit
    <3> QED
      BY <1>2, <2>3, <3>1 DEF Fit
  <2> QED
    BY <2>2, <2>3
<1>4. BoardTypes' /\ SharesFit' /\ SharesMove /\ OneMoves(s)
  BY <1>1, <1>2, <1>3 DEF Board, BoardTypes, Steps, SharesFit, SharesMove, OneMoves
<1>5. ClaimsKept
  BY <1>2 DEF ClaimsKept
<1>6. SessionsFit' /\ OneClaim'
  BY <1>4, <1>5, SessionsStayFit, ClaimsStayApart DEF Board
<1>7. /\ \A t \in Sessions : session[t].pc \in {"funded", "offer_funded"} => Seat[t] # Seat[s]
      /\ \A w \in Sweepers : sweeper[w].office # Seat[s]
  BY DEF SpendHeld, InState
<1>8. OneSpender'
  BY <1>2, <1>7 DEF Board, OneSpender
<1>9. SweepersFit'
  BY DEF Board, SweepersFit
<1> QED
  BY <1>4, <1>6, <1>8, <1>9 DEF Board

\* The buyer gets the spending lock of its office, or gives up.
LEMMA BuyLockKeepsBoard ==
  ASSUME MarketAssumption, Board, NEW s \in Sessions, BuyLock(s)
  PROVE  Board'
<1>1. /\ session[s].pc = "claimed" /\ ~SpendHeld(Seat[s])
      /\ UNCHANGED <<lead, share, offered, payouts, fees, sweeper, topUps>>
  BY DEF BuyLock, tables, clock, At
<1>2. CASE Finish(s)
  <2>1. offered' \subseteq Offers
    BY <1>1 DEF Board, BoardTypes
  <2> QED
    BY <1>1, <1>2, <2>1, EndingKeepsBoard
<1>3. CASE Go(s, "funded")
  BY <1>1, <1>3, LockingKeepsBoard
<1> QED
  BY <1>2, <1>3 DEF BuyLock

\* So does who offers a property.
LEMMA OfferLockKeepsBoard ==
  ASSUME MarketAssumption, Board, NEW s \in Sessions, OfferLock(s)
  PROVE  Board'
<1>1. /\ session[s].pc = "offering" /\ ~SpendHeld(Seat[s])
      /\ UNCHANGED <<lead, share, offered, payouts, fees, sweeper, topUps>>
  BY DEF OfferLock, tables, clock, At
<1>2. CASE Finish(s)
  <2>1. offered' \subseteq Offers
    BY <1>1 DEF Board, BoardTypes
  <2> QED
    BY <1>1, <1>2, <2>1, EndingKeepsBoard
<1>3. CASE Go(s, "offer_funded")
  BY <1>1, <1>3, LockingKeepsBoard
<1> QED
  BY <1>2, <1>3 DEF OfferLock

\* The numbers of a sale: what is left of the price is not paid twice.
LEMMA SettlementAdds ==
  ASSUME MarketAssumption, NEW mode \in Modes
  PROVE  /\ PlatformFee(mode) \in Int /\ ReferrerPayout(mode) \in Nat /\ BonusCredits(mode) \in Int
         /\ mode = "credits" =>
              ReferrerPayout(mode) - Price = BonusCredits(mode) - PlatformFee(mode)
<1> DEFINE fee == (Price * FeePercent[mode]) \div 100
           net == Max({0, Price - fee})
           raised == (net * BonusPercent + 99) \div 100
           credits == IF mode = "credits" THEN net + raised ELSE 0
           kept == PlatformFee(mode)
           paid == ReferrerPayout(mode)
<1>1. Price \in Nat /\ Price > 0 /\ FeePercent[mode] \in Nat /\ BonusPercent \in Nat
  BY DEF MarketAssumption, Modes
<1>2. fee \in Nat
  <2>1. Price * FeePercent[mode] \in Nat
    BY <1>1
  <2> DEFINE y == Price * FeePercent[mode]
  <2> HIDE DEF y
  <2>2. y \in Nat => y \div 100 \in Nat
    OBVIOUS
  <2> QED
    BY <2>1, <2>2 DEF y
<1>3. Settled(mode).fee = fee /\ Settled(mode).credits = credits
  BY DEF Settled
<1> HIDE DEF fee
<1>4. net = IF 0 >= Price - fee THEN 0 ELSE Price - fee
  BY <1>1, <1>2, MaxOfPair
<1>5. net \in Nat
  BY <1>1, <1>2, <1>4
<1>6. raised \in Nat /\ (net = 0 => raised = 0)
  <2> DEFINE y == net * BonusPercent
  <2>1. y \in Nat /\ (net = 0 => y = 0)
    <3> HIDE DEF net
    <3> QED
      BY <1>1, <1>5
  <2> HIDE DEF y
  <2>2. (y + 99) \div 100 \in Nat /\ (y = 0 => (y + 99) \div 100 = 0)
    BY <2>1
  <2> QED
    BY <2>1, <2>2 DEF y
<1> HIDE DEF net, raised
<1>7. Min({fee, Price - 1}) = IF fee <= Price - 1 THEN fee ELSE Price - 1
  BY <1>1, <1>2, MinOfPair
<1>8. kept = IF fee <= Price - 1 THEN fee ELSE Price - 1
  <2> DEFINE z == IF fee <= Price - 1 THEN fee ELSE Price - 1
  <2>1. z \in Nat
    BY <1>1, <1>2
  <2>2. kept = Max({0, z})
    BY <1>3, <1>7 DEF PlatformFee
  <2> HIDE DEF z
  <2>3. Max({0, z}) = z
    BY <2>1, MaxOfPair
  <2> QED
    BY <2>2, <2>3 DEF z
<1>9. paid = IF credits > 0 THEN credits ELSE Price - kept
  BY <1>3 DEF ReferrerPayout
<1>10. kept \in Nat /\ kept <= Price - 1
  BY <1>1, <1>2, <1>8
<1>11. credits \in Nat
  BY <1>5, <1>6
<1> HIDE DEF kept, paid
<1>12. paid \in Nat
  <2> HIDE DEF credits
  <2> QED
    BY <1>1, <1>9, <1>10, <1>11
<1>13. BonusCredits(mode) = IF mode = "cash" THEN 0 ELSE Max({0, paid - (Price - kept)})
  BY DEF BonusCredits, paid, kept
<1>14. Max({0, paid - (Price - kept)}) = IF 0 >= paid - (Price - kept) THEN 0 ELSE paid - (Price - kept)
  BY <1>1, <1>10, <1>12, MaxOfPair
<1>15. BonusCredits(mode) \in Int
  BY <1>1, <1>10, <1>12, <1>13, <1>14
<1>16. ASSUME mode = "credits" PROVE paid - Price = BonusCredits(mode) - kept
  <2>1. credits = net + raised
    BY <1>16
  <2>2. paid >= Price - kept
    <3> HIDE DEF credits
    <3>1. CASE fee <= Price - 1
      <4>1. kept = fee /\ net = Price - fee
        BY <1>1, <1>2, <1>4, <1>8, <3>1
      <4> QED
        BY <1>1, <1>2, <1>5, <1>6, <1>9, <1>10, <1>11, <2>1, <4>1
    <3>2. CASE fee >= Price
      <4>1. net = 0
        BY <1>1, <1>2, <1>4, <3>2
      <4> QED
        BY <1>1, <1>6, <1>9, <1>10, <2>1, <4>1
    <3> QED
      BY <1>1, <1>2, <3>1, <3>2
  <2>3. BonusCredits(mode) = Max({0, paid - (Price - kept)})
    BY <1>13, <1>16
  <2> QED
    BY <1>1, <1>10, <1>12, <1>14, <2>2, <2>3
<1> QED
  BY <1>10, <1>12, <1>15, <1>16 DEF kept, paid

\* A sale: the referral is sold to the one that had it in hand.
LEMMA BuyCommitKeepsBoard ==
  ASSUME MarketAssumption, Board, NEW s \in Sessions, BuyCommit(s)
  PROVE  Board'
<1> DEFINE x == session[s].on
           mode == share[x].mode
           referrer == Owner[share[x].lead]
<1>1. BoardTypes
  BY DEF Board
<1>2. /\ session[s].pc = "funded" /\ Finish(s)
      /\ UNCHANGED <<lead, offered, sweeper, topUps>>
      /\ share' = [share EXCEPT ![x].status = "sold", ![x].buyer = Seat[s]]
      /\ payouts' = IF mode = "cash" THEN Append(payouts, [office |-> referrer, ref |-> x]) ELSE payouts
      /\ fees' = Append(fees, FeeRow(x, mode))
  BY DEF BuyCommit, clock, At
<1>3. x \in Shares /\ share[x].status = "active" /\ share[x].lead \in Leads /\ mode \in Modes
  <2>1. Fit(s)
    BY DEF Board, SessionsFit
  <2>2. x \in Shares /\ share[x].status = "active"
    BY <1>2, <2>1 DEF Fit, Sellable
  <2> QED
    BY <1>1, <2>2 DEF Board, SharesFit, BoardTypes
<1>4. referrer \in Offices /\ Seat[s] \in Offices
  BY <1>3 DEF MarketAssumption
<1>5. /\ OneMoves(s) /\ ClaimsKept
      /\ session' \in [Sessions -> [pc : Steps, on : Leads \cup Shares \cup Offers \cup {None}]]
      /\ \A t \in Sessions : session'[t] = session[t] \/ session'[t].pc = "idle"
  BY <1>1, <1>2, FinishingReleases
<1>6. LocksKept
  BY <1>2, <1>5 DEF LocksKept
<1>7. payouts' \in Seq([office : Offices, ref : Shares])
  <2>1. [office |-> referrer, ref |-> x] \in [office : Offices, ref : Shares]
    BY <1>3, <1>4
  <2> HIDE DEF referrer, x, mode
  <2> QED
    BY <1>1, <1>2, <2>1, AppendProperties DEF BoardTypes
<1>8. fees' \in Seq([ref : Shares, fee : Int, bonus : Int, cash : BOOLEAN])
  <2>1. FeeRow(x, mode) \in [ref : Shares, fee : Int, bonus : Int, cash : BOOLEAN]
    <3>1. PlatformFee(mode) \in Int /\ BonusCredits(mode) \in Int
      BY <1>3, SettlementAdds
    <3> HIDE DEF mode
    <3> QED
      BY <1>3, <3>1 DEF FeeRow
  <2> HIDE DEF x, mode
  <2> QED
    BY <1>1, <1>2, <2>1, AppendProperties DEF BoardTypes
<1>9. \A y \in Shares : /\ y # x => share'[y] = share[y]
                        /\ y = x => share'[y].status = "sold" /\ share'[y].lead = share[x].lead
                                    /\ share'[y].mode = mode /\ share'[y].buyer = Seat[s]
  BY <1>1, <1>2, <1>3 DEF BoardTypes
<1>10. share' \in [Shares -> [status : {"unused", "active", "down", "sold"}, lead : Leads \cup {None},
                              mode : Modes, buyer : Offices \cup {None}]]
  <2> DEFINE row == [share[x] EXCEPT !.status = "sold", !.buyer = Seat[s]]
             Rows == [status : {"unused", "active", "down", "sold"}, lead : Leads \cup {None},
                      mode : Modes, buyer : Offices \cup {None}]
  <2>1. share[x] \in Rows /\ share \in [Shares -> Rows]
    BY <1>1, <1>3 DEF BoardTypes
  <2>2. row \in Rows
    BY <1>4, <2>1
  <2>3. share' = [share EXCEPT ![x] = row]
    BY <1>2
  <2> HIDE DEF row, Rows
  <2>4. share' \in [Shares -> Rows]
    BY <2>1, <2>2, <2>3
  <2> QED
    BY <2>4 DEF Rows
<1>11. BoardTypes'
  BY <1>1, <1>2, <1>5, <1>7, <1>8, <1>10 DEF BoardTypes, Steps
<1>12. SharesFit'
  BY <1>3, <1>9 DEF Board, SharesFit
<1>13. SharesMove
  <2>1. ASSUME NEW t \in Sessions, session'[t].pc \in {"claimed", "funded"} PROVE session'[t].on # x
    <3>1. session'[t] = session[t]
      BY <1>5, <2>1
    <3>2. t # s
      <4>1. session'[s].pc = "idle"
        BY <1>1, <1>2 DEF Finish, Idle, BoardTypes
      <4> QED
        BY <2>1, <4>1
    <3> QED
      BY <1>2, <2>1, <3>1, <3>2 DEF Board, OneClaim
  <2> QED
    BY <1>9, <2>1 DEF SharesMove
<1> QED
  BY <1>5, <1>6, <1>11, <1>12, <1>13, RequestMoves

\* The offer is made and the lock is gone.
LEMMA OfferCommitKeepsBoard ==
  ASSUME MarketAssumption, Board, NEW s \in Sessions, OfferCommit(s)
  PROVE  Board'
<1>1. Finish(s) /\ UNCHANGED <<lead, share, payouts, fees, sweeper, topUps>> /\ session[s].pc = "offer_funded"
  BY DEF OfferCommit, clock, At
<1>2. session[s].on \in Offers
  BY <1>1 DEF Board, SessionsFit, Fit
<1>3. offered' \subseteq Offers
  BY <1>2 DEF OfferCommit, Board, BoardTypes
<1> QED
  BY <1>1, <1>3, EndingKeepsBoard

\* The first row of an office is written.
LEMMA GrantWriteKeepsBoard ==
  ASSUME MarketAssumption, Board, NEW s \in Sessions, GrantWrite(s)
  PROVE  Board'
<1>1. Finish(s) /\ UNCHANGED <<lead, share, offered, payouts, fees, sweeper, topUps>>
  BY DEF GrantWrite, clock
<1>2. offered' \subseteq Offers
  BY <1>1 DEF Board, BoardTypes
<1> QED
  BY <1>1, <1>2, EndingKeepsBoard

\* A request dies and gives up what it held.
LEMMA RollbackKeepsBoard ==
  ASSUME MarketAssumption, Board, NEW s \in Sessions, Rollback(s)
  PROVE  Board'
<1>1. Finish(s) /\ UNCHANGED <<lead, share, offered, payouts, fees, sweeper, topUps>>
  BY DEF Rollback, clock, tables
<1>2. offered' \subseteq Offers
  BY <1>1 DEF Board, BoardTypes
<1> QED
  BY <1>1, <1>2, EndingKeepsBoard

\* A package of credits does not touch the board.
LEMMA BuyCreditsKeepsBoard ==
  ASSUME MarketAssumption, Board, NEW o \in Offices, BuyCredits(o)
  PROVE  Board'
<1>1. BoardTypes' /\ UNCHANGED <<share, session, sweeper>>
  BY DEF BuyCredits, Board, BoardTypes
<1>2. LocksKept
  BY <1>1 DEF LocksKept
<1> QED
  BY <1>1, <1>2, TablesMove

\* Nor does time.
LEMMA AgeKeepsBoard ==
  ASSUME MarketAssumption, Board, Age
  PROVE  Board'
<1>1. BoardTypes' /\ UNCHANGED <<share, session, sweeper>>
  BY DEF Age, tables, Board, BoardTypes
<1>2. LocksKept
  BY <1>1 DEF LocksKept
<1> QED
  BY <1>1, <1>2, TablesMove

\* A sweep takes the lock, and only when it is free.
LEMMA SweepLockKeepsBoard ==
  ASSUME MarketAssumption, Board, NEW w \in Sweepers, NEW o \in Offices, SweepLock(w, o),
         DOMAIN sweeper = Sweepers
  PROVE  Board'
<1>1. BoardTypes' /\ UNCHANGED <<share, session>>
  BY DEF SweepLock, tables, clock, Board, BoardTypes
<1>2. SharesFit' /\ SessionsFit' /\ OneClaim'
  BY <1>1 DEF Board, SharesFit, SessionsFit, Fit, Sellable, OneClaim
<1>3. \A v \in Sweepers : sweeper'[v] = IF v = w THEN [office |-> o, plan |-> Planned(o)] ELSE sweeper[v]
  BY DEF SweepLock
<1>4. /\ \A t \in Sessions : session[t].pc \in {"funded", "offer_funded"} => Seat[t] # o
      /\ \A v \in Sweepers : sweeper[v].office # o
  BY DEF SweepLock, SpendHeld, InState
<1>5. OneSpender'
  BY <1>1, <1>3, <1>4 DEF Board, OneSpender
<1>6. SweepersFit'
  BY <1>3 DEF Board, SweepersFit
<1> QED
  BY <1>1, <1>2, <1>5, <1>6 DEF Board

\* A sweep ends, whatever it wrote.
LEMMA SweepEndKeepsBoard ==
  ASSUME MarketAssumption, Board, NEW w \in Sweepers, SweepCommit(w) \/ SweepAbort(w),
         DOMAIN sweeper = Sweepers
  PROVE  Board'
<1>1. BoardTypes' /\ UNCHANGED <<share, session>> /\ sweeper' = [sweeper EXCEPT ![w] = Resting]
  <2>1. /\ UNCHANGED <<lead, share, offered, payouts, fees, session, topUps>>
        /\ sweeper' = [sweeper EXCEPT ![w] = Resting]
    BY DEF SweepCommit, SweepAbort, tables, clock
  <2> QED
    BY <2>1 DEF Board, BoardTypes
<1>2. LocksKept
  BY <1>1 DEF LocksKept
<1> QED
  BY <1>1, <1>2, TablesMove

\* An office with a reconciled ledger has no debt.
LEMMA ReconciledSums ==
  ASSUME NEW R, NEW L, Reconciled(R, L)
  PROVE  SumOf(L) \in Nat /\ SumOf(L) = Total(Remaining(L))
<1> DEFINE left == Remaining(L)
<1>1. left \in Seq(Nat) /\ Total(left) = SumOf(L)
  BY DEF Reconciled
<1> HIDE DEF left
<1>2. Running(left) \in [0..Len(left) -> Nat] /\ Len(left) \in Nat
  BY <1>1, SumsOfNaturals, LenProperties
<1>3. Len(left) \in 0..Len(left)
  BY <1>2
<1>4. Total(left) \in Nat
  BY <1>2, <1>3, Zenon DEF Total
<1> QED
  BY <1>1, <1>4 DEF left

-----------------------------------------------------------------------------
(***************************************************************************)
(* The ledgers.                                                            *)
(***************************************************************************)
LedgersReconciled ==
  /\ DOMAIN ledger = Offices
  /\ \A o \in Offices : Reconciled(Refs, ledger[o]) /\ aged[o] \in Nat /\ aged[o] <= Len(ledger[o])

\* Who has the lock still has the credits it read.
SpendingCovered ==
  \A s \in Sessions :
    /\ session[s].pc = "funded" => Balance(Seat[s]) >= Price
    /\ session[s].pc = "offer_funded" => Balance(Seat[s]) >= OfferCost

\* What a sweep is about to write off still is what is left.
PlansStand ==
  /\ DOMAIN sweeper = Sweepers
  /\ \A w \in Sweepers : sweeper[w].office \in Offices =>
       WellPlanned(Refs, ledger[sweeper[w].office], sweeper[w].plan)

Books == LedgersReconciled /\ SpendingCovered /\ PlansStand

\* An office receives credits, under no lock.
Receives(o) ==
  \E e \in Entries(Refs) :
    e.kind # "expiry" /\ e.amount >= 0 /\ ledger'[o] = Append(ledger[o], e)

\* The one that had the lock writes and is gone.
Settles(o) ==
  /\ Reconciled(Refs, ledger'[o]) /\ Len(ledger'[o]) >= Len(ledger[o])
  /\ \A s \in Sessions : session'[s].pc \in {"funded", "offer_funded"} => Seat[s] # o
  /\ \A w \in Sweepers : sweeper'[w].office # o

LedgersMove ==
  /\ DOMAIN ledger' = Offices
  /\ \A o \in Offices : ledger'[o] = ledger[o] \/ Receives(o) \/ Settles(o)
  /\ \A o \in Offices : aged'[o] = aged[o]

\* Who has the lock after the step had it before.
HoldersStay ==
  /\ \A s \in Sessions :
       session'[s].pc \in {"funded", "offer_funded"} => session'[s].pc = session[s].pc
  /\ DOMAIN sweeper' = Sweepers
  /\ \A w \in Sweepers : sweeper'[w] = sweeper[w] \/ sweeper'[w] = Resting

\* Rows may refer to batches.
LEMMA RefsHoldNumbers == Nat \subseteq Refs
BY DEF Refs

\* What an office that receives ends up with.
LEMMA ReceivingAdds ==
  ASSUME Books, NEW o \in Offices, Receives(o)
  PROVE  /\ Reconciled(Refs, ledger'[o]) /\ Len(ledger'[o]) >= Len(ledger[o])
         /\ SumOf(ledger[o]) \in Int /\ SumOf(ledger'[o]) \in Int /\ SumOf(ledger'[o]) >= SumOf(ledger[o])
         /\ \A P : WellPlanned(Refs, ledger[o], P) => WellPlanned(Refs, ledger'[o], P)
<1>1. PICK e \in Entries(Refs) :
        e.kind # "expiry" /\ e.amount >= 0 /\ ledger'[o] = Append(ledger[o], e)
  BY DEF Receives
<1>2. Reconciled(Refs, ledger[o])
  BY DEF Books, LedgersReconciled
<1> DEFINE L == ledger[o]
           M == ledger'[o]
<1>3. M = Append(L, e) /\ Reconciled(Refs, L)
  BY <1>1, <1>2
<1> HIDE DEF L, M
<1>4. L \in Seq(Entries(Refs)) /\ e.amount \in Int
  BY <1>3 DEF Reconciled, Entries
<1>5. SumOf(L) \in Int /\ SumOf(M) = SumOf(L) + e.amount
  BY <1>3, <1>4, SumOfAppend
<1>6. Len(M) = Len(L) + 1 /\ Len(L) \in Nat
  BY <1>3, <1>4, AppendProperties, LenProperties
<1>7. WellPlanned(Refs, L, <<>>)
  <2>1. <<>> \in Seq(Entries(Refs)) /\ Len(<<>>) = 0
    BY EmptySeq
  <2>2. \A k \in 1..Len(<<>>) : FALSE
    BY <2>1
  <2> QED
    BY <2>1, <2>2, Zenon DEF WellPlanned
<1>8. Reconciled(Refs, M) /\ \A P : WellPlanned(Refs, L, P) => WellPlanned(Refs, M, P)
  BY <1>1, <1>3, <1>7, PlansOutlastGifts
<1>9. SumOf(M) \in Int /\ SumOf(M) >= SumOf(L) /\ Len(M) >= Len(L)
  BY <1>1, <1>4, <1>5, <1>6
<1> QED
  BY <1>5, <1>8, <1>9 DEF L, M

\* Credits received under no lock disturb no one, and who settles held the lock alone.
LEMMA LedgersMoveKeepsBooks ==
  ASSUME MarketAssumption, Books, LedgersMove, HoldersStay
  PROVE  Books'
<1>1. \A o \in Offices : /\ Reconciled(Refs, ledger[o])
                         /\ aged[o] \in Nat /\ aged[o] <= Len(ledger[o]) /\ Len(ledger[o]) \in Nat
  <2>1. \A o \in Offices : Reconciled(Refs, ledger[o]) /\ aged[o] \in Nat /\ aged[o] <= Len(ledger[o])
    BY DEF Books, LedgersReconciled
  <2>2. \A o \in Offices : Len(ledger[o]) \in Nat
    BY <2>1, LenProperties DEF Reconciled
  <2> QED
    BY <2>1, <2>2
<1>2. ASSUME NEW o \in Offices
      PROVE  /\ Reconciled(Refs, ledger'[o]) /\ aged'[o] \in Nat /\ aged'[o] <= Len(ledger'[o])
  <2>1. Reconciled(Refs, ledger'[o]) /\ Len(ledger'[o]) >= Len(ledger[o])
    <3>1. CASE ledger'[o] = ledger[o]
      BY <1>1, <3>1
    <3>2. CASE Receives(o)
      BY <3>2, ReceivingAdds
    <3>3. CASE Settles(o)
      BY <3>3 DEF Settles
    <3> QED
      BY <3>1, <3>2, <3>3 DEF LedgersMove
  <2>2. Len(ledger'[o]) \in Nat
    BY <2>1, LenProperties DEF Reconciled
  <2>3. aged'[o] = aged[o]
    BY DEF LedgersMove
  <2> QED
    BY <1>1, <2>1, <2>2, <2>3
<1>3. LedgersReconciled'
  BY <1>2 DEF LedgersReconciled, LedgersMove
<1>4. ASSUME NEW s \in Sessions, session'[s].pc \in {"funded", "offer_funded"}
      PROVE  SumOf(ledger'[Seat[s]]) >= SumOf(ledger[Seat[s]]) /\ session'[s].pc = session[s].pc
             /\ SumOf(ledger[Seat[s]]) \in Int /\ SumOf(ledger'[Seat[s]]) \in Int
  <2> DEFINE o == Seat[s]
  <2>1. o \in Offices
    BY DEF MarketAssumption
  <2>2. ~Settles(o)
    BY <1>4 DEF Settles
  <2>3. session'[s].pc = session[s].pc
    BY <1>4 DEF HoldersStay
  <2> HIDE DEF o
  <2>4. CASE ledger'[o] = ledger[o]
    <3>1. SumOf(ledger[o]) \in Nat
      BY <1>1, <2>1, ReconciledSums
    <3> QED
      BY <2>3, <2>4, <3>1 DEF o
  <2>5. CASE Receives(o)
    <3>1. SumOf(ledger[o]) \in Int /\ SumOf(ledger'[o]) \in Int /\ SumOf(ledger'[o]) >= SumOf(ledger[o])
      BY <2>1, <2>5, ReceivingAdds
    <3> QED
      BY <2>3, <3>1 DEF o
  <2> QED
    BY <2>1, <2>2, <2>4, <2>5 DEF LedgersMove
<1>5. SpendingCovered'
  <2> SUFFICES ASSUME NEW s \in Sessions
               PROVE  /\ session'[s].pc = "funded" => SumOf(ledger'[Seat[s]]) >= Price
                      /\ session'[s].pc = "offer_funded" => SumOf(ledger'[Seat[s]]) >= OfferCost
    BY DEF SpendingCovered, Balance
  <2>1. /\ session[s].pc = "funded" => SumOf(ledger[Seat[s]]) >= Price
        /\ session[s].pc = "offer_funded" => SumOf(ledger[Seat[s]]) >= OfferCost
    BY DEF Books, SpendingCovered, Balance
  <2>2. Price \in Int /\ OfferCost \in Int
    BY DEF MarketAssumption
  <2> QED
    BY <1>4, <2>1, <2>2
<1>6. PlansStand'
  <2>1. ASSUME NEW w \in Sweepers, sweeper'[w].office \in Offices
        PROVE  WellPlanned(Refs, ledger'[sweeper'[w].office], sweeper'[w].plan)
    <3> DEFINE o == sweeper'[w].office
    <3>1. sweeper'[w] = sweeper[w]
      BY <2>1 DEF HoldersStay, Resting, MarketAssumption
    <3>2. WellPlanned(Refs, ledger[o], sweeper'[w].plan)
      BY <2>1, <3>1 DEF Books, PlansStand
    <3>3. ~Settles(o) /\ o \in Offices
      BY <2>1 DEF Settles
    <3> HIDE DEF o
    <3>4. CASE ledger'[o] = ledger[o]
      BY <3>2, <3>4 DEF o
    <3>5. CASE Receives(o)
      BY <3>2, <3>3, <3>5, ReceivingAdds DEF o
    <3> QED
      BY <3>3, <3>4, <3>5 DEF LedgersMove
  <2> QED
    BY <2>1 DEF PlansStand, HoldersStay
<1> QED
  BY <1>3, <1>5, <1>6 DEF Books

\* No ledger moves, and nobody takes a spending lock.
LEMMA StillKeepsBooks ==
  ASSUME MarketAssumption, Books, UNCHANGED <<ledger, aged>>, HoldersStay
  PROVE  Books'
<1>1. LedgersMove
  BY DEF LedgersMove, Books, LedgersReconciled
<1> QED
  BY <1>1, LedgersMoveKeepsBooks

\* A request that ends, or goes on without the lock.
LEMMA FinishingLeavesLocks ==
  ASSUME Board, Books, NEW s \in Sessions, Finish(s), UNCHANGED sweeper
  PROVE  /\ HoldersStay
         /\ \A t \in Sessions : t # s => session'[t] = session[t]
         /\ session'[s].pc = "idle"
<1>1. \A t \in Sessions : session'[t] = IF t = s THEN Idle ELSE session[t]
  BY DEF Finish, Board, BoardTypes
<1>2. Idle.pc = "idle"
  BY DEF Idle
<1> QED
  BY <1>1, <1>2 DEF HoldersStay, Books, PlansStand

\* Whoever has a spending lock stands where it stood.
Calm == \A t \in Sessions : session'[t].pc \in {"funded", "offer_funded"} => session'[t] = session[t]

\* No ledger moves, and nobody takes a spending lock.
LEMMA CalmKeepsBooks ==
  ASSUME MarketAssumption, Books, Calm, UNCHANGED <<ledger, aged, sweeper>>
  PROVE  Books'
<1>1. HoldersStay
  BY DEF Calm, HoldersStay, Books, PlansStand
<1> QED
  BY <1>1, StillKeepsBooks

\* A request that begins has no spending lock.
LEMMA BeginningIsCalm ==
  ASSUME Board, NEW s \in Sessions, NEW pc \in {"sharing", "checked", "offering"},
         NEW on \in Leads \cup Shares \cup Offers,
         session' = [session EXCEPT ![s] = [pc |-> pc, on |-> on]]
  PROVE  Calm
<1>1. pc \in Steps
  BY DEF Steps
<1>2. session'[s].pc = pc /\ \A t \in Sessions : t # s => session'[t] = session[t]
  BY <1>1, Beginning DEF Board
<1> QED
  BY <1>2 DEF Calm

\* A request that goes on without the spending lock.
LEMMA GoingOnIsCalm ==
  ASSUME Board, NEW s \in Sessions, NEW pc \in {"claimed", "granting"}, Go(s, pc)
  PROVE  Calm
<1>1. pc \in Steps
  BY DEF Steps
<1>2. session'[s].pc = pc /\ \A t \in Sessions : t # s => session'[t] = session[t]
  BY <1>1, GoingOn DEF Board
<1> QED
  BY <1>2 DEF Calm

\* A request that ends.
LEMMA FinishingIsCalm ==
  ASSUME Board, NEW s \in Sessions, Finish(s)
  PROVE  Calm
<1>1. \A t \in Sessions : session'[t] = session[t] \/ session'[t].pc = "idle"
  BY FinishingReleases DEF Board
<1> QED
  BY <1>1 DEF Calm

\* The actions of a request in which no ledger moves and no spending lock is taken.
LEMMA ShareReadKeepsBooks ==
  ASSUME MarketAssumption, Board, Books, NEW s \in Sessions, NEW l \in Leads, ShareRead(s, l)
  PROVE  Books'
<1>1. /\ session' = [session EXCEPT ![s] = [pc |-> "sharing", on |-> l]]
      /\ UNCHANGED <<ledger, aged, sweeper>>
  BY DEF ShareRead, tables, clock
<1>2. Calm
  BY <1>1, BeginningIsCalm
<1> QED
  BY <1>1, <1>2, CalmKeepsBooks

\* Looking at the offer.
LEMMA OfferReadKeepsBooks ==
  ASSUME MarketAssumption, Board, Books, NEW s \in Sessions, NEW p \in Offers, OfferRead(s, p)
  PROVE  Books'
<1>1. /\ session' = [session EXCEPT ![s] = [pc |-> "offering", on |-> p]]
      /\ UNCHANGED <<ledger, aged, sweeper>>
  BY DEF OfferRead, tables, clock
<1>2. Calm
  BY <1>1, BeginningIsCalm
<1> QED
  BY <1>1, <1>2, CalmKeepsBooks

\* Looking at the referral.
LEMMA BuyReadKeepsBooks ==
  ASSUME MarketAssumption, Board, Books, NEW s \in Sessions, NEW x \in Shares, BuyRead(s, x)
  PROVE  Books'
<1>1. /\ \/ session' = [session EXCEPT ![s] = [pc |-> "checked", on |-> x]]
         \/ session' = session
      /\ UNCHANGED <<ledger, aged, sweeper>>
  BY DEF BuyRead, clock
<1>2. CASE session' = [session EXCEPT ![s] = [pc |-> "checked", on |-> x]]
  <2>1. Calm
    BY <1>2, BeginningIsCalm
  <2> QED
    BY <1>1, <2>1, CalmKeepsBooks
<1>3. CASE session' = session
  <2>1. Calm
    BY <1>3 DEF Calm
  <2> QED
    BY <1>1, <2>1, CalmKeepsBooks
<1> QED
  BY <1>1, <1>2, <1>3

\* Claiming the referral: the spending lock comes later.
LEMMA BuyClaimKeepsBooks ==
  ASSUME MarketAssumption, Board, Books, NEW s \in Sessions, BuyClaim(s)
  PROVE  Books'
<1>1. (Go(s, "claimed") \/ Finish(s)) /\ UNCHANGED <<ledger, aged, sweeper>>
  BY DEF BuyClaim, tables, clock
<1>2. Calm
  BY <1>1, GoingOnIsCalm, FinishingIsCalm
<1> QED
  BY <1>1, <1>2, CalmKeepsBooks

\* Looking for the first row: no lock is taken.
LEMMA GrantReadKeepsBooks ==
  ASSUME MarketAssumption, Board, Books, NEW s \in Sessions, GrantRead(s)
  PROVE  Books'
<1>1. Go(s, "granting") /\ UNCHANGED <<ledger, aged, sweeper>>
  BY DEF GrantRead, tables, clock
<1>2. Calm
  BY <1>1, GoingOnIsCalm
<1> QED
  BY <1>1, <1>2, CalmKeepsBooks

\* Ending without a row in a ledger.
LEMMA EndingKeepsBooks ==
  ASSUME MarketAssumption, Board, Books, NEW s \in Sessions,
         Rollback(s) \/ \E mode \in Modes : ShareWrite(s, mode)
  PROVE  Books'
<1>1. Finish(s) /\ UNCHANGED <<ledger, aged, sweeper>>
  BY DEF Rollback, ShareWrite, tables, clock
<1>2. Calm
  BY <1>1, FinishingIsCalm
<1> QED
  BY <1>1, <1>2, CalmKeepsBooks

\* Referrals, leads and sweeps that are given up touch no ledger.
LEMMA BoardMovesKeepBooks ==
  ASSUME MarketAssumption, Books,
         \/ \E x \in Shares : WithdrawLead(x)
         \/ \E l \in Leads : ConvertLead(l) \/ RemoveLead(l)
         \/ \E w \in Sweepers : SweepAbort(w)
  PROVE  Books'
<1>1. UNCHANGED <<ledger, aged, session>>
  BY DEF WithdrawLead, ConvertLead, RemoveLead, SweepAbort, tables, clock
<1>2. DOMAIN sweeper' = Sweepers /\ \A w \in Sweepers : sweeper'[w] = sweeper[w] \/ sweeper'[w] = Resting
  BY DEF WithdrawLead, ConvertLead, RemoveLead, SweepAbort, tables, clock, Books, PlansStand
<1>3. HoldersStay
  BY <1>1, <1>2 DEF HoldersStay
<1> QED
  BY <1>1, <1>3, StillKeepsBooks

\* The lock is taken with enough credits, or not at all.
LEMMA LockingKeepsBooks ==
  ASSUME MarketAssumption, Board, Books, NEW s \in Sessions, BuyLock(s) \/ OfferLock(s)
  PROVE  Books'
<1>1. UNCHANGED <<ledger, aged, sweeper>>
  BY DEF BuyLock, OfferLock, tables, clock
<1>2. CASE Finish(s)
  <2>1. HoldersStay
    BY <1>1, <1>2, FinishingLeavesLocks
  <2> QED
    BY <1>1, <2>1, StillKeepsBooks
<1>3. CASE \/ Go(s, "funded") /\ Balance(Seat[s]) >= Price
           \/ Go(s, "offer_funded") /\ Balance(Seat[s]) >= OfferCost
  <2>1. LedgersReconciled' /\ PlansStand'
    BY <1>1 DEF Books, LedgersReconciled, PlansStand
  <2>2. \A t \in Sessions : t # s => session'[t] = session[t]
    BY <1>3 DEF Go, Board, BoardTypes
  <2>3. \/ session'[s].pc = "funded" /\ Balance(Seat[s]) >= Price
        \/ session'[s].pc = "offer_funded" /\ Balance(Seat[s]) >= OfferCost
    BY <1>3 DEF Go, Board, BoardTypes
  <2>4. \A o : Balance(o)' = Balance(o)
    BY <1>1 DEF Balance
  <2>5. SpendingCovered'
    BY <1>1, <2>2, <2>3 DEF Books, SpendingCovered, Balance
  <2> QED
    BY <2>1, <2>5 DEF Books
<1> QED
  BY <1>2, <1>3 DEF BuyLock, OfferLock

\* What the buyer pays was there.
LEMMA PayingSettles ==
  ASSUME MarketAssumption, Board, Books, NEW s \in Sessions, NEW e \in Entries(Refs),
         \/ session[s].pc = "funded" /\ e.amount + Price = 0
         \/ session[s].pc = "offer_funded" /\ e.amount + OfferCost = 0,
         e.kind # "expiry", ledger'[Seat[s]] = Append(ledger[Seat[s]], e),
         Finish(s), UNCHANGED sweeper
  PROVE  Settles(Seat[s])
<1> DEFINE o == Seat[s]
           L == ledger[o]
<1>1. o \in Offices /\ Price \in Nat /\ OfferCost \in Nat
  BY DEF MarketAssumption
<1>2. Reconciled(Refs, L)
  BY <1>1 DEF Books, LedgersReconciled
<1>3. /\ session[s].pc = "funded" => Price <= SumOf(L)
      /\ session[s].pc = "offer_funded" => OfferCost <= SumOf(L)
  <2>1. SumOf(L) \in Nat
    BY <1>2, ReconciledSums
  <2>2. /\ session[s].pc = "funded" => SumOf(L) >= Price
        /\ session[s].pc = "offer_funded" => SumOf(L) >= OfferCost
    BY DEF Books, SpendingCovered, Balance
  <2> HIDE DEF L
  <2> QED
    BY <1>1, <2>1, <2>2
<1>4. Reconciled(Refs, Append(L, e))
  <2> HIDE DEF L
  <2> QED
    BY <1>1, <1>2, <1>3, SpendingReconciles
<1>5. Len(Append(L, e)) >= Len(L)
  <2>1. L \in Seq(Entries(Refs))
    BY <1>2 DEF Reconciled
  <2> HIDE DEF L
  <2> QED
    BY <2>1, AppendProperties, LenProperties
<1>6. \A t \in Sessions : session'[t].pc \in {"funded", "offer_funded"} => Seat[t] # o
  <2> SUFFICES ASSUME NEW t \in Sessions, session'[t].pc \in {"funded", "offer_funded"} PROVE Seat[t] # o
    OBVIOUS
  <2>1. session'[s].pc = "idle" /\ \A u \in Sessions : u # s => session'[u] = session[u]
    BY FinishingLeavesLocks
  <2>2. t # s /\ session'[t] = session[t]
    BY <2>1
  <2> QED
    BY <2>2 DEF Board, OneSpender
<1>7. \A w \in Sweepers : sweeper'[w].office # o
  BY DEF Board, OneSpender
<1> QED
  BY <1>4, <1>5, <1>6, <1>7 DEF Settles

\* A row that gives credits.
LEMMA GivingIsReceived ==
  ASSUME MarketAssumption, NEW o \in Offices, NEW kind \in {"initial_grant", "purchase", "lead_sale"},
         NEW amount \in Nat, NEW ref \in Refs,
         ledger'[o] = Append(ledger[o], Entry(kind, amount, ref))
  PROVE  Receives(o)
<1> DEFINE e == Entry(kind, amount, ref)
<1>1. e \in Entries(Refs) /\ e.kind # "expiry" /\ e.amount >= 0
  BY DEF Entry, Entries, Kinds
<1> HIDE DEF e
<1>2. ledger'[o] = Append(ledger[o], e)
  BY DEF e
<1> QED
  BY <1>1, <1>2 DEF Receives

\* The buyer settles under its lock, the referrer receives under none.
LEMMA BuyCommitKeepsBooks ==
  ASSUME MarketAssumption, Board, Books, NEW s \in Sessions, BuyCommit(s)
  PROVE  Books'
<1> DEFINE x == session[s].on
           o == Seat[s]
           mode == share[x].mode
           referrer == Owner[share[x].lead]
<1>1. /\ session[s].pc = "funded" /\ Finish(s) /\ UNCHANGED <<sweeper, aged>>
      /\ ledger' = [ledger EXCEPT
           ![o] = Append(@, Entry("lead_purchase", -Price, x)),
           ![referrer] = IF mode = "credits" THEN Append(@, Entry("lead_sale", ReferrerPayout(mode), x)) ELSE @]
  BY DEF BuyCommit, clock, At
<1>2. x \in Shares /\ share[x].lead \in Leads /\ mode \in Modes /\ referrer # o
  <2>1. Fit(s)
    BY DEF Board, SessionsFit
  <2>2. x \in Shares /\ share[x].status = "active" /\ referrer # o
    BY <1>1, <2>1 DEF Fit, Sellable
  <2> QED
    BY <2>2 DEF Board, SharesFit, BoardTypes
<1>3. o \in Offices /\ referrer \in Offices /\ x \in Refs /\ Price \in Nat
  BY <1>2 DEF MarketAssumption, Refs
<1> HIDE DEF x, o, mode, referrer
<1>4. /\ DOMAIN ledger' = Offices
      /\ ledger'[o] = Append(ledger[o], Entry("lead_purchase", -Price, x))
      /\ ledger'[referrer] = IF mode = "credits"
                             THEN Append(ledger[referrer], Entry("lead_sale", ReferrerPayout(mode), x))
                             ELSE ledger[referrer]
      /\ \A q \in Offices \ {o, referrer} : ledger'[q] = ledger[q]
  <2>1. DOMAIN ledger = Offices
    BY DEF Books, LedgersReconciled
  <2> QED
    BY <1>1, <1>2, <1>3, <2>1
<1>5. Settles(o)
  <2> DEFINE e == Entry("lead_purchase", -Price, x)
  <2>1. e \in Entries(Refs) /\ e.kind # "expiry" /\ e.amount + Price = 0
    BY <1>3 DEF Entry, Entries, Kinds
  <2> HIDE DEF e
  <2>2. ledger'[Seat[s]] = Append(ledger[Seat[s]], e)
    BY <1>4 DEF e, o
  <2> QED
    BY <1>1, <2>1, <2>2, PayingSettles DEF o
<1>6. ledger'[referrer] = ledger[referrer] \/ Receives(referrer)
  <2>1. ReferrerPayout(mode) \in Nat
    BY <1>2, SettlementAdds
  <2>2. CASE mode = "credits"
    <3>1. ledger'[referrer] = Append(ledger[referrer], Entry("lead_sale", ReferrerPayout(mode), x))
      BY <1>4, <2>2
    <3> QED
      BY <1>3, <2>1, <3>1, GivingIsReceived
  <2>3. CASE mode # "credits"
    BY <1>4, <2>3
  <2> QED
    BY <2>2, <2>3
<1>7. LedgersMove
  BY <1>1, <1>4, <1>5, <1>6 DEF LedgersMove
<1>8. HoldersStay
  BY <1>1, FinishingLeavesLocks
<1> QED
  BY <1>7, <1>8, LedgersMoveKeepsBooks

\* The offer is charged under the lock, or nothing is.
LEMMA OfferCommitKeepsBooks ==
  ASSUME MarketAssumption, Board, Books, NEW s \in Sessions, OfferCommit(s)
  PROVE  Books'
<1> DEFINE o == Seat[s]
           p == session[s].on
<1>1. session[s].pc = "offer_funded" /\ Finish(s) /\ UNCHANGED <<sweeper, aged>>
  BY DEF OfferCommit, clock, At
<1>2. HoldersStay
  BY <1>1, FinishingLeavesLocks
<1>3. CASE UNCHANGED ledger
  BY <1>1, <1>2, <1>3, StillKeepsBooks
<1>4. CASE ledger' = [ledger EXCEPT ![o] = Append(@, Entry("coop_offer", -OfferCost, p))]
  <2>1. o \in Offices /\ p \in Refs /\ OfferCost \in Nat
    BY <1>1 DEF MarketAssumption, Board, SessionsFit, Fit, Refs
  <2>2. DOMAIN ledger = Offices
    BY DEF Books, LedgersReconciled
  <2>3. /\ DOMAIN ledger' = Offices /\ ledger'[o] = Append(ledger[o], Entry("coop_offer", -OfferCost, p))
        /\ \A q \in Offices \ {o} : ledger'[q] = ledger[q]
    BY <1>4, <2>1, <2>2
  <2> HIDE DEF o, p
  <2>4. Settles(o)
    <3> DEFINE e == Entry("coop_offer", -OfferCost, p)
    <3>1. e \in Entries(Refs) /\ e.kind # "expiry" /\ e.amount + OfferCost = 0
      BY <2>1 DEF Entry, Entries, Kinds
    <3> HIDE DEF e
    <3>2. ledger'[Seat[s]] = Append(ledger[Seat[s]], e)
      BY <2>3 DEF e, o
    <3> QED
      BY <1>1, <3>1, <3>2, PayingSettles DEF o
  <2>5. LedgersMove
    BY <1>1, <2>3, <2>4 DEF LedgersMove
  <2> QED
    BY <1>2, <2>5, LedgersMoveKeepsBooks
<1> QED
  BY <1>3, <1>4 DEF OfferCommit

\* Grants and packages come in under no lock.
LEMMA GiftsKeepBooks ==
  ASSUME MarketAssumption, Board, Books,
         \/ \E s \in Sessions : GrantWrite(s)
         \/ \E o \in Offices : BuyCredits(o)
  PROVE  Books'
<1>1. HoldersStay
  <2>1. CASE \E s \in Sessions : GrantWrite(s)
    <3>1. PICK s \in Sessions : Finish(s) /\ UNCHANGED sweeper
      BY <2>1 DEF GrantWrite
    <3> QED
      BY <3>1, FinishingLeavesLocks
  <2>2. CASE \E o \in Offices : BuyCredits(o)
    BY <2>2 DEF BuyCredits, HoldersStay, Books, PlansStand
  <2> QED
    BY <2>1, <2>2
<1>2. PICK o \in Offices, kind \in {"initial_grant", "purchase"}, amount \in Nat :
        /\ ledger' = [ledger EXCEPT ![o] = Append(@, Entry(kind, amount, None))]
        /\ UNCHANGED aged
  <2>1. InitialGrant \in Nat /\ TopUp \in Nat /\ \A s \in Sessions : Seat[s] \in Offices
    BY DEF MarketAssumption
  <2> QED
    BY <2>1 DEF GrantWrite, BuyCredits, clock
<1>3. /\ DOMAIN ledger' = Offices /\ ledger'[o] = Append(ledger[o], Entry(kind, amount, None))
      /\ \A q \in Offices \ {o} : ledger'[q] = ledger[q]
  <2>1. DOMAIN ledger = Offices
    BY DEF Books, LedgersReconciled
  <2> QED
    BY <1>2, <2>1
<1>4. Receives(o)
  <2>1. None \in Refs
    BY DEF Refs
  <2> QED
    BY <1>3, <2>1, GivingIsReceived
<1>5. LedgersMove
  BY <1>2, <1>3, <1>4 DEF LedgersMove
<1> QED
  BY <1>1, <1>5, LedgersMoveKeepsBooks

\* Rows grow old: no more of them than there are.
LEMMA AgeKeepsBooks ==
  ASSUME MarketAssumption, Books, Age
  PROVE  Books'
<1>1. UNCHANGED <<ledger, session, sweeper>> /\ \A o \in Offices : aged'[o] = Len(ledger[o])
  BY DEF Age, tables
<1>2. ASSUME NEW o \in Offices
      PROVE  /\ Reconciled(Refs, ledger'[o]) /\ aged'[o] \in Nat /\ aged'[o] <= Len(ledger'[o])
  <2>1. Reconciled(Refs, ledger[o])
    BY DEF Books, LedgersReconciled
  <2>2. Len(ledger[o]) \in Nat
    BY <2>1, LenProperties DEF Reconciled
  <2> QED
    BY <1>1, <2>1, <2>2
<1>3. LedgersReconciled'
  BY <1>1, <1>2 DEF Books, LedgersReconciled
<1>4. SpendingCovered' /\ PlansStand'
  BY <1>1 DEF Books, SpendingCovered, Balance, PlansStand
<1> QED
  BY <1>3, <1>4 DEF Books

\* The plan is what is left when the lock is taken.
LEMMA SweepLockKeepsBooks ==
  ASSUME MarketAssumption, Books, NEW w \in Sweepers, NEW o \in Offices, SweepLock(w, o)
  PROVE  Books'
<1>1. UNCHANGED <<ledger, session, aged>> /\ sweeper' = [sweeper EXCEPT ![w] = [office |-> o, plan |-> Planned(o)]]
  BY DEF SweepLock, tables, clock
<1>2. WellPlanned(Refs, ledger[o], Planned(o))
  <2>1. Reconciled(Refs, ledger[o]) /\ aged[o] \in Nat /\ aged[o] <= Len(ledger[o])
    BY DEF Books, LedgersReconciled
  <2> QED
    BY <2>1, RefsHoldNumbers, PlansAreRight DEF Planned
<1>3. LedgersReconciled' /\ SpendingCovered'
  BY <1>1 DEF Books, LedgersReconciled, SpendingCovered, Balance
<1>4. PlansStand'
  <2>1. /\ DOMAIN sweeper' = Sweepers
        /\ \A v \in Sweepers : sweeper'[v] = IF v = w THEN [office |-> o, plan |-> Planned(o)] ELSE sweeper[v]
    BY <1>1 DEF Books, PlansStand
  <2>2. ASSUME NEW v \in Sweepers, sweeper'[v].office \in Offices
        PROVE  WellPlanned(Refs, ledger[sweeper'[v].office], sweeper'[v].plan)
    BY <1>2, <2>1, <2>2 DEF Books, PlansStand
  <2> QED
    BY <1>1, <2>1, <2>2 DEF PlansStand
<1> QED
  BY <1>3, <1>4 DEF Books

\* The sweep writes the plan, or nothing.
LEMMA SweepCommitKeepsBooks ==
  ASSUME MarketAssumption, Board, Books, NEW w \in Sweepers, SweepCommit(w)
  PROVE  Books'
<1> DEFINE o == sweeper[w].office
           P == sweeper[w].plan
<1>1. /\ sweeper[w] # Resting /\ sweeper' = [sweeper EXCEPT ![w] = Resting]
      /\ UNCHANGED <<session, aged>>
  BY DEF SweepCommit, clock
<1>2. /\ DOMAIN sweeper' = Sweepers
      /\ \A v \in Sweepers : sweeper'[v] = IF v = w THEN Resting ELSE sweeper[v]
  BY <1>1 DEF Books, PlansStand
<1>3. HoldersStay
  BY <1>1, <1>2 DEF HoldersStay
<1>4. CASE UNCHANGED ledger
  BY <1>1, <1>3, <1>4, StillKeepsBooks
<1>5. CASE ledger' = [ledger EXCEPT ![o] = @ \o P]
  <2>1. o \in Offices
    BY <1>1 DEF Board, SweepersFit
  <2>2. /\ DOMAIN ledger' = Offices /\ ledger'[o] = ledger[o] \o P
        /\ \A q \in Offices \ {o} : ledger'[q] = ledger[q]
    BY <1>5, <2>1 DEF Books, LedgersReconciled
  <2>3. Reconciled(Refs, ledger[o]) /\ WellPlanned(Refs, ledger[o], P)
    BY <2>1 DEF Books, LedgersReconciled, PlansStand
  <2>4. Reconciled(Refs, ledger'[o])
    BY <2>2, <2>3, SweepReconciles
  <2>5. Len(ledger'[o]) >= Len(ledger[o])
    <3>1. ledger[o] \in Seq(Entries(Refs)) /\ P \in Seq(Entries(Refs))
      BY <2>3 DEF Reconciled, WellPlanned
    <3>2. Len(ledger[o] \o P) >= Len(ledger[o])
      BY <3>1, HeadOfConcat
    <3> HIDE DEF o, P
    <3> QED
      BY <2>2, <3>2
  <2>6. \A s \in Sessions : session'[s].pc \in {"funded", "offer_funded"} => Seat[s] # o
    BY <1>1 DEF Board, OneSpender
  <2>7. \A v \in Sweepers : sweeper'[v].office # o
    <3>1. Resting.office # o
      BY <2>1 DEF Resting, MarketAssumption
    <3>2. \A v \in Sweepers : v # w => sweeper[v].office # o
      BY <2>1 DEF Board, OneSpender, MarketAssumption
    <3> QED
      BY <1>2, <3>1, <3>2
  <2>8. Settles(o)
    BY <2>4, <2>5, <2>6, <2>7 DEF Settles
  <2> HIDE DEF o
  <2>9. LedgersMove
    BY <1>1, <2>2, <2>8 DEF LedgersMove
  <2> QED
    BY <1>3, <2>9, LedgersMoveKeepsBooks
<1> QED
  BY <1>4, <1>5 DEF SweepCommit

-----------------------------------------------------------------------------
(***************************************************************************)
(* The rows that settle sales and charge offers.                           *)
(***************************************************************************)
\* One place more, in a set of places or not.
LEMMA OneMore ==
  ASSUME NEW n \in Nat, NEW A, NEW B, A \subseteq 1..n, B \subseteq 1..(n + 1),
         \A i \in 1..n : i \in B <=> i \in A
  PROVE  /\ IsFiniteSet(A) /\ Cardinality(A) \in Nat
         /\ n + 1 \in B => Cardinality(B) = Cardinality(A) + 1
         /\ n + 1 \notin B => B = A
<1>1. IsFiniteSet(A) /\ Cardinality(A) \in Nat
  <2>1. IsFiniteSet(1..n)
    BY FS_Interval
  <2>2. IsFiniteSet(A)
    BY <2>1, FS_Subset
  <2> QED
    BY <2>2, FS_CardinalityType
<1>2. n + 1 \notin A /\ \A i \in 1..(n + 1) : i = n + 1 \/ i \in 1..n
  OBVIOUS
<1>3. ASSUME n + 1 \in B PROVE Cardinality(B) = Cardinality(A) + 1
  <2>1. B = A \cup {n + 1}
    BY <1>2, <1>3
  <2> QED
    BY <1>1, <1>2, <2>1, FS_AddElement
<1>4. ASSUME n + 1 \notin B PROVE B = A
  BY <1>2, <1>4
<1> QED
  BY <1>1, <1>3, <1>4

\* The kinds of rows that are counted.
Counted == {"lead_purchase", "lead_sale", "coop_offer"}

\* A row more in a ledger.
LEMMA RowsOfAppend ==
  ASSUME NEW L \in Seq(Entries(Refs)), NEW e \in Entries(Refs), NEW kind, NEW ref
  PROVE  /\ Cardinality(RowsOf(L, kind, ref)) \in Nat
         /\ e.kind = kind /\ e.ref = ref =>
              Cardinality(RowsOf(Append(L, e), kind, ref)) = Cardinality(RowsOf(L, kind, ref)) + 1
         /\ ~(e.kind = kind /\ e.ref = ref) => RowsOf(Append(L, e), kind, ref) = RowsOf(L, kind, ref)
<1> DEFINE n == Len(L)
           A == RowsOf(L, kind, ref)
           B == RowsOf(Append(L, e), kind, ref)
<1>1. /\ n \in Nat /\ DOMAIN L = 1..n /\ DOMAIN Append(L, e) = 1..(n + 1)
      /\ \A i \in 1..n : Append(L, e)[i] = L[i]
      /\ Append(L, e)[n + 1] = e
  BY AppendProperties, LenProperties
<1>2. A \subseteq 1..n /\ B \subseteq 1..(n + 1) /\ \A i \in 1..n : i \in B <=> i \in A
  BY <1>1 DEF RowsOf
<1>3. n + 1 \in B <=> e.kind = kind /\ e.ref = ref
  BY <1>1 DEF RowsOf
<1>4. n \in Nat
  BY <1>1
<1> HIDE DEF n, A, B
<1>5. /\ Cardinality(A) \in Nat
      /\ n + 1 \in B => Cardinality(B) = Cardinality(A) + 1
      /\ n + 1 \notin B => B = A
  BY ONLY ZenonT(60), <1>2, <1>4, OneMore
<1> QED
  BY <1>3, <1>5 DEF A, B

\* A plan that is written off has none of the rows that are counted.
LEMMA RowsOfPlan ==
  ASSUME NEW L \in Seq(Entries(Refs)), NEW P \in Seq(Entries(Refs)),
         \A k \in 1..Len(P) : P[k].kind = "expiry",
         NEW kind, kind # "expiry", NEW ref
  PROVE  RowsOf(L \o P, kind, ref) = RowsOf(L, kind, ref)
<1>1. /\ Len(L) \in Nat /\ Len(P) \in Nat /\ DOMAIN L = 1..Len(L)
      /\ DOMAIN (L \o P) = 1..(Len(L) + Len(P))
      /\ \A i \in 1..(Len(L) + Len(P)) : (L \o P)[i] = IF i <= Len(L) THEN L[i] ELSE P[i - Len(L)]
  BY ConcatProperties, LenProperties
<1>2. ASSUME NEW i \in 1..(Len(L) + Len(P)), i > Len(L) PROVE (L \o P)[i].kind = "expiry"
  <2>1. i - Len(L) \in 1..Len(P) /\ ~(i <= Len(L))
    BY <1>1, <1>2
  <2> QED
    BY <1>1, <2>1
<1>3. \A i \in 1..(Len(L) + Len(P)) : i \in 1..Len(L) \/ i > Len(L)
  BY <1>1
<1>4. 1..Len(L) \subseteq 1..(Len(L) + Len(P)) /\ \A i \in 1..Len(L) : (L \o P)[i] = L[i]
  BY <1>1
<1> QED
  BY <1>1, <1>2, <1>3, <1>4 DEF RowsOf

\* Purchases and sales are rows of the price, and of what the referrer gets.
PricedRow(e) ==
  /\ e.kind = "lead_purchase" => e.amount + Price = 0
  /\ e.kind = "lead_sale" => e.amount = ReferrerPayout("credits")

Priced(L) == \A i \in DOMAIN L : PricedRow(L[i])

\* A row more of the right amount.
LEMMA PricedAppend ==
  ASSUME NEW L \in Seq(Entries(Refs)), Priced(L), NEW e \in Entries(Refs), PricedRow(e)
  PROVE  Priced(Append(L, e))
<1>1. /\ Len(L) \in Nat /\ DOMAIN L = 1..Len(L) /\ DOMAIN Append(L, e) = 1..(Len(L) + 1)
      /\ \A i \in 1..Len(L) : Append(L, e)[i] = L[i]
      /\ Append(L, e)[Len(L) + 1] = e
  BY AppendProperties, LenProperties
<1>2. \A i \in 1..(Len(L) + 1) : i \in 1..Len(L) \/ i = Len(L) + 1
  BY <1>1
<1> QED
  BY <1>1, <1>2 DEF Priced

\* A plan has no rows that are priced.
LEMMA PricedPlan ==
  ASSUME NEW L \in Seq(Entries(Refs)), Priced(L), NEW P \in Seq(Entries(Refs)),
         \A k \in 1..Len(P) : P[k].kind = "expiry"
  PROVE  Priced(L \o P)
<1>1. /\ Len(L) \in Nat /\ Len(P) \in Nat /\ DOMAIN L = 1..Len(L)
      /\ DOMAIN (L \o P) = 1..(Len(L) + Len(P))
      /\ \A i \in 1..(Len(L) + Len(P)) : (L \o P)[i] = IF i <= Len(L) THEN L[i] ELSE P[i - Len(L)]
  BY ConcatProperties, LenProperties
<1>2. ASSUME NEW i \in 1..(Len(L) + Len(P)) PROVE PricedRow((L \o P)[i])
  <2>1. CASE i <= Len(L)
    <3>1. i \in DOMAIN L /\ (L \o P)[i] = L[i]
      BY <1>1, <2>1
    <3> QED
      BY <3>1 DEF Priced
  <2>2. CASE ~(i <= Len(L))
    <3>1. i - Len(L) \in 1..Len(P) /\ (L \o P)[i] = P[i - Len(L)]
      BY <1>1, <2>2
    <3> QED
      BY <3>1 DEF PricedRow
  <2> QED
    BY <2>1, <2>2
<1> QED
  BY <1>1, <1>2 DEF Priced

-----------------------------------------------------------------------------
\* The counts of SaleSettledOnce for referral x, and its row of the platform.
Settlement(x) ==
  /\ Cardinality(FeesOf(x)) = OnceIf(Sold(x))
  /\ \A o \in Offices :
       /\ Cardinality(RowsOf(ledger[o], "lead_purchase", x)) = OnceIf(Sold(x) /\ o = share[x].buyer)
       /\ Cardinality(RowsOf(ledger[o], "lead_sale", x)) = OnceIf(SoldFor(x, o, "credits"))
       /\ Cardinality(Paid(x, o)) = OnceIf(SoldFor(x, o, "cash"))

FeeRight(x) == \A i \in FeesOf(x) : fees[i] = FeeRow(x, share[x].mode)

LedgersPriced == \A o \in Offices : Priced(ledger[o])

SalesBooked == LedgersPriced /\ \A x \in Shares : Settlement(x) /\ FeeRight(x)

Sales == SalesBooked /\ OfferChargedOnce

\* A step that neither sells nor charges for an offer.
NoRowsCounted ==
  \A o \in Offices :
    /\ Priced(ledger[o]) => Priced(ledger'[o])
    /\ \A kind \in Counted, ref \in Refs : RowsOf(ledger'[o], kind, ref) = RowsOf(ledger[o], kind, ref)

NoSaleRows ==
  \A o \in Offices :
    /\ Priced(ledger[o]) => Priced(ledger'[o])
    /\ \A kind \in {"lead_purchase", "lead_sale"}, ref \in Refs :
         RowsOf(ledger'[o], kind, ref) = RowsOf(ledger[o], kind, ref)

NoneSold ==
  \A x \in Shares : share'[x] = share[x] \/ (share[x].status # "sold" /\ share'[x].status # "sold")

\* The platform's rows of a sale can be counted.
LEMMA FeesAreFinite ==
  ASSUME BoardTypes, NEW x
  PROVE  IsFiniteSet(FeesOf(x)) /\ Cardinality(FeesOf(x)) \in Nat
<1>1. Len(fees) \in Nat /\ DOMAIN fees = 1..Len(fees)
  BY LenProperties DEF BoardTypes
<1>2. IsFiniteSet(1..Len(fees)) /\ FeesOf(x) \subseteq 1..Len(fees)
  BY <1>1, FS_Interval DEF FeesOf
<1>3. IsFiniteSet(FeesOf(x))
  BY <1>2, FS_Subset
<1> QED
  BY <1>3, FS_CardinalityType

\* Offers stay charged as they were when no such row is written.
LEMMA OffersStayCharged ==
  ASSUME OfferChargedOnce, NoRowsCounted, UNCHANGED offered
  PROVE  OfferChargedOnce'
<1> SUFFICES ASSUME NEW p \in Offers, NEW o \in Offices
             PROVE  Cardinality(RowsOf(ledger'[o], "coop_offer", p)) = OnceIf(p \in offered /\ o = Owner[p])
  BY DEF OfferChargedOnce, OnceIf, RowsOf
<1>1. "coop_offer" \in Counted /\ p \in Refs
  BY DEF Counted, Refs
<1>2. RowsOf(ledger'[o], "coop_offer", p) = RowsOf(ledger[o], "coop_offer", p)
  BY <1>1 DEF NoRowsCounted
<1> QED
  BY <1>2 DEF OfferChargedOnce

\* Sales stay settled as they were when nothing is sold and no such row is written.
LEMMA SettlementStays ==
  ASSUME BoardTypes, SalesBooked, NoSaleRows, NoneSold, UNCHANGED <<payouts, fees>>
  PROVE  SalesBooked'
<1>1. LedgersPriced'
  BY DEF SalesBooked, LedgersPriced, NoSaleRows
<1>2. ASSUME NEW x \in Shares PROVE Settlement(x)' /\ FeeRight(x)'
  <2>1. Settlement(x) /\ FeeRight(x)
    BY DEF SalesBooked
  <2>2. x \in Refs
    BY DEF Refs
  <2>3. \A o \in Offices :
          /\ RowsOf(ledger'[o], "lead_purchase", x) = RowsOf(ledger[o], "lead_purchase", x)
          /\ RowsOf(ledger'[o], "lead_sale", x) = RowsOf(ledger[o], "lead_sale", x)
          /\ Paid(x, o)' = Paid(x, o)
    BY <2>2 DEF NoSaleRows, Paid
  <2>4. FeesOf(x)' = FeesOf(x)
    BY DEF FeesOf
  <2>5. CASE share'[x] = share[x]
    <3>1. /\ OnceIf(Sold(x)') = OnceIf(Sold(x))
          /\ \A o \in Offices :
               /\ OnceIf(Sold(x)' /\ o = share'[x].buyer) = OnceIf(Sold(x) /\ o = share[x].buyer)
               /\ \A m \in Modes : OnceIf(SoldFor(x, o, m)') = OnceIf(SoldFor(x, o, m))
      BY <2>5 DEF Sold, SoldFor, OnceIf
    <3>2. FeeRight(x)'
      BY <2>1, <2>4, <2>5 DEF FeeRight, FeeRow, PlatformFee, BonusCredits, ReferrerPayout, Settled
    <3> QED
      BY <2>1, <2>3, <2>4, <3>1, <3>2 DEF Settlement, Modes
  <2>6. CASE share[x].status # "sold" /\ share'[x].status # "sold"
    <3>1. ~Sold(x) /\ ~Sold(x)' /\ \A o \in Offices, m \in Modes : ~SoldFor(x, o, m) /\ ~SoldFor(x, o, m)'
      BY <2>6 DEF Sold, SoldFor
    <3>2. FeeRight(x)'
      <4>1. Cardinality(FeesOf(x)) = 0
        BY <2>1, <3>1 DEF Settlement, OnceIf
      <4>2. FeesOf(x) = {}
        BY <4>1, FeesAreFinite, FS_EmptySet
      <4> QED
        BY <2>4, <4>2 DEF FeeRight
    <3> QED
      BY <2>1, <2>3, <2>4, <3>1, <3>2 DEF Settlement, OnceIf, Modes
  <2> QED
    BY <2>5, <2>6 DEF NoneSold
<1> QED
  BY <1>1, <1>2 DEF SalesBooked

\* A step that neither sells nor offers keeps both.
LEMMA QuietKeepsSales ==
  ASSUME BoardTypes, Sales, NoRowsCounted, NoneSold, UNCHANGED <<offered, payouts, fees>>
  PROVE  Sales'
<1>1. NoSaleRows
  BY DEF NoRowsCounted, NoSaleRows, Counted
<1> QED
  BY <1>1, OffersStayCharged, SettlementStays DEF Sales

\* The ledgers stay as they are.
LEMMA StillKeepsSales ==
  ASSUME BoardTypes, Sales, NoneSold, UNCHANGED <<ledger, offered, payouts, fees>>
  PROVE  Sales'
<1>1. NoRowsCounted
  BY DEF NoRowsCounted
<1> QED
  BY <1>1, QuietKeepsSales

\* The tables stay as they are.
LEMMA UntouchedKeepsSales ==
  ASSUME BoardTypes, Sales, UNCHANGED tables
  PROVE  Sales'
<1>1. NoneSold /\ UNCHANGED <<ledger, offered, payouts, fees>>
  BY DEF NoneSold, tables
<1> QED
  BY <1>1, StillKeepsSales

\* A place that was not used is published.
LEMMA ShareWriteKeepsSales ==
  ASSUME Board, Sales, NEW s \in Sessions, NEW mode \in Modes, ShareWrite(s, mode)
  PROVE  Sales'
<1> DEFINE free == {x \in Shares : share[x].status = "unused"}
           new == [status |-> "active", lead |-> session[s].on, mode |-> mode, buyer |-> None]
<1>1. BoardTypes /\ UNCHANGED <<ledger, offered, payouts, fees>>
  BY DEF Board, ShareWrite
<1>2. NoneSold
  <2>1. \/ UNCHANGED share
        \/ free # {} /\ share' = [share EXCEPT ![Min(free)] = new]
    BY DEF ShareWrite
  <2>2. CASE UNCHANGED share
    BY <2>2 DEF NoneSold
  <2>3. CASE free # {} /\ share' = [share EXCEPT ![Min(free)] = new]
    <3>1. free \subseteq Nat
      BY DEF Shares
    <3>2. Min(free) \in free
      <4> HIDE DEF free
      <4> QED
        BY <2>3, <3>1, MinOfNumbers
    <3>3. share[Min(free)].status = "unused" /\ Min(free) \in Shares
      BY <3>2
    <3> DEFINE y == Min(free)
    <3>4. share' = [share EXCEPT ![y] = new] /\ share[y].status = "unused" /\ y \in Shares
      BY <2>3, <3>3
    <3> HIDE DEF y
    <3>5. new.status = "active"
      OBVIOUS
    <3> HIDE DEF new
    <3> QED
      BY <1>1, <3>4, <3>5 DEF NoneSold, BoardTypes
  <2> QED
    BY <2>1, <2>2, <2>3
<1> QED
  BY <1>1, <1>2, StillKeepsSales

\* What comes down from the board was not sold.
LEMMA TakingDownKeepsSales ==
  ASSUME MarketAssumption, Board, Sales,
         \/ \E x \in Shares : WithdrawLead(x)
         \/ \E s \in Sessions, x \in Shares : BuyRead(s, x)
         \/ \E l \in Leads : RemoveLead(l)
  PROVE  Sales'
<1>1. BoardTypes
  BY DEF Board
<1>2. UNCHANGED <<ledger, offered, payouts, fees>>
  BY DEF WithdrawLead, BuyRead, RemoveLead
<1>3. NoShare("down").status = "down"
  BY DEF NoShare
<1>4. ASSUME NEW x \in Shares, share[x].status = "active", share' = [share EXCEPT ![x] = NoShare("down")]
      PROVE  NoneSold
  BY <1>1, <1>3, <1>4 DEF NoneSold, BoardTypes
<1>5. NoneSold
  <2>1. CASE \E x \in Shares : WithdrawLead(x)
    BY <1>4, <2>1 DEF WithdrawLead
  <2>2. CASE \E s \in Sessions, x \in Shares : BuyRead(s, x)
    <3>1. PICK x \in Shares : 
            \/ share' = share
            \/ share[x].status = "active" /\ share' = [share EXCEPT ![x] = NoShare("down")]
      BY <2>2 DEF BuyRead
    <3>2. share' = share => NoneSold
      BY DEF NoneSold
    <3> QED
      BY <1>4, <3>1, <3>2
  <2>3. CASE \E l \in Leads : RemoveLead(l)
    BY <1>3, <2>3 DEF RemoveLead, NoneSold
  <2> QED
    BY <2>1, <2>2, <2>3
<1> QED
  BY <1>1, <1>2, <1>5, StillKeepsSales

\* A lead that is taken care of leaves its referrals as they are.
LEMMA ConvertLeadKeepsSales ==
  ASSUME Board, Sales, NEW l \in Leads, ConvertLead(l)
  PROVE  Sales'
<1>1. BoardTypes /\ NoneSold /\ UNCHANGED <<ledger, offered, payouts, fees>>
  BY DEF Board, ConvertLead, NoneSold
<1> QED
  BY <1>1, StillKeepsSales

\* A row of another kind in one ledger.
LEMMA OtherRowsKeepSales ==
  ASSUME MarketAssumption, Board, Books, Sales, NEW o \in Offices, NEW kind \in {"initial_grant", "purchase"},
         NEW amount \in Int,
         ledger' = [ledger EXCEPT ![o] = Append(@, Entry(kind, amount, None))],
         UNCHANGED <<share, offered, payouts, fees>>
  PROVE  Sales'
<1> DEFINE e == Entry(kind, amount, None)
<1>1. e \in Entries(Refs) /\ PricedRow(e) /\ e.kind \notin Counted
  BY DEF Entry, Entries, Kinds, PricedRow, Counted, Refs
<1>2. DOMAIN ledger = Offices /\ \A q \in Offices : ledger[q] \in Seq(Entries(Refs))
  BY DEF Books, LedgersReconciled, Reconciled
<1>3. \A q \in Offices : ledger'[q] = IF q = o THEN Append(ledger[q], e) ELSE ledger[q]
  BY <1>2
<1> HIDE DEF e
<1>4. NoRowsCounted
  <2> SUFFICES ASSUME NEW q \in Offices
               PROVE  /\ Priced(ledger[q]) => Priced(ledger'[q])
                      /\ \A k \in Counted, ref \in Refs : RowsOf(ledger'[q], k, ref) = RowsOf(ledger[q], k, ref)
    BY DEF NoRowsCounted
  <2>1. CASE q # o
    BY <1>3, <2>1
  <2>2. CASE q = o
    <3>1. ledger'[q] = Append(ledger[q], e) /\ ledger[q] \in Seq(Entries(Refs))
      BY <1>2, <1>3, <2>2
    <3>2. Priced(ledger[q]) => Priced(ledger'[q])
      BY <1>1, <3>1, PricedAppend
    <3>3. \A k \in Counted, ref \in Refs : RowsOf(ledger'[q], k, ref) = RowsOf(ledger[q], k, ref)
      BY <1>1, <3>1, RowsOfAppend
    <3> QED
      BY <3>2, <3>3
  <2> QED
    BY <2>1, <2>2
<1>5. BoardTypes /\ NoneSold
  BY DEF Board, NoneSold
<1> QED
  BY <1>4, <1>5, QuietKeepsSales

\* Grants and packages are rows of other kinds.
LEMMA GiftsKeepSales ==
  ASSUME MarketAssumption, Board, Books, Sales,
         \/ \E s \in Sessions : GrantWrite(s)
         \/ \E o \in Offices : BuyCredits(o)
  PROVE  Sales'
<1>1. InitialGrant \in Int /\ TopUp \in Int /\ \A s \in Sessions : Seat[s] \in Offices
  BY DEF MarketAssumption
<1>2. CASE \E s \in Sessions : GrantWrite(s)
  <2>1. PICK s \in Sessions :
          /\ ledger' = [ledger EXCEPT ![Seat[s]] = Append(@, Entry("initial_grant", InitialGrant, None))]
          /\ UNCHANGED <<share, offered, payouts, fees>>
    BY <1>2 DEF GrantWrite
  <2> QED
    BY <1>1, <2>1, OtherRowsKeepSales
<1>3. CASE \E o \in Offices : BuyCredits(o)
  <2>1. PICK o \in Offices :
          /\ ledger' = [ledger EXCEPT ![o] = Append(@, Entry("purchase", TopUp, None))]
          /\ UNCHANGED <<share, offered, payouts, fees>>
    BY <1>3 DEF BuyCredits
  <2> QED
    BY <1>1, <2>1, OtherRowsKeepSales
<1> QED
  BY <1>2, <1>3

\* So are the rows of a sweep.
LEMMA SweepCommitKeepsSales ==
  ASSUME MarketAssumption, Board, Books, Sales, NEW w \in Sweepers, SweepCommit(w)
  PROVE  Sales'
<1> DEFINE o == sweeper[w].office
           P == sweeper[w].plan
<1>1. BoardTypes /\ NoneSold /\ UNCHANGED <<offered, payouts, fees>>
  BY DEF Board, NoneSold, SweepCommit
<1>2. CASE UNCHANGED ledger
  BY <1>1, <1>2, StillKeepsSales
<1>3. CASE ledger' = [ledger EXCEPT ![o] = @ \o P]
  <2>1. o \in Offices
    BY DEF Board, SweepersFit, SweepCommit
  <2>2. P \in Seq(Entries(Refs)) /\ \A k \in 1..Len(P) : P[k].kind = "expiry"
    BY <2>1 DEF Books, PlansStand, WellPlanned, WellPlannedRow
  <2>3. DOMAIN ledger = Offices /\ \A q \in Offices : ledger[q] \in Seq(Entries(Refs))
    BY DEF Books, LedgersReconciled, Reconciled
  <2>4. \A q \in Offices : ledger'[q] = IF q = o THEN ledger[q] \o P ELSE ledger[q]
    BY <1>3, <2>3
  <2> HIDE DEF o, P
  <2>5. \A k \in Counted : k # "expiry"
    BY DEF Counted
  <2>6. NoRowsCounted
    <3> SUFFICES ASSUME NEW q \in Offices
                 PROVE  /\ Priced(ledger[q]) => Priced(ledger'[q])
                        /\ \A k \in Counted, ref \in Refs :
                             RowsOf(ledger'[q], k, ref) = RowsOf(ledger[q], k, ref)
      BY DEF NoRowsCounted
    <3>1. CASE q # o
      BY <2>4, <3>1
    <3>2. CASE q = o
      <4>1. ledger'[q] = ledger[q] \o P /\ ledger[q] \in Seq(Entries(Refs))
        BY <2>3, <2>4, <3>2
      <4>2. ASSUME Priced(ledger[q]) PROVE Priced(ledger'[q])
        <5> DEFINE L == ledger[q]
        <5>1. L \in Seq(Entries(Refs)) /\ Priced(L) /\ ledger'[q] = L \o P
          BY <4>1, <4>2
        <5> HIDE DEF L
        <5>2. Priced(L \o P)
          BY <2>2, <5>1, PricedPlan
        <5> QED
          BY <5>1, <5>2
      <4>3. \A k \in Counted, ref \in Refs : RowsOf(ledger'[q], k, ref) = RowsOf(ledger[q], k, ref)
        BY <2>2, <2>5, <4>1, RowsOfPlan
      <4> QED
        BY <4>2, <4>3
    <3> QED
      BY <3>1, <3>2
  <2> QED
    BY <1>1, <2>6, QuietKeepsSales
<1> QED
  BY <1>2, <1>3 DEF SweepCommit

\* A sale: one row for the buyer, one for the platform, and one for the referrer,
\* in its credits or in its payouts.
LEMMA BuyCommitKeepsSales ==
  ASSUME MarketAssumption, Board, Books, Sales, NEW s \in Sessions, BuyCommit(s)
  PROVE  Sales'
<1> DEFINE x == session[s].on
           o == Seat[s]
           mode == share[x].mode
           referrer == Owner[share[x].lead]
<1>1. /\ share' = [share EXCEPT ![x].status = "sold", ![x].buyer = o]
      /\ ledger' = [ledger EXCEPT
           ![o] = Append(@, Entry("lead_purchase", -Price, x)),
           ![referrer] = IF mode = "credits" THEN Append(@, Entry("lead_sale", ReferrerPayout(mode), x)) ELSE @]
      /\ payouts' = IF mode = "cash" THEN Append(payouts, [office |-> referrer, ref |-> x]) ELSE payouts
      /\ fees' = Append(fees, FeeRow(x, mode))
      /\ UNCHANGED offered
  BY DEF BuyCommit
<1>2. x \in Shares /\ share[x].lead \in Leads /\ mode \in Modes /\ referrer # o /\ share[x].status = "active"
  <2>1. session[s].pc = "funded" /\ Fit(s)
    BY DEF Board, SessionsFit, BuyCommit, At
  <2>2. x \in Shares /\ share[x].status = "active" /\ referrer # o
    BY <2>1 DEF Fit, Sellable
  <2> QED
    BY <2>2 DEF Board, SharesFit, BoardTypes
<1>3. o \in Offices /\ referrer \in Offices /\ x \in Refs /\ Price \in Nat
  BY <1>2 DEF MarketAssumption, Refs
<1>4. BoardTypes
  BY DEF Board
<1> HIDE DEF x, o, mode, referrer
<1>5. /\ \A y \in Shares \ {x} : share'[y] = share[y]
      /\ share'[x].status = "sold" /\ share'[x].buyer = o
      /\ share'[x].lead = share[x].lead /\ share'[x].mode = mode
  <2>1. share'[x].status = "sold" /\ share'[x].buyer = o /\ share'[x].lead = share[x].lead
        /\ share'[x].mode = share[x].mode
    BY <1>1, <1>2, <1>4 DEF BoardTypes
  <2>2. \A y \in Shares \ {x} : share'[y] = share[y]
    BY <1>1, <1>2, <1>4 DEF BoardTypes
  <2> QED
    BY <2>1, <2>2 DEF mode
<1> DEFINE bought == Entry("lead_purchase", -Price, x)
           sold == Entry("lead_sale", ReferrerPayout(mode), x)
<1>6. /\ bought \in Entries(Refs) /\ bought.kind = "lead_purchase" /\ bought.ref = x /\ PricedRow(bought)
      /\ sold \in Entries(Refs) /\ sold.kind = "lead_sale" /\ sold.ref = x
      /\ mode = "credits" => PricedRow(sold)
  <2>1. ReferrerPayout(mode) \in Int
    BY <1>2, SettlementAdds
  <2> QED
    BY <1>3, <2>1 DEF Entry, Entries, Kinds, PricedRow
<1> HIDE DEF bought, sold
<1>7. \A q \in Offices : ledger[q] \in Seq(Entries(Refs))
  BY DEF Books, LedgersReconciled, Reconciled
<1>8. /\ ledger'[o] = Append(ledger[o], bought)
      /\ ledger'[referrer] = IF mode = "credits" THEN Append(ledger[referrer], sold) ELSE ledger[referrer]
      /\ \A q \in Offices \ {o, referrer} : ledger'[q] = ledger[q]
  <2>1. DOMAIN ledger = Offices
    BY DEF Books, LedgersReconciled
  <2> QED
    BY <1>1, <1>2, <1>3, <2>1 DEF bought, sold
\* the rows of every ledger
<1>9. ASSUME NEW q \in Offices
      PROVE  /\ Priced(ledger'[q])
             /\ \A kind, ref :
                  /\ ~(kind = "lead_purchase" /\ ref = x /\ q = o) /\ ~(kind = "lead_sale" /\ ref = x /\ q = referrer /\ mode = "credits")
                     => RowsOf(ledger'[q], kind, ref) = RowsOf(ledger[q], kind, ref)
                  /\ \/ kind = "lead_purchase" /\ ref = x /\ q = o
                     \/ kind = "lead_sale" /\ ref = x /\ q = referrer /\ mode = "credits"
                     => Cardinality(RowsOf(ledger'[q], kind, ref)) = Cardinality(RowsOf(ledger[q], kind, ref)) + 1
  <2>1. Priced(ledger[q]) /\ ledger[q] \in Seq(Entries(Refs))
    BY <1>7 DEF Sales, SalesBooked, LedgersPriced
  <2> DEFINE L == ledger[q]
             M == ledger'[q]
  <2>2. CASE q = o
    <3>1. M = Append(L, bought) /\ L \in Seq(Entries(Refs)) /\ Priced(L) /\ q # referrer
      BY <1>2, <1>8, <2>1, <2>2
    <3> HIDE DEF L, M
    <3>2. Priced(M)
      BY <1>6, <3>1, PricedAppend
    <3>3. \A kind, ref :
            /\ bought.kind = kind /\ bought.ref = ref =>
                 Cardinality(RowsOf(M, kind, ref)) = Cardinality(RowsOf(L, kind, ref)) + 1
            /\ ~(bought.kind = kind /\ bought.ref = ref) => RowsOf(M, kind, ref) = RowsOf(L, kind, ref)
      BY <1>6, <3>1, RowsOfAppend
    <3> QED
      BY <1>6, <2>2, <3>1, <3>2, <3>3 DEF L, M
  <2>3. CASE q = referrer /\ mode = "credits"
    <3>1. M = Append(L, sold) /\ L \in Seq(Entries(Refs)) /\ Priced(L) /\ q # o
      BY <1>2, <1>8, <2>1, <2>3
    <3> HIDE DEF L, M
    <3>2. Priced(M)
      BY <1>6, <2>3, <3>1, PricedAppend
    <3>3. \A kind, ref :
            /\ sold.kind = kind /\ sold.ref = ref =>
                 Cardinality(RowsOf(M, kind, ref)) = Cardinality(RowsOf(L, kind, ref)) + 1
            /\ ~(sold.kind = kind /\ sold.ref = ref) => RowsOf(M, kind, ref) = RowsOf(L, kind, ref)
      BY <1>6, <3>1, RowsOfAppend
    <3> QED
      BY <1>6, <2>3, <3>1, <3>2, <3>3 DEF L, M
  <2>4. CASE q # o /\ ~(q = referrer /\ mode = "credits")
    <3>1. M = L
      BY <1>8, <2>4
    <3> QED
      BY <2>1, <2>4, <3>1
  <2> QED
    BY <2>2, <2>3, <2>4
\* the rows of the platform, and of the payouts
<1>10. \A y \in Shares :
         /\ y = x => Cardinality(FeesOf(y)') = Cardinality(FeesOf(y)) + 1
         /\ y # x => FeesOf(y)' = FeesOf(y)
         /\ FeesOf(y) \subseteq DOMAIN fees /\ FeesOf(y)' \subseteq DOMAIN fees'
  <2> SUFFICES ASSUME NEW y \in Shares
               PROVE  /\ y = x => Cardinality(FeesOf(y)') = Cardinality(FeesOf(y)) + 1
                      /\ y # x => FeesOf(y)' = FeesOf(y)
                      /\ FeesOf(y) \subseteq DOMAIN fees /\ FeesOf(y)' \subseteq DOMAIN fees'
    OBVIOUS
  <2> DEFINE n == Len(fees)
             A == FeesOf(y)
             B == FeesOf(y)'
  <2>1. fees \in Seq([ref : Shares, fee : Int, bonus : Int, cash : BOOLEAN])
    BY <1>4 DEF BoardTypes
  <2>2. FeeRow(x, mode) \in [ref : Shares, fee : Int, bonus : Int, cash : BOOLEAN] /\ FeeRow(x, mode).ref = x
    <3>1. PlatformFee(mode) \in Int /\ BonusCredits(mode) \in Int
      BY <1>2, SettlementAdds
    <3> QED
      BY <1>2, <3>1 DEF FeeRow
  <2>3. /\ n \in Nat /\ DOMAIN fees = 1..n /\ DOMAIN fees' = 1..(n + 1)
        /\ \A i \in 1..n : fees'[i] = fees[i]
        /\ fees'[n + 1] = FeeRow(x, mode)
    BY <1>1, <2>1, <2>2, AppendProperties, LenProperties
  <2>4. A \subseteq 1..n /\ B \subseteq 1..(n + 1) /\ \A i \in 1..n : i \in B <=> i \in A
    BY <2>3 DEF FeesOf
  <2>5. n + 1 \in B <=> y = x
    BY <2>2, <2>3 DEF FeesOf
  <2>6. n \in Nat
    BY <2>3
  <2> HIDE DEF n, A, B
  <2>7. /\ n + 1 \in B => Cardinality(B) = Cardinality(A) + 1
        /\ n + 1 \notin B => B = A
    BY ONLY <2>4, <2>6, OneMore
  <2> QED
    BY <2>3, <2>4, <2>5, <2>7 DEF A, B
<1>11. \A y \in Shares, q \in Offices :
         /\ y = x /\ q = referrer /\ mode = "cash" => Cardinality(Paid(y, q)') = Cardinality(Paid(y, q)) + 1
         /\ ~(y = x /\ q = referrer /\ mode = "cash") => Paid(y, q)' = Paid(y, q)
  <2> SUFFICES ASSUME NEW y \in Shares, NEW q \in Offices
               PROVE  /\ y = x /\ q = referrer /\ mode = "cash" => Cardinality(Paid(y, q)') = Cardinality(Paid(y, q)) + 1
                      /\ ~(y = x /\ q = referrer /\ mode = "cash") => Paid(y, q)' = Paid(y, q)
    OBVIOUS
  <2>1. CASE mode # "cash"
    BY <1>1, <2>1 DEF Paid
  <2>2. CASE mode = "cash"
    <3> DEFINE n == Len(payouts)
               A == Paid(y, q)
               B == Paid(y, q)'
               row == [office |-> referrer, ref |-> x]
    <3>1. payouts \in Seq([office : Offices, ref : Shares]) /\ row \in [office : Offices, ref : Shares]
          /\ payouts' = Append(payouts, row)
      BY <1>1, <1>2, <1>3, <1>4, <2>2 DEF BoardTypes
    <3>2. row.office = referrer /\ row.ref = x
      OBVIOUS
    <3> HIDE DEF row
    <3>3. /\ n \in Nat /\ DOMAIN payouts = 1..n /\ DOMAIN payouts' = 1..(n + 1)
          /\ \A i \in 1..n : payouts'[i] = payouts[i]
          /\ payouts'[n + 1] = row
      BY <3>1, AppendProperties, LenProperties
    <3>4. A \subseteq 1..n /\ B \subseteq 1..(n + 1) /\ \A i \in 1..n : i \in B <=> i \in A
      BY <3>3 DEF Paid
    <3>5. n + 1 \in B <=> y = x /\ q = referrer
      BY <3>2, <3>3 DEF Paid
    <3>6. n \in Nat
      BY <3>3
    <3> HIDE DEF n, A, B
    <3>7. /\ n + 1 \in B => Cardinality(B) = Cardinality(A) + 1
          /\ n + 1 \notin B => B = A
      BY ONLY <3>4, <3>6, OneMore
    <3> QED
      BY <2>2, <3>5, <3>7 DEF A, B
  <2> QED
    BY <2>1, <2>2
<1>12. ASSUME NEW y \in Shares PROVE Settlement(y)'
  <2>1. Settlement(y)
    BY DEF Sales, SalesBooked
  <2>2. CASE y # x
    <3>1. share'[y] = share[y]
      BY <1>5, <2>2
    <3>2. /\ OnceIf(Sold(y)') = OnceIf(Sold(y))
          /\ \A q \in Offices :
               /\ OnceIf(Sold(y)' /\ q = share'[y].buyer) = OnceIf(Sold(y) /\ q = share[y].buyer)
               /\ \A m \in Modes : OnceIf(SoldFor(y, q, m)') = OnceIf(SoldFor(y, q, m))
      BY <3>1 DEF Sold, SoldFor, OnceIf
    <3>3. \A q \in Offices :
            /\ RowsOf(ledger'[q], "lead_purchase", y) = RowsOf(ledger[q], "lead_purchase", y)
            /\ RowsOf(ledger'[q], "lead_sale", y) = RowsOf(ledger[q], "lead_sale", y)
            /\ Paid(y, q)' = Paid(y, q)
      BY <1>9, <1>11, <2>2
    <3>4. FeesOf(y)' = FeesOf(y)
      BY <1>10, <2>2
    <3> QED
      BY <2>1, <3>2, <3>3, <3>4 DEF Settlement, Modes
  <2>3. CASE y = x
    <3>1. ~Sold(y) /\ \A q \in Offices, m \in Modes : ~SoldFor(y, q, m)
      BY <1>2, <2>3 DEF Sold, SoldFor
    <3>2. /\ Cardinality(FeesOf(y)) = 0
          /\ \A q \in Offices :
               /\ Cardinality(RowsOf(ledger[q], "lead_purchase", y)) = 0
               /\ Cardinality(RowsOf(ledger[q], "lead_sale", y)) = 0
               /\ Cardinality(Paid(y, q)) = 0
      BY <2>1, <3>1 DEF Settlement, OnceIf, Modes
    <3>3. Sold(y)' /\ Cardinality(FeesOf(y)') = 1
      BY <1>5, <1>10, <2>3, <3>2 DEF Sold
    <3>4. ASSUME NEW q \in Offices
          PROVE  /\ Cardinality(RowsOf(ledger'[q], "lead_purchase", y)) = OnceIf(q = o)
                 /\ Cardinality(RowsOf(ledger'[q], "lead_sale", y)) = OnceIf(q = referrer /\ mode = "credits")
                 /\ Cardinality(Paid(y, q)') = OnceIf(q = referrer /\ mode = "cash")
      <4>1. Cardinality(RowsOf(ledger'[q], "lead_purchase", y)) = OnceIf(q = o)
        BY <1>9, <2>3, <3>2 DEF OnceIf
      <4>2. Cardinality(RowsOf(ledger'[q], "lead_sale", y)) = OnceIf(q = referrer /\ mode = "credits")
        BY <1>9, <2>3, <3>2 DEF OnceIf
      <4>3. Cardinality(Paid(y, q)') = OnceIf(q = referrer /\ mode = "cash")
        BY <1>11, <2>3, <3>2 DEF OnceIf
      <4> QED
        BY <4>1, <4>2, <4>3
    <3>5. /\ OnceIf(Sold(y)') = 1
          /\ \A q \in Offices :
               /\ OnceIf(Sold(y)' /\ q = share'[y].buyer) = OnceIf(q = o)
               /\ \A m \in Modes : OnceIf(SoldFor(y, q, m)') = OnceIf(q = referrer /\ mode = m)
      BY <1>5, <2>3, <3>3 DEF SoldFor, OnceIf, referrer
    <3> QED
      BY ZenonT(60), <3>3, <3>4, <3>5 DEF Settlement, Modes
  <2> QED
    BY <2>2, <2>3
<1>13. ASSUME NEW y \in Shares PROVE FeeRight(y)'
  <2> SUFFICES ASSUME NEW i \in FeesOf(y)' PROVE fees'[i] = FeeRow(y, share'[y].mode)
    BY DEF FeeRight, FeeRow, PlatformFee, BonusCredits, ReferrerPayout, Settled
  <2>1. FeeRight(y) /\ Settlement(y)
    BY DEF Sales, SalesBooked
  <2>2. /\ DOMAIN fees' = 1..(Len(fees) + 1) /\ Len(fees) \in Nat /\ DOMAIN fees = 1..Len(fees)
        /\ \A j \in 1..Len(fees) : fees'[j] = fees[j]
        /\ fees'[Len(fees) + 1] = FeeRow(x, mode)
    <3>1. fees \in Seq([ref : Shares, fee : Int, bonus : Int, cash : BOOLEAN])
      BY <1>4 DEF BoardTypes
    <3>2. FeeRow(x, mode) \in [ref : Shares, fee : Int, bonus : Int, cash : BOOLEAN]
      <4>1. PlatformFee(mode) \in Int /\ BonusCredits(mode) \in Int
        BY <1>2, SettlementAdds
      <4> QED
        BY <1>2, <4>1 DEF FeeRow
    <3> QED
      BY <1>1, <3>1, <3>2, AppendProperties, LenProperties
  <2>3. i \in DOMAIN fees' /\ fees'[i].ref = y
    BY DEF FeesOf
  <2>4. CASE i = Len(fees) + 1
    <3>1. fees'[i] = FeeRow(x, mode) /\ FeeRow(x, mode).ref = x
      BY <2>2, <2>4 DEF FeeRow
    <3>2. y = x
      BY <2>3, <3>1
    <3> QED
      BY <1>5, <3>1, <3>2
  <2>5. CASE i # Len(fees) + 1
    <3>1. i \in DOMAIN fees /\ fees'[i] = fees[i]
      BY <2>2, <2>3, <2>5
    <3>2. i \in FeesOf(y)
      BY <2>3, <3>1 DEF FeesOf
    <3>3. y # x
      <4>1. SUFFICES ASSUME y = x PROVE FALSE
        OBVIOUS
      <4>2. Cardinality(FeesOf(y)) = 0
        BY <1>2, <2>1, <4>1 DEF Settlement, Sold, OnceIf
      <4>3. FeesOf(y) = {}
        BY <1>4, <4>2, FeesAreFinite, FS_EmptySet
      <4> QED
        BY <3>2, <4>3
    <3>4. share'[y] = share[y]
      BY <1>5, <3>3
    <3> QED
      BY <2>1, <3>1, <3>2, <3>4 DEF FeeRight
  <2> QED
    BY <2>4, <2>5
<1>14. SalesBooked'
  <2>1. LedgersPriced'
    BY <1>9 DEF LedgersPriced
  <2> QED
    BY <1>12, <1>13, <2>1 DEF SalesBooked
<1>15. OfferChargedOnce'
  <2> SUFFICES ASSUME NEW p \in Offers, NEW q \in Offices
               PROVE  Cardinality(RowsOf(ledger'[q], "coop_offer", p)) = OnceIf(p \in offered /\ q = Owner[p])
    BY <1>1 DEF OfferChargedOnce
  <2>1. RowsOf(ledger'[q], "coop_offer", p) = RowsOf(ledger[q], "coop_offer", p)
    BY <1>9
  <2> QED
    BY <2>1 DEF Sales, OfferChargedOnce
<1> QED
  BY <1>14, <1>15 DEF Sales

\* An offer is charged with its row, to its owner, who is the one who asks.
LEMMA OfferCommitKeepsSales ==
  ASSUME MarketAssumption, Board, Books, Sales, NEW s \in Sessions, OfferCommit(s)
  PROVE  Sales'
<1> DEFINE o == Seat[s]
           p == session[s].on
<1>1. BoardTypes /\ NoneSold /\ UNCHANGED <<payouts, fees>>
  BY DEF Board, OfferCommit, NoneSold
<1>2. p \in Offers /\ Owner[p] = o /\ o \in Offices
  <2>1. session[s].pc = "offer_funded" /\ Fit(s)
    BY DEF Board, SessionsFit, OfferCommit, At
  <2> QED
    BY <2>1 DEF Fit, MarketAssumption
<1>3. CASE UNCHANGED <<offered, ledger>>
  BY <1>1, <1>3, StillKeepsSales
<1>4. CASE /\ p \notin offered
           /\ offered' = offered \cup {p}
           /\ ledger' = [ledger EXCEPT ![o] = Append(@, Entry("coop_offer", -OfferCost, p))]
  <2> DEFINE e == Entry("coop_offer", -OfferCost, p)
  <2>1. e \in Entries(Refs) /\ PricedRow(e) /\ e.kind = "coop_offer" /\ e.ref = p
    <3>1. OfferCost \in Nat /\ p \in Refs
      BY <1>2 DEF MarketAssumption, Refs
    <3> QED
      BY <3>1 DEF Entry, Entries, Kinds, PricedRow
  <2>2. DOMAIN ledger = Offices /\ \A q \in Offices : ledger[q] \in Seq(Entries(Refs))
    BY DEF Books, LedgersReconciled, Reconciled
  <2>3. \A q \in Offices : ledger'[q] = IF q = o THEN Append(ledger[q], e) ELSE ledger[q]
    BY <1>4, <2>2
  <2> HIDE DEF e, o, p
  <2>4. ASSUME NEW q \in Offices
        PROVE  /\ Priced(ledger[q]) => Priced(ledger'[q])
               /\ \A kind, ref :
                    /\ ~(kind = "coop_offer" /\ ref = p /\ q = o) => RowsOf(ledger'[q], kind, ref) = RowsOf(ledger[q], kind, ref)
                    /\ kind = "coop_offer" /\ ref = p /\ q = o =>
                         Cardinality(RowsOf(ledger'[q], kind, ref)) = Cardinality(RowsOf(ledger[q], kind, ref)) + 1
    <3>1. CASE q # o
      BY <2>3, <3>1
    <3>2. CASE q = o
      <4> DEFINE L == ledger[q]
                 M == ledger'[q]
      <4>1. M = Append(L, e) /\ L \in Seq(Entries(Refs))
        BY <2>2, <2>3, <3>2
      <4> HIDE DEF L, M
      <4>2. Priced(L) => Priced(M)
        BY <2>1, <4>1, PricedAppend
      <4>3. \A kind, ref :
              /\ e.kind = kind /\ e.ref = ref =>
                   Cardinality(RowsOf(M, kind, ref)) = Cardinality(RowsOf(L, kind, ref)) + 1
              /\ ~(e.kind = kind /\ e.ref = ref) => RowsOf(M, kind, ref) = RowsOf(L, kind, ref)
        BY <2>1, <4>1, RowsOfAppend
      <4> QED
        BY <2>1, <3>2, <4>2, <4>3 DEF L, M
    <3> QED
      BY <3>1, <3>2
  <2>5. SalesBooked'
    <3>1. NoSaleRows
      BY <2>4 DEF NoSaleRows
    <3> QED
      BY <1>1, <3>1, SettlementStays DEF Sales
  <2>6. OfferChargedOnce'
    <3> SUFFICES ASSUME NEW r \in Offers, NEW q \in Offices
                 PROVE  Cardinality(RowsOf(ledger'[q], "coop_offer", r)) = OnceIf(r \in offered' /\ q = Owner[r])
      BY DEF OfferChargedOnce
    <3>1. Cardinality(RowsOf(ledger[q], "coop_offer", r)) = OnceIf(r \in offered /\ q = Owner[r])
      BY DEF Sales, OfferChargedOnce
    <3>2. CASE r = p /\ q = o
      <4>1. Cardinality(RowsOf(ledger[q], "coop_offer", r)) = 0
        BY <1>4, <3>1, <3>2 DEF OnceIf
      <4>2. Cardinality(RowsOf(ledger'[q], "coop_offer", r)) = 1
        BY <2>4, <3>2, <4>1
      <4> QED
        BY <1>2, <1>4, <3>2, <4>2 DEF OnceIf
    <3>3. CASE ~(r = p /\ q = o)
      <4>1. RowsOf(ledger'[q], "coop_offer", r) = RowsOf(ledger[q], "coop_offer", r)
        BY <2>4, <3>3
      <4>2. OnceIf(r \in offered' /\ q = Owner[r]) = OnceIf(r \in offered /\ q = Owner[r])
        BY <1>2, <1>4, <3>3 DEF OnceIf
      <4> QED
        BY <3>1, <4>1, <4>2
    <3> QED
      BY <3>2, <3>3
  <2> QED
    BY <2>5, <2>6 DEF Sales
<1> QED
  BY <1>3, <1>4 DEF OfferCommit

-----------------------------------------------------------------------------
(***************************************************************************)
(* The invariant.                                                          *)
(***************************************************************************)
MarketInv == Board /\ Books /\ Sales

\* An office without a row counts nothing.
LEMMA NothingCounted ==
  ASSUME NEW L, NEW kind, NEW ref, kind \in Counted,
         L = <<>> \/ L = <<Entry("initial_grant", InitialGrant, None)>>
  PROVE  RowsOf(L, kind, ref) = {}
<1>1. \A i \in DOMAIN L : L[i].kind = "initial_grant"
  <2>1. CASE L = <<>>
    BY <2>1
  <2>2. CASE L = <<Entry("initial_grant", InitialGrant, None)>>
    <3>1. DOMAIN L = {1} /\ L[1] = Entry("initial_grant", InitialGrant, None)
      BY <2>2
    <3> QED
      BY <3>1 DEF Entry
  <2> QED
    BY <2>1, <2>2
<1> QED
  BY <1>1 DEF RowsOf, Counted

\* An office begins with nothing or with its grant, both in order.
LEMMA InitialLedgers ==
  ASSUME MarketAssumption, NEW L,
         L = <<>> \/ L = <<Entry("initial_grant", InitialGrant, None)>>
  PROVE  Reconciled(Refs, L) /\ Len(L) \in Nat /\ Priced(L)
<1> DEFINE e == Entry("initial_grant", InitialGrant, None)
<1>1. Reconciled(Refs, <<>>)
  BY EmptyIsReconciled
<1>2. e \in Entries(Refs) /\ e.kind # "expiry" /\ e.amount >= 0
  BY DEF Entry, Entries, Kinds, Refs, MarketAssumption
<1>3. Reconciled(Refs, Append(<<>>, e))
  <2>1. <<>> \in Seq(Entries(Refs)) /\ Len(<<>>) = 0
    BY EmptySeq
  <2>2. \A k \in 1..Len(<<>>) : FALSE
    BY <2>1
  <2>3. WellPlanned(Refs, <<>>, <<>>)
    BY <2>1, <2>2, Zenon DEF WellPlanned
  <2> HIDE DEF e
  <2> QED
    BY <1>1, <1>2, <2>3, PlansOutlastGifts
<1>4. Append(<<>>, e) = <<e>>
  BY <1>2
<1>5. Reconciled(Refs, L)
  BY <1>1, <1>3, <1>4
<1>6. Len(L) \in Nat
  BY <1>5, LenProperties DEF Reconciled
<1>7. Priced(L)
  <2>1. CASE L = <<>>
    BY <2>1 DEF Priced
  <2>2. CASE L = <<e>>
    <3>1. DOMAIN L = {1} /\ L[1] = e
      BY <2>2
    <3>2. PricedRow(e)
      BY DEF PricedRow, Entry
    <3> QED
      BY <3>1, <3>2 DEF Priced
  <2> QED
    BY <2>1, <2>2
<1> QED
  BY <1>5, <1>6, <1>7

\* The market opens.
LEMMA InitGivesMarketInv == MarketAssumption /\ Init => MarketInv
<1> SUFFICES ASSUME MarketAssumption, Init PROVE MarketInv
  OBVIOUS
<1>1. /\ DOMAIN ledger = Offices
      /\ \A o \in Offices : \/ ledger[o] = <<>>
                            \/ ledger[o] = <<Entry("initial_grant", InitialGrant, None)>>
  BY DEF Init
<1>2. /\ session = [s \in Sessions |-> Idle] /\ \A s \in Sessions : session[s].pc = "idle"
      /\ sweeper = [w \in Sweepers |-> Resting] /\ \A w \in Sweepers : sweeper[w].office = None
  BY DEF Init, Idle, Resting
<1>3. BoardTypes
  <2>1. payouts \in Seq([office : Offices, ref : Shares])
        /\ fees \in Seq([ref : Shares, fee : Int, bonus : Int, cash : BOOLEAN])
    BY EmptySeq DEF Init
  <2> QED
    BY <2>1 DEF Init, BoardTypes, NoShare, Idle, Modes
<1>4. SharesFit
  BY DEF SharesFit, Init, NoShare
<1>5. SessionsFit
  BY <1>2 DEF SessionsFit, Fit
<1>6. OneClaim /\ OneSpender /\ SweepersFit
  BY <1>2 DEF OneClaim, OneSpender, SweepersFit
<1>7. Books
  <2>1. \A o \in Offices : Reconciled(Refs, ledger[o]) /\ Len(ledger[o]) \in Nat
    BY <1>1, InitialLedgers
  <2>2. \A o \in Offices : aged[o] = 0
    BY DEF Init
  <2>3. LedgersReconciled
    BY <1>1, <2>1, <2>2 DEF LedgersReconciled
  <2>4. SpendingCovered
    BY <1>2 DEF SpendingCovered
  <2>5. PlansStand
    BY <1>2 DEF PlansStand, MarketAssumption
  <2> QED
    BY <2>3, <2>4, <2>5 DEF Books
<1>8. Sales
  <2>1. LedgersPriced
    BY <1>1, InitialLedgers DEF LedgersPriced
  <2>2. \A o \in Offices : \A kind \in Counted : \A ref : RowsOf(ledger[o], kind, ref) = {}
    BY <1>1, NothingCounted
  <2>3. payouts = <<>> /\ fees = <<>> /\ offered = {} /\ \A x \in Shares : share[x].status = "unused"
    BY DEF Init, NoShare
  <2>4. Cardinality({}) = 0
    BY FS_EmptySet
  <2>5. \A x \in Shares : FeesOf(x) = {} /\ \A o \in Offices : Paid(x, o) = {}
    BY <2>3 DEF FeesOf, Paid
  <2>6. \A x \in Shares : Settlement(x) /\ FeeRight(x)
    BY <2>2, <2>3, <2>4, <2>5 DEF Settlement, FeeRight, Sold, SoldFor, OnceIf, Counted
  <2>7. OfferChargedOnce
    BY <2>2, <2>3, <2>4 DEF OfferChargedOnce, OnceIf, Counted
  <2> QED
    BY <2>1, <2>6, <2>7 DEF Sales, SalesBooked
<1> QED
  BY <1>3, <1>4, <1>5, <1>6, <1>7, <1>8 DEF MarketInv, Board

\* The steps of the referring office.
LEMMA ReferrerKeepsMarketInv ==
  ASSUME MarketAssumption, MarketInv, Referrer
  PROVE  MarketInv'
<1> USE DEF MarketInv
<1>1. BoardTypes
  BY DEF Board
<1>2. ASSUME NEW s \in Sessions, NEW l \in Leads, ShareRead(s, l) PROVE MarketInv'
  <2>1. UNCHANGED tables
    BY <1>2 DEF ShareRead
  <2> QED
    BY <1>1, <1>2, <2>1, ShareReadKeepsBoard, ShareReadKeepsBooks, UntouchedKeepsSales
<1>3. ASSUME NEW s \in Sessions, NEW mode \in Modes, ShareWrite(s, mode) PROVE MarketInv'
  <2>1. Board' /\ Sales'
    BY <1>3, ShareWriteKeepsBoard, ShareWriteKeepsSales
  <2>2. Books'
    BY <1>3, EndingKeepsBooks
  <2> QED
    BY <2>1, <2>2
<1>4. ASSUME NEW x \in Shares, WithdrawLead(x) PROVE MarketInv'
  <2>1. Board'
    BY <1>4, WithdrawLeadKeepsBoard
  <2>2. Books' /\ Sales'
    BY <1>4, BoardMovesKeepBooks, TakingDownKeepsSales
  <2> QED
    BY <2>1, <2>2
<1>5. ASSUME NEW l \in Leads, ConvertLead(l) PROVE MarketInv'
  <2>1. Board' /\ Sales'
    BY <1>5, ConvertLeadKeepsBoard, ConvertLeadKeepsSales
  <2>2. Books'
    BY <1>5, BoardMovesKeepBooks
  <2> QED
    BY <2>1, <2>2
<1>6. ASSUME NEW l \in Leads, RemoveLead(l) PROVE MarketInv'
  <2>1. Board'
    BY <1>6, RemoveLeadKeepsBoard
  <2>2. Books' /\ Sales'
    BY <1>6, BoardMovesKeepBooks, TakingDownKeepsSales
  <2> QED
    BY <2>1, <2>2
<1> QED
  BY <1>2, <1>3, <1>4, <1>5, <1>6 DEF Referrer

\* The steps of a purchase.
LEMMA BuyKeepsMarketInv ==
  ASSUME MarketAssumption, MarketInv, Buy
  PROVE  MarketInv'
<1> USE DEF MarketInv
<1>1. BoardTypes
  BY DEF Board
<1>2. ASSUME NEW s \in Sessions, NEW x \in Shares, BuyRead(s, x) PROVE MarketInv'
  <2>1. Board' /\ Books'
    BY <1>2, BuyReadKeepsBoard, BuyReadKeepsBooks
  <2>2. Sales'
    BY <1>2, TakingDownKeepsSales
  <2> QED
    BY <2>1, <2>2
<1>3. ASSUME NEW s \in Sessions, BuyClaim(s) PROVE MarketInv'
  <2>1. UNCHANGED tables
    BY <1>3 DEF BuyClaim
  <2> QED
    BY <1>1, <1>3, <2>1, BuyClaimKeepsBoard, BuyClaimKeepsBooks, UntouchedKeepsSales
<1>4. ASSUME NEW s \in Sessions, BuyLock(s) PROVE MarketInv'
  <2>1. UNCHANGED tables
    BY <1>4 DEF BuyLock
  <2>2. Books'
    BY <1>4, LockingKeepsBooks
  <2> QED
    BY <1>1, <1>4, <2>1, <2>2, BuyLockKeepsBoard, UntouchedKeepsSales
<1>5. ASSUME NEW s \in Sessions, BuyCommit(s) PROVE MarketInv'
  BY <1>5, BuyCommitKeepsBoard, BuyCommitKeepsBooks, BuyCommitKeepsSales
<1> QED
  BY <1>2, <1>3, <1>4, <1>5 DEF Buy

\* Offers, grants, packages and requests that die.
LEMMA CreditsKeepMarketInv ==
  ASSUME MarketAssumption, MarketInv, Credits
  PROVE  MarketInv'
<1> USE DEF MarketInv
<1>1. BoardTypes
  BY DEF Board
<1>2. ASSUME NEW s \in Sessions, NEW p \in Offers, OfferRead(s, p) PROVE MarketInv'
  <2>1. UNCHANGED tables
    BY <1>2 DEF OfferRead
  <2> QED
    BY <1>1, <1>2, <2>1, OfferReadKeepsBoard, OfferReadKeepsBooks, UntouchedKeepsSales
<1>3. ASSUME NEW s \in Sessions, OfferLock(s) PROVE MarketInv'
  <2>1. UNCHANGED tables
    BY <1>3 DEF OfferLock
  <2>2. Books'
    BY <1>3, LockingKeepsBooks
  <2> QED
    BY <1>1, <1>3, <2>1, <2>2, OfferLockKeepsBoard, UntouchedKeepsSales
<1>4. ASSUME NEW s \in Sessions, OfferCommit(s) PROVE MarketInv'
  BY <1>4, OfferCommitKeepsBoard, OfferCommitKeepsBooks, OfferCommitKeepsSales
<1>5. ASSUME NEW s \in Sessions, GrantRead(s) PROVE MarketInv'
  <2>1. UNCHANGED tables
    BY <1>5 DEF GrantRead
  <2> QED
    BY <1>1, <1>5, <2>1, GrantReadKeepsBoard, GrantReadKeepsBooks, UntouchedKeepsSales
<1>6. ASSUME NEW s \in Sessions, GrantWrite(s) PROVE MarketInv'
  <2>1. Board'
    BY <1>6, GrantWriteKeepsBoard
  <2>2. Books' /\ Sales'
    BY <1>6, GiftsKeepBooks, GiftsKeepSales
  <2> QED
    BY <2>1, <2>2
<1>7. ASSUME NEW s \in Sessions, Rollback(s) PROVE MarketInv'
  <2>1. UNCHANGED tables
    BY <1>7 DEF Rollback
  <2>2. Books'
    BY <1>7, EndingKeepsBooks
  <2> QED
    BY <1>1, <1>7, <2>1, <2>2, RollbackKeepsBoard, UntouchedKeepsSales
<1>8. ASSUME NEW o \in Offices, BuyCredits(o) PROVE MarketInv'
  <2>1. Board'
    BY <1>8, BuyCreditsKeepsBoard
  <2>2. Books' /\ Sales'
    BY <1>8, GiftsKeepBooks, GiftsKeepSales
  <2> QED
    BY <2>1, <2>2
<1> QED
  BY <1>2, <1>3, <1>4, <1>5, <1>6, <1>7, <1>8 DEF Credits

\* The sweep.
LEMMA ExpiryKeepsMarketInv ==
  ASSUME MarketAssumption, MarketInv, Expiry
  PROVE  MarketInv'
<1> USE DEF MarketInv
<1>1. BoardTypes /\ DOMAIN sweeper = Sweepers
  BY DEF Board, Books, PlansStand
<1>2. ASSUME Age PROVE MarketInv'
  <2>1. UNCHANGED tables
    BY <1>2 DEF Age
  <2> QED
    BY <1>1, <1>2, <2>1, AgeKeepsBoard, AgeKeepsBooks, UntouchedKeepsSales
<1>3. ASSUME NEW w \in Sweepers, NEW o \in Offices, SweepLock(w, o) PROVE MarketInv'
  <2>1. UNCHANGED tables
    BY <1>3 DEF SweepLock
  <2> QED
    BY <1>1, <1>3, <2>1, SweepLockKeepsBoard, SweepLockKeepsBooks, UntouchedKeepsSales
<1>4. ASSUME NEW w \in Sweepers, SweepCommit(w) PROVE MarketInv'
  BY <1>1, <1>4, SweepEndKeepsBoard, SweepCommitKeepsBooks, SweepCommitKeepsSales
<1>5. ASSUME NEW w \in Sweepers, SweepAbort(w) PROVE MarketInv'
  <2>1. UNCHANGED tables
    BY <1>5 DEF SweepAbort
  <2>2. Books'
    BY <1>5, BoardMovesKeepBooks
  <2> QED
    BY <1>1, <1>5, <2>1, <2>2, SweepEndKeepsBoard, UntouchedKeepsSales
<1> QED
  BY <1>2, <1>3, <1>4, <1>5 DEF Expiry

\* Nothing happens.
LEMMA StutteringKeepsMarketInv ==
  ASSUME MarketInv, UNCHANGED vars
  PROVE  MarketInv'
<1> USE DEF vars
<1>1. Board'
  <2>1. BoardTypes' /\ SharesFit' /\ SweepersFit'
    BY DEF MarketInv, Board, BoardTypes, SharesFit, SweepersFit
  <2>2. SessionsFit'
    BY DEF MarketInv, Board, SessionsFit, Fit, Sellable
  <2>3. OneClaim' /\ OneSpender'
    BY DEF MarketInv, Board, OneClaim, OneSpender
  <2> QED
    BY <2>1, <2>2, <2>3 DEF Board
<1>2. Books'
  BY DEF MarketInv, Books, LedgersReconciled, SpendingCovered, PlansStand, Balance
<1>3. Sales'
  <2>1. UNCHANGED tables /\ BoardTypes
    BY DEF tables, MarketInv, Board
  <2> QED
    BY <2>1, UntouchedKeepsSales DEF MarketInv
<1> QED
  BY <1>1, <1>2, <1>3 DEF MarketInv

\* The inductive invariant holds in every state of the market.
THEOREM MarketInvariant == Spec => []MarketInv
<1>1. Init => MarketInv
  BY MarketAssumption, InitGivesMarketInv
<1>2. MarketInv /\ [Next]_vars => MarketInv'
  BY MarketAssumption, ReferrerKeepsMarketInv, BuyKeepsMarketInv, CreditsKeepMarketInv,
     ExpiryKeepsMarketInv, StutteringKeepsMarketInv DEF Next
<1> QED
  BY <1>1, <1>2, PTL DEF Spec

\* No office ever owes credits: what a ledger adds up to is what the replay says
\* is left of it, and of no batch is less than nothing left.
THEOREM NobodyOwesCredits == Spec => []NoDebt
<1>1. MarketInv => NoDebt
  <2> SUFFICES ASSUME MarketInv, NEW o \in Offices PROVE Balance(o) >= 0
    BY DEF NoDebt
  <2>1. Reconciled(Refs, ledger[o])
    BY DEF MarketInv, Books, LedgersReconciled
  <2>2. Balance(o) \in Nat
    BY <2>1, ReconciledSums DEF Balance
  <2> QED
    BY <2>2
<1> QED
  BY <1>1, MarketInvariant, PTL

\* What the sweeps wrote off was left of a gift, and is written off once.
THEOREM LeftoversAloneExpire == Spec => []OnlyLeftoversExpire
<1>1. MarketInv => OnlyLeftoversExpire
  <2> SUFFICES ASSUME MarketInv, NEW o \in Offices
               PROVE  /\ Balance(o) = Total(Remaining(ledger[o]))
                      /\ \A b \in DOMAIN ledger[o] : ExpiryOf(ledger[o], b) # {} =>
                           /\ Lapses(ledger[o][b]) /\ Remaining(ledger[o])[b] = 0
                           /\ Cardinality(ExpiryOf(ledger[o], b)) = 1
    BY DEF OnlyLeftoversExpire
  <2> DEFINE L == ledger[o]
  <2>1. Reconciled(Refs, L)
    BY DEF MarketInv, Books, LedgersReconciled
  <2>2. Balance(o) = Total(Remaining(L))
    BY <2>1, ReconciledSums DEF Balance
  <2> HIDE DEF L
  <2>3. ASSUME NEW b \in DOMAIN L, ExpiryOf(L, b) # {}
        PROVE  Lapses(L[b]) /\ Remaining(L)[b] = 0 /\ Cardinality(ExpiryOf(L, b)) = 1
    <3>1. L \in Seq(Entries(Refs)) /\ DOMAIN L = 1..Len(L)
      BY <2>1, LenProperties DEF Reconciled
    <3>2. PICK i \in 1..Len(L) : L[i].kind = "expiry" /\ L[i].ref = b
      BY <2>3, <3>1 DEF ExpiryOf
    <3>3. WrittenOff(L, Remaining(L), i)
      BY <2>1, <3>2 DEF Reconciled
    <3>4. Lapses(L[b]) /\ Remaining(L)[b] = 0
      BY <3>2, <3>3 DEF WrittenOff
    <3>5. ExpiryOf(L, b) = {i}
      BY <2>1, <3>1, <3>2 DEF ExpiryOf, Reconciled
    <3>6. Cardinality(ExpiryOf(L, b)) = 1
      BY <3>5, FS_Singleton
    <3> QED
      BY <3>4, <3>6
  <2> QED
    BY <2>2, <2>3 DEF L
<1> QED
  BY <1>1, MarketInvariant, PTL

\* An offer that stands was charged once, to its owner, and no other.
THEOREM OffersChargedOnce == Spec => []OfferChargedOnce
<1>1. MarketInv => OfferChargedOnce
  BY DEF MarketInv, Sales
<1> QED
  BY <1>1, MarketInvariant, PTL

\* A referral is settled in one piece: one charge, one fee and one payout, or none
\* of them, and amounts that add up.
THEOREM SalesSettledOnce == Spec => []SaleSettledOnce
<1>1. MarketInv => SaleSettledOnce
  <2> SUFFICES ASSUME MarketInv, NEW x \in Shares
               PROVE  /\ Settlement(x)
                      /\ \A i \in FeesOf(x), o, r \in Offices :
                           \A c \in RowsOf(ledger[o], "lead_purchase", x), d \in RowsOf(ledger[r], "lead_sale", x) :
                             ledger[o][c].amount + ledger[r][d].amount = fees[i].bonus - fees[i].fee
    BY DEF SaleSettledOnce, Settlement
  <2>1. Settlement(x) /\ FeeRight(x) /\ LedgersPriced
    BY DEF MarketInv, Sales, SalesBooked
  <2>2. ASSUME NEW i \in FeesOf(x), NEW o \in Offices, NEW r \in Offices,
               NEW c \in RowsOf(ledger[o], "lead_purchase", x), NEW d \in RowsOf(ledger[r], "lead_sale", x)
        PROVE  ledger[o][c].amount + ledger[r][d].amount = fees[i].bonus - fees[i].fee
    <3>1. /\ c \in DOMAIN ledger[o] /\ ledger[o][c].kind = "lead_purchase"
          /\ d \in DOMAIN ledger[r] /\ ledger[r][d].kind = "lead_sale"
      BY DEF RowsOf
    <3>2. ledger[o] \in Seq(Entries(Refs))
      BY DEF MarketInv, Books, LedgersReconciled, Reconciled
    <3>3. ledger[o][c].amount + Price = 0 /\ ledger[r][d].amount = ReferrerPayout("credits")
      BY <2>1, <3>1 DEF LedgersPriced, Priced, PricedRow
    <3>4. ledger[o][c].amount \in Int
      <4>1. ledger[o][c] \in Entries(Refs)
        BY <3>1, <3>2, ElementOfSeq, LenProperties
      <4> QED
        BY <4>1 DEF Entries
    <3>5. share[x].mode = "credits"
      <4>1. SUFFICES ASSUME ~SoldFor(x, r, "credits") PROVE FALSE
        BY DEF SoldFor
      <4>2. Cardinality(RowsOf(ledger[r], "lead_sale", x)) = 0
        BY <2>1, <4>1 DEF Settlement, OnceIf
      <4>3. IsFiniteSet(RowsOf(ledger[r], "lead_sale", x))
        <5>1. ledger[r] \in Seq(Entries(Refs))
          BY DEF MarketInv, Books, LedgersReconciled, Reconciled
        <5>2. Len(ledger[r]) \in Nat /\ RowsOf(ledger[r], "lead_sale", x) \subseteq 1..Len(ledger[r])
          BY <5>1, LenProperties DEF RowsOf
        <5>3. IsFiniteSet(1..Len(ledger[r]))
          BY <5>2, FS_Interval
        <5> QED
          BY <5>2, <5>3, FS_Subset
      <4> QED
        BY <4>2, <4>3, FS_EmptySet
    <3>6. fees[i] = FeeRow(x, "credits")
      BY <2>1, <3>5 DEF FeeRight
    <3>7. fees[i].bonus = BonusCredits("credits") /\ fees[i].fee = PlatformFee("credits")
      BY <3>6 DEF FeeRow
    <3>8. /\ PlatformFee("credits") \in Int /\ ReferrerPayout("credits") \in Nat
          /\ BonusCredits("credits") \in Int
          /\ ReferrerPayout("credits") - Price = BonusCredits("credits") - PlatformFee("credits")
      BY MarketAssumption, SettlementAdds DEF Modes
    <3>9. Price \in Nat
      BY MarketAssumption DEF MarketAssumption
    <3> QED
      BY <3>3, <3>4, <3>7, <3>8, <3>9
  <2> QED
    BY <2>1, <2>2
<1> QED
  BY <1>1, MarketInvariant, PTL

-----------------------------------------------------------------------------
(***************************************************************************)
(* The desk.                                                               *)
(***************************************************************************)
DeskTypeOK ==
  /\ request \in [Withdrawals -> [status : Statuses, amount : Nat, paid : BOOLEAN]]
  /\ returned \in [Withdrawals -> Nat]
  /\ balance \in Int
  /\ asking \subseteq [by : Users, amount : Sums]
  /\ deciding \subseteq [by : Clerks, on : Withdrawals, seen : Statuses, to : Decisions]
  /\ sales \in Nat

OneAsks == \A a, x \in asking : a = x

Covered == \A a \in asking : a.amount <= balance

LegalDecisions == \A d \in deciding : d.to \in Allowed(d.seen)

DeskInv ==
  /\ DeskTypeOK
  /\ OneAsks
  /\ Covered
  /\ LegalDecisions
  /\ NeverOverdrawn
  /\ DecidedOnce

\* Nothing has been asked for yet.
LEMMA InitGivesDeskInv == DeskInit => DeskInv
BY DeskAssumption
DEF DeskInit, DeskInv, DeskTypeOK, OneAsks, Covered, LegalDecisions, NeverOverdrawn, DecidedOnce,
    NoRequest, Statuses, Decisions

\* What a decision may come from is neither paid nor rejected.
LEMMA DecidedAreFinal ==
  ASSUME NEW status \in Statuses, NEW to \in Allowed(status)
  PROVE  status \in {"pending", "approved"} /\ to \in Decisions
BY DEF Allowed, Statuses, Decisions

\* A sale only adds.
LEMMA SaleKeepsDeskInv == DeskInv /\ Sale => DeskInv'
<1> SUFFICES ASSUME DeskInv, Sale PROVE DeskInv'
  OBVIOUS
<1> USE DeskAssumption DEF DeskInv, Sale
<1>1. DeskTypeOK'
  BY DEF DeskTypeOK
<1>2. balance' \in Int /\ balance' >= balance
  BY DEF DeskTypeOK
<1>3. \A a \in asking : a.amount \in Nat
  BY DEF DeskTypeOK
<1>4. Covered' /\ NeverOverdrawn'
  BY <1>2, <1>3 DEF DeskTypeOK, Covered, NeverOverdrawn
<1> QED
  BY <1>1, <1>4 DEF OneAsks, LegalDecisions, DecidedOnce

\* The lock lets a request in alone, and the balance it reads covers it.
LEMMA AskKeepsDeskInv ==
  ASSUME DeskInv, NEW u \in Users, NEW amount \in Sums, Ask(u, amount)
  PROVE  DeskInv'
<1> USE DeskAssumption DEF DeskInv, Ask, LockFree
<1>1. DeskTypeOK'
  BY DEF DeskTypeOK
<1>2. OneAsks' /\ Covered'
  BY DEF OneAsks, Covered
<1> QED
  BY <1>1, <1>2 DEF LegalDecisions, NeverOverdrawn, DecidedOnce

\* A request takes what it has checked; nobody else was let in meanwhile.
LEMMA WithdrawKeepsDeskInv ==
  ASSUME DeskInv, NEW a \in asking, NEW w \in Withdrawals, Withdraw(a, w)
  PROVE  DeskInv'
<1> USE DeskAssumption DEF DeskInv, Withdraw
<1>1. a \in [by : Users, amount : Sums] /\ a.amount \in Nat
  BY DEF DeskTypeOK
<1>2. DeskTypeOK'
  BY <1>1 DEF DeskTypeOK, Statuses
<1>3. asking' = {}
  BY DEF OneAsks
<1>4. OneAsks' /\ Covered'
  BY <1>3 DEF OneAsks, Covered
<1>5. NeverOverdrawn'
  BY <1>1 DEF DeskTypeOK, Covered, NeverOverdrawn
<1>6. DecidedOnce'
  BY DEF DeskTypeOK, DecidedOnce
<1> QED
  BY <1>2, <1>4, <1>5, <1>6 DEF LegalDecisions

\* An administrator remembers a transition that was allowed.
LEMMA ReadKeepsDeskInv ==
  ASSUME DeskInv, NEW c \in Clerks, NEW w \in Withdrawals, NEW to \in Decisions, Read(c, w, to)
  PROVE  DeskInv'
<1> USE DEF DeskInv, Read
<1>1. DeskTypeOK'
  BY DEF DeskTypeOK
<1>2. LegalDecisions'
  BY DEF LegalDecisions
<1> QED
  BY <1>1, <1>2 DEF OneAsks, Covered, NeverOverdrawn, DecidedOnce

\* The row is what was read, so it is not decided yet: its money has not gone
\* back, and it goes back now or not at all.
LEMMA DecideKeepsDeskInv ==
  ASSUME DeskInv, NEW d \in deciding, Decide(d)
  PROVE  DeskInv'
<1> USE DEF DeskInv
<1>1. /\ d \in [by : Clerks, on : Withdrawals, seen : Statuses, to : Decisions]
      /\ d.to \in Allowed(d.seen)
  BY DEF DeskTypeOK, LegalDecisions
<1>2. LegalDecisions' /\ OneAsks' /\ deciding' \subseteq deciding
  BY DEF Decide, LegalDecisions, OneAsks
<1>3. CASE ~Unchanged(d)
  <2>1. UNCHANGED <<request, returned, balance, asking, sales>>
    BY <1>3 DEF Decide
  <2> QED
    BY <1>2, <2>1 DEF DeskTypeOK, Covered, NeverOverdrawn, DecidedOnce
<1>4. CASE Unchanged(d)
  <2>1. request[d.on].status \in {"pending", "approved"}
    BY <1>1, <1>4, DecidedAreFinal DEF Unchanged
  <2>2. /\ request' = [request EXCEPT ![d.on].status = d.to, ![d.on].paid = @ \/ d.to = "paid"]
        /\ returned' = IF d.to = "rejected" THEN [returned EXCEPT ![d.on] = @ + 1] ELSE returned
        /\ balance' = IF d.to = "rejected" THEN balance + request[d.on].amount ELSE balance
        /\ UNCHANGED <<asking, sales>>
    BY <1>4 DEF Decide
  <2>3. request[d.on].paid = FALSE /\ returned[d.on] = 0
    BY <1>1, <2>1 DEF DecidedOnce, DeskTypeOK
  <2>4. request[d.on] \in [status : Statuses, amount : Nat, paid : BOOLEAN]
    BY <1>1 DEF DeskTypeOK
  <2>5. /\ request'[d.on] \in [status : Statuses, amount : Nat, paid : BOOLEAN]
        /\ request'[d.on].status = d.to
        /\ request'[d.on].paid <=> d.to = "paid"
        /\ \A w \in Withdrawals : w # d.on => request'[w] = request[w]
    <3>1. d.to \in Statuses
      BY <1>1 DEF Statuses
    <3> QED
      BY <1>1, <2>2, <2>3, <2>4, <3>1 DEF DeskTypeOK
  <2>6. request' \in [Withdrawals -> [status : Statuses, amount : Nat, paid : BOOLEAN]]
    BY <1>1, <2>2, <2>5 DEF DeskTypeOK
  <2>7. returned' \in [Withdrawals -> Nat] /\ balance' \in Int /\ balance' >= balance
    BY <1>1, <2>2, <2>4 DEF DeskTypeOK
  <2>8. DeskTypeOK'
    BY <1>2, <2>2, <2>6, <2>7 DEF DeskTypeOK
  <2>9. Covered' /\ NeverOverdrawn'
    BY <1>1, <2>2, <2>7, DeskAssumption DEF DeskTypeOK, Covered, NeverOverdrawn
  <2>10. DecidedOnce'
    <3> SUFFICES ASSUME NEW w \in Withdrawals
                 PROVE  /\ returned'[w] = IF request'[w].status = "rejected" THEN 1 ELSE 0
                        /\ request'[w].paid <=> request'[w].status = "paid"
      BY DEF DecidedOnce
    <3>1. CASE w = d.on
      <4>1. request'[w].status = d.to /\ (request'[w].paid <=> d.to = "paid")
        BY <2>5, <3>1
      <4>2. returned'[w] = IF d.to = "rejected" THEN 1 ELSE 0
        BY <1>1, <2>2, <2>3, <3>1 DEF DeskTypeOK
      <4> QED
        BY <4>1, <4>2
    <3>2. CASE w # d.on
      <4>1. request'[w] = request[w] /\ returned'[w] = returned[w]
        BY <1>1, <2>2, <2>5, <3>2 DEF DeskTypeOK
      <4> QED
        BY <4>1 DEF DecidedOnce
    <3> QED
      BY <3>1, <3>2
  <2> QED
    BY <1>2, <2>8, <2>9, <2>10
<1> QED
  BY <1>3, <1>4

\* A transaction that is rolled back leaves less to do.
LEMMA RollBackKeepsDeskInv == DeskInv /\ RollBack => DeskInv'
<1> SUFFICES ASSUME DeskInv, RollBack PROVE DeskInv'
  OBVIOUS
<1>1. asking' \subseteq asking /\ deciding' \subseteq deciding
  BY DEF RollBack
<1>2. UNCHANGED <<request, returned, balance, sales>>
  BY DEF RollBack
<1> QED
  BY <1>1, <1>2
  DEF DeskInv, DeskTypeOK, OneAsks, Covered, LegalDecisions, NeverOverdrawn, DecidedOnce

\* The inductive invariant.
THEOREM DeskInvariant == DeskSpec => []DeskInv
<1>1. DeskInv /\ [DeskNext]_deskVars => DeskInv'
  <2> SUFFICES ASSUME DeskInv, [DeskNext]_deskVars PROVE DeskInv'
    OBVIOUS
  <2>1. CASE UNCHANGED deskVars
    BY <2>1
    DEF deskVars, DeskInv, DeskTypeOK, OneAsks, Covered, LegalDecisions, NeverOverdrawn, DecidedOnce
  <2>2. CASE Sale
    BY <2>2, SaleKeepsDeskInv
  <2>3. CASE DeskStep
    BY <2>3, AskKeepsDeskInv, WithdrawKeepsDeskInv, ReadKeepsDeskInv, DecideKeepsDeskInv,
       RollBackKeepsDeskInv
    DEF DeskStep
  <2> QED
    BY <2>1, <2>2, <2>3 DEF DeskNext
<1> QED
  BY <1>1, InitGivesDeskInv, PTL DEF DeskSpec

\* However many users ask at once, the office has what it withdraws (the lock
\* of request()).
THEOREM BalanceNeverOverdrawn == DeskSpec => []NeverOverdrawn
BY DeskInvariant, PTL DEF DeskInv

\* However many administrators decide at once, money goes back once and only
\* for a request that was rejected, and nothing is marked as paid after it was
\* decided (the conditional update of decide()).
THEOREM RequestsDecidedOnce == DeskSpec => []DecidedOnce
BY DeskInvariant, PTL DEF DeskInv
===============================================================================
