-------------------------- MODULE PaymentSettlement --------------------------
(***************************************************************************)
(* What the office is promised about each payment, whatever path confirms  *)
(* it: it is settled at most once and for good, and in that very step it   *)
(* gives the one thing that was bought.                                    *)
(***************************************************************************)
EXTENDS Naturals

CONSTANT Payments

VARIABLES
  settled,    \* payments the system counts as paid
  delivered   \* how many times each payment gave what it bought

TypeOK ==
  /\ settled \in SUBSET Payments
  /\ delivered \in [Payments -> Nat]

Init ==
  /\ settled = {}
  /\ delivered = [p \in Payments |-> 0]

Settle(p) ==
  /\ p \notin settled
  /\ settled' = settled \cup {p}
  /\ delivered' = [delivered EXCEPT ![p] = delivered[p] + 1]

Next == \E p \in Payments : Settle(p)

Spec == Init /\ [][Next]_<<settled, delivered>>
=============================================================================
