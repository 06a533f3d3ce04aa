----------------------------- MODULE MCLeadMarket -----------------------------
(* Small instances of LeadMarket, composed with PayoutDesk: office a refers  *)
(* and withdraws, office b buys.  Two instances in one run, told apart by    *)
(* world: the whole market while the desk is closed, and the desk while one  *)
(* user of each office trades.                                               *)
EXTENDS LeadMarket, PayoutDesk, TLC

CONSTANTS a, b, l1, l2, p1, sa, sb1, sb2

VARIABLE world

MCOwner == [x \in Leads \cup Offers |-> IF x \in Leads THEN a ELSE b]
MCSeat  == [s \in Sessions |-> IF s = sa THEN a ELSE b]

MCFee   == [mode \in {"credits", "cash"} |-> IF mode = "credits" THEN 50 ELSE 75]

marketVars == <<vars, deskVars, world>>

MCInit == Init /\ DeskInit /\ world \in {"market", "desk"}

\* A sale for money is a row of payout_ledger in the same transaction.
Traded == Next /\ IF payouts' = payouts THEN UNCHANGED deskVars ELSE Sale

MCNext ==
  /\ \/ Traded
     \/ DeskStep /\ UNCHANGED vars
  /\ \/ /\ world = "market"
        /\ asking' = {} /\ deciding' = {}
        /\ lead'[l2] = "open" /\ \A s \in Sessions : session'[s].on # l2
     \/ /\ world = "desk"
        /\ lead' = lead /\ offered' = offered /\ sweeper' = sweeper /\ aged' = aged
        /\ \A s, t \in Sessions : session'[s] # Idle /\ session'[t] # Idle => s = t
  /\ UNCHANGED world

MCSpec == MCInit /\ [][MCNext]_marketVars

UsersAndReplicas ==
  Permutations(Sessions \ {sa}) \cup Permutations(Sweepers) \cup Permutations(Withdrawals)
    \cup Permutations(Users) \cup Permutations(Clerks)
===============================================================================
