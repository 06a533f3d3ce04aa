----------------------- MODULE MCSubscriptionCheckout -----------------------
(* Two instances of SubscriptionCheckout in one run, told apart by world: a  *)
(* race of confirmations while the customer makes one request at a time, and *)
(* a race of requests for plans, with every kind of coupon and time passing. *)
EXTENDS SubscriptionCheckout, TLC

VARIABLE world

Apart(process, idle) ==
  \A i, j \in DOMAIN process : process[i] # idle /\ process[j] # idle => i = j

MCInit ==
  /\ Init
  /\ \/ world = "confirmations" /\ coupon = "part"
     \/ world = "requests"

MCNext ==
  /\ Next
  /\ \/ /\ world = "confirmations"
        /\ now' = 0 /\ Apart(checkout', IdleRequest)
     \/ /\ world = "requests"
        /\ redemptions' = 0 /\ Apart(handler', IdleHandler)
        /\ \A c \in Checkouts : checkout'[c].kind = "plan"
        /\ \A p \in Payments : page'[p] # "declined"
  /\ UNCHANGED world

MCSpec == MCInit /\ [][MCNext]_<<vars, world>>

\* Rows, requests and runs are interchangeable.
Interchangeable ==
  Permutations(Payments) \cup Permutations(Checkouts) \cup Permutations(Handlers)
=============================================================================
