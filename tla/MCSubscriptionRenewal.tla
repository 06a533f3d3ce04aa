----------------------- MODULE MCSubscriptionRenewal -----------------------
(* Two instances of SubscriptionRenewal in one run, told apart by world: two *)
(* replicas scan for several periods, and one of them, which charges and     *)
(* does not remind, races with a customer who opens a page, pays, cancels or *)
(* switches.                                                                 *)
EXTENDS SubscriptionRenewal, TLC

VARIABLE world

Apart(process, idle) ==
  \A i, j \in DOMAIN process : process[i] # idle /\ process[j] # idle => i = j

MCInit == RenewalInit /\ world \in {"replicas", "customer"}

MCNext ==
  /\ RenewalNext
  /\ \/ /\ world = "replicas"
        /\ checkout' = checkout
     \/ /\ world = "customer"
        /\ now' <= 1 /\ Apart(scanner', IdleScanner)
        /\ \A s \in Scanners : scanner'[s].pc # "remind"
        /\ \E p \in Payments : payment'[p].status = "absent"
  /\ UNCHANGED world

MCSpec == MCInit /\ [][MCNext]_<<allVars, world>>

\* Rows, requests, runs and replicas are interchangeable.
Interchangeable ==
  Permutations(Payments) \cup Permutations(Checkouts) \cup Permutations(Handlers)
    \cup Permutations(Scanners)
=============================================================================
