--------------------------- MODULE MCNumberRental ---------------------------
(* Four instances of NumberRental in one run, told apart by scene: one       *)
(* replica and two requests; two replicas that renew while the customer and  *)
(* the administrator act; two offices that want one number; two pages of one *)
(* rental.                                                                   *)
EXTENDS NumberRental

VARIABLE scene

One(S) == {CHOOSE x \in S : TRUE}

Scenes ==
  {[jobs |-> One(Scanners) \cup Requests, rentals |-> One(Rentals), pages |-> One(Payments)],
   [jobs |-> Scanners \cup One(Requests), rentals |-> One(Rentals), pages |-> {}],
   [jobs |-> Requests, rentals |-> Rentals, pages |-> One(Payments)],
   [jobs |-> Requests, rentals |-> One(Rentals), pages |-> Payments]}

InScene ==
  /\ \A r \in Rentals \ scene.rentals : rental[r].status = "absent"
  /\ scene.rentals = Rentals \/ \A r \in Rentals : rental[r].office \in One(Offices) \cup {None}
  /\ \A p \in Payments \ scene.pages : payment[p].status = "absent"
  /\ \A j \in Jobs \ scene.jobs : job[j] = Idle
  /\ scene.jobs = Requests => now = 0 /\ faults = 0

MCInit == RentalInit /\ scene \in Scenes /\ InScene

MCNext == RentalNext /\ UNCHANGED scene /\ InScene'

\* Without a replica, time stands still.
MCFairness ==
  /\ WF_rentalVars(scene.jobs # Requests /\ Pass)
  /\ \A c \in Scanners : WF_rentalVars(c \in scene.jobs /\ Tick(c))

MCSpec == MCInit /\ [][MCNext]_<<rentalVars, scene>> /\ MCFairness

\* Where no replica looks, nothing is released; where one does, there is one
\* rental.
CancelledIsReleasedInTime ==
  \A r \in One(Rentals) : scene.jobs # Requests => EndsInTime(r)
=============================================================================
