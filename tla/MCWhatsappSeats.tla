--------------------------- MODULE MCWhatsappSeats ---------------------------
(* Two instances of WhatsappSeats in one run: two replicas and the customer  *)
(* of an office without agents; one replica, an agent and the platform.      *)
EXTENDS WhatsappSeats

VARIABLE world

Worlds == {w \in [replicas : SUBSET Scanners, agents : SUBSET Agents, extra : {0, MaxGranted}] :
             \/ w.replicas = Scanners /\ w.agents = {} /\ w.extra = 0
             \/ w.replicas = {CHOOSE c \in Scanners : TRUE} /\ w.agents = Agents /\ w.extra = MaxGranted}

MCInit == SeatsInit /\ world \in Worlds /\ granted <= world.extra

MCNext ==
  /\ SeatsNext
  /\ \A c \in Scanners : c \in world.replicas \/ scanner'[c] = IdleScanner
  /\ giving' \in world.agents \cup {None}
  /\ world.agents = {} => Owner \in holders'
  /\ lowering' # None => lowering' <= world.extra
  /\ UNCHANGED world

MCFairness ==
  /\ WF_seatVars(Pass)
  /\ \A c \in Scanners : WF_seatVars(c \in world.replicas /\ Tick(c))

MCSpec == MCInit /\ [][MCNext]_<<seatVars, world>> /\ MCFairness
=============================================================================
