------------------------ MODULE MCViolationEpisodes ------------------------
(* One replica that checks two constraints, or two replicas that record the   *)
(* same one at once.                                                          *)
EXTENDS ViolationEpisodes

CONSTANTS w1, w2, k1, k2, k3

Two == INSTANCE ViolationEpisodes WITH
  Worker <- {w1, w2}, Key <- {k3}, MaxProfit <- 1, MaxFaults <- 1

MCInit == Init \/ Two!Init
MCNext ==
  \/ OneReplica /\ Next
  \/ ~OneReplica /\ Two!Next

MCSpec == MCInit /\ [][MCNext]_vars

=============================================================================
