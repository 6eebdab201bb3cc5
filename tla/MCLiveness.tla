----------------------------- MODULE MCLiveness -----------------------------
(* Small values of the parts of Liveness: one replica that fails once, one    *)
(* episode, two clients, two workers, and the constraints below.               *)
EXTENDS Liveness

CONSTANTS r1, e1   \* a replica, an episode

\* Two constraints between two markets, one the other way round.
MCMembers == [a |-> <<1, 2>>, b |-> <<2, 1>>]

=============================================================================
