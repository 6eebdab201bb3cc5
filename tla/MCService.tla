----------------------------- MODULE MCService -----------------------------
(* Small values of the parts of the service. *)
EXTENDS Service, TLC

CONSTANTS r1, r2,       \* replicas
          v1, v2        \* what a market's question may say

MCSymmetry == Permutations({r1, r2}) \cup Permutations({v1, v2})

\* Two calls of one client of the CLOB, in batches; a call of Gamma's, one of Discord's.
MCClob ==
  [client |-> {"b"}, venueOf |-> [b |-> "clob"], call |-> {"b1", "b2"},
   through |-> [b1 |-> "b", b2 |-> "b"], asks |-> [b1 |-> <<"t", "u", "t", "w">>, b2 |-> <<"u">>]]
MCRest ==
  [client |-> {"g", "d"}, venueOf |-> [g |-> "gamma", d |-> "discord"], call |-> {"g1", "d1"},
   through |-> [g1 |-> "g", d1 |-> "d"], asks |-> [g1 |-> <<"t", "u">>, d1 |-> <<"m">>]]

MCHeaders == {-1, 3}

MCBound == [digest |-> 2, system |-> 4, work |-> 2, catalog |-> 3, edits |-> 1, crashes |-> 2,
            books |-> 3, others |-> 3]

\* Bounds the alerts' part: an edge only grows.
Growing == part = "alerts" => \A e \in Episode : edge'[e] >= edge[e]

MCSpec == ServiceInit /\ [][ServiceNext /\ Growing]_serviceVars

=============================================================================
