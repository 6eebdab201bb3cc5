---------------------------- MODULE MCFeedToken -----------------------------
(* One token on one shard, for what needs MarketFeed's own specification.    *)
EXTENDS MarketFeed, TLC

CONSTANTS t1, s1, l1, l2, f1, f2

MCShardOf == t1 :> s1
MCTokenOrder == <<t1>>

MCSymmetry == Permutations({l1, l2}) \cup Permutations({f1, f2})

\* The levels and the slots are alike: the first change is of l1, and f2 is used while
\* f1 is (symmetry would not be sound for liveness); and nobody stops the feed, of which
\* nothing is claimed.
InOrder ==
  /\ hist'[t1][1][l2] = 0 /\ ~stopped'
  /\ fetch[f2] = Idle /\ fetch'[f2] # Idle => fetch[f1] # Idle

MCFairSpec == Init /\ [][Next /\ InOrder]_vars /\ Fairness

=============================================================================
