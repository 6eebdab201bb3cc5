---------------------------- MODULE MCMarketFeed ----------------------------
(* One token under every mishap; or two tokens on two shards, one level of    *)
(* which changes once: seeds and reseeds that overlap, a reconcile batch      *)
(* smaller than the subscription, the rotation and its cursor.                *)
EXTENDS MarketFeed, TLC

CONSTANTS t1, t2, s1, s2, l1, l2, f1, f2

VARIABLE part  \* which of the two this behaviour shows

MCShardOf == t1 :> s1 @@ t2 :> s2
MCTokenOrder == <<t1, t2>>

MCSymmetry == Permutations({l1, l2}) \cup Permutations({f1, f2})

One == INSTANCE MarketFeed WITH CursorWrap <- 1
Two == INSTANCE MarketFeed WITH StampSteps <- {1}, Lossy <- FALSE, Pushes <- FALSE

\* t2 is never subscribed, and the first change comes after the seeds' instant: the
\* second may share the first's.  Stopping and faults do not meet.
OneToken ==
  /\ One!Next
  /\ stopped' => faults' = 0
  /\ UNCHANGED venue[t2] /\ t2 \notin held'
  /\ venue'[t1] = 1 => stamp'[t1][1] > stamp'[t1][0]

\* Both are subscribed and stay so; the shard that loses its socket is the first.
TwoTokens ==
  /\ Two!Next
  /\ held' \in {{}, Token} /\ ~retried'[s2] /\ ~stopped'
  /\ \A t \in Token : venue'[t] <= 1
  /\ \E l \in Level : \A t \in Token : hist'[t][1][l] = 0

MCInit == Init /\ part \in {"one", "two"}
MCNext ==
  /\ UNCHANGED part
  /\ \/ part = "one" /\ OneToken
     \/ part = "two" /\ TwoTokens

MCSpec == MCInit /\ [][MCNext]_<<vars, part>>

=============================================================================
