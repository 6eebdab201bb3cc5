-------------------------- MODULE MCCoherenceCheck --------------------------
(* A partition of three whose last member may have closed, at prices that sum  *)
(* to less than one.                                                           *)
EXTENDS CoherenceCheck

Level(p, s) == [price |-> p, size |-> s]

MCInputs ==
  {[stored |-> <<[key |-> "group", kind |-> "partition", members |-> <<1, 2, 3>>]>>,
    condition |-> <<"open", "open", c>>, cached |-> <<1, 1, 1>>, mids |-> <<>>,
    quotes |-> {1}, sides |-> {[problem |-> "none", asks |-> <<Level(1, 5)>>, min |-> 0]}] :
     c \in {"open", "closed"}}

=============================================================================
