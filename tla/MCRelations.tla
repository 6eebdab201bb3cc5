----------------------------- MODULE MCRelations -----------------------------
(* Small values of the parts of Relations. *)
EXTENDS Relations, FiniteSetsExt, TLC

CONSTANTS p1, p2   \* proposers

MCSymmetry == Permutations({p1, p2})

-----------------------------------------------------------------------------
(* Every graph of four markets and at most five implications, in one order;    *)
(* every acyclic graph of five markets; every list of at most three            *)
(* implications between three markets, in every order, with repetitions.       *)

Arc(n) == {e \in (1..n) \X (1..n) : e[1] # e[2]}
Rank(e) == 6 * e[1] + e[2]
Listed(S) ==
  [i \in 1..Cardinality(S) |->
     CHOOSE e \in S : Cardinality({f \in S : Rank(f) < Rank(e)}) = i - 1]

MCGraphs ==
  {Listed(S) : S \in UNION {kSubset(k, Arc(4)) : k \in 0..5}}
    \cup {Listed(S) : S \in SUBSET {e \in Arc(5) : e[1] < e[2]}}
    \cup UNION {[1..k -> Arc(3)] : k \in 0..3}

(* What extractions find: implications, or a complement and an exclusive group. *)

MCDerivable == {[edges |-> {<<2, 1, "implies">>, <<3, 2, "implies">>}, groups |-> <<>>],
                [edges |-> {<<3, 1, "complement">>}, groups |-> [g \in {1} |-> {1, 2}]]}

(* Catalogs of three markets of one family, in any order of the rows.          *)

Question(form, threshold, prep, end) ==
  [subject |-> "s", negations |-> <<"plain", "absent">>, form |-> form,
   threshold |-> threshold, unit |-> "usd", prep |-> prep, phrase |-> 0,
   criteria |-> "none", end |-> end, event |-> 1, binary |-> TRUE]

\* Thresholds at one date: levels, touches, criteria that orient them or do not.
Ladders ==
  {Question(f, t, "on", 2) : f \in {"above", "below"}, t \in 1..3}
    \cup {Question("climb", t, "on", 2) : t \in 1..2} \cup {Question("between", 1, "on", 2)}
    \cup {[Question("hit", t, "on", 2) EXCEPT !.criteria = c] :
            t \in 1..2, c \in {"above", "below", "both"}}
    \cup {[Question("above", t, "on", 2) EXCEPT !.negations[1] = "not"] : t \in 1..2}
    \cup {[Question("above", 1, "none", 0) EXCEPT !.phrase = 1, !.prep = "on"],
          [Question("above", 2, "none", 0) EXCEPT !.subject = "", !.event = 0],
          [Question("above", 1, "by", 2) EXCEPT !.subject = ""]}

\* Deadlines and instants, of one event or of none, known or not.
Deadlines ==
  {Question("none", 0, p, e) : p \in {"by", "on", "on by"}, e \in 0..2}
    \cup {[Question("climb", t, "by", e) EXCEPT !.event = v, !.binary = (v = 1)] :
            t \in 1..2, e \in 1..2, v \in 0..1}
    \cup {[Question("hit", 1, "by", e) EXCEPT !.criteria = c] :
            e \in 1..2, c \in {"above", "below", "none"}}
    \cup {[Question("none", 0, "by", e) EXCEPT !.negations[1] = "not"] : e \in 1..2}

\* Questions of a clause or two, and their negations.
Negated ==
  {[Question("none", 0, "none", 0) EXCEPT !.negations = <<a, b>>] :
     a \in {"plain", "will not", "not"}, b \in {"plain", "will not", "not"}}
    \cup {[Question("none", 0, "none", 0) EXCEPT !.negations[1] = a, !.event = v] :
            a \in {"plain", "will not", "never"}, v \in 0..1}

-----------------------------------------------------------------------------
(* Constraints and books: a pair and every book of two levels, partitions with   *)
(* and without a closed member, three constraints at once with a feed that moves *)

Level(p, s) == [price |-> p, size |-> s]
UpTo2(levels) == {<<>>} \cup {<<a>> : a \in levels} \cup {<<a, b>> : a, b \in levels}
Sides(levels, mins) ==
  [problem : {"none"}, asks : UpTo2(levels), min : mins]
    \cup [problem : {"missing-token", "missing-book"}, asks : {<<>>}, min : {0}]

PairOf(kind) == [key |-> kind, kind |-> kind, members |-> <<1, 2>>]
Partition    == [key |-> "group", kind |-> "partition", members |-> <<1, 2, 3>>]
AllOf(x)     == <<x, x, x>>

Pairs ==
  [stored : {<<PairOf(k)>> : k \in {"implies", "complement"}}, condition : {AllOf("open")},
   cached : {<<4, 3, 0>>, <<1, 2, 0>>}, mids : {<<>>}, quotes : {{}},
   sides : {Sides({Level(1, 5), Level(2, 2), Level(2, 5), Level(4, 4), Level(3, 0), Level(6, 5)},
                  {0, 3})}]
Partitions ==
  [stored : {<<Partition>>}, condition : {<<"open", "open", c>> : c \in {"open", "closed"}},
   cached : {AllOf(1), AllOf(3)}, mids : {<<>>}, quotes : {{}},
   sides : {Sides({Level(1, 2), Level(3, 5), Level(1, 5)}, {0})}]
Several ==
  [stored : {<<PairOf("implies"), PairOf("complement"), Partition>>}, condition : {AllOf("open")},
   cached : {AllOf(-1), AllOf(2)}, mids : {<<>>} \cup [1..3 -> {-1, 2, 4}], quotes : {{-1, 2, 4}},
   sides : {{[problem |-> "none", asks |-> <<Level(1, 4)>>, min |-> 0]}}]

MCFamilies == {Ladders, Deadlines, Negated}
MCChecks   == Pairs \cup Partitions \cup Several

\* Markets of one event, and of two groups, of which one can be picked.
MCEventOf      == <<1, 1, 1>>
MCGroupMembers == [g |-> {1, 2, 3}, h |-> {1, 2}]

=============================================================================
