------------------------- MODULE RelationExtraction -------------------------
(***************************************************************************)
(* The deterministic extractors of src/relations: threshold ladders,         *)
(* nested deadlines, complements and partitions, the check of the inferred    *)
(* relations against the partitions, and the edges that are left.            *)
(*                                                                           *)
(* A market is the parts its question has for the extractors' patterns:      *)
(*   subject, negations   what it is about, and how each clause is negated,   *)
(*                        a clause it does not have being "absent"            *)
(*   form, threshold, unit  "above $2", "hit $2", "between ...", or no number *)
(*   prep, phrase         the temporal clause: "by", "on", both, or none      *)
(* with what the catalog says of it: criteria (the direction its description  *)
(* names), end (its end date, 0 if unknown), event (0 if none), and binary    *)
(* (are its outcomes Yes and No?).                                           *)
(***************************************************************************)
EXTENDS Integers, Sequences, FiniteSets

CONSTANTS
  Families,     \* sets of markets, from one of which the catalog comes
  Rows,         \* how many of them it has; a market is known by its row
  Exclusive,    \* events the venue flags negRisk
  Clause,       \* clauses of a question
  Time,         \* instants at which things are measured, 1 the first
  Value         \* what may be measured

VARIABLES
  catalog,      \* the markets read, in the order of the rows and of their ids
  pc,
  edges,        \* the edges of the extractors: from, to, type
  groups,       \* the partitions: members by event
  conflicts,    \* the edges a partition contradicts
  built         \* the edges the graph is built from

vars == <<catalog, pc, edges, groups, conflicts, built>>

Init ==
  /\ \E family \in Families : catalog \in [1..Rows -> family]
  /\ pc = "read"
  /\ edges = {} /\ groups = <<>> /\ conflicts = {} /\ built = {}

Position == DOMAIN catalog
At(i)  == catalog[i]

-----------------------------------------------------------------------------
(* ladders.ts *)

\* PREFIX_COMPARATORS and SUFFIX_COMPARATORS: bands, races and parlays, and
\* questions without a number, are not thresholds.
Comparators ==
  [above    |-> "gt", atleast |-> "gt", climb |-> "gt",
   below    |-> "lt", orlower |-> "lt", dip   |-> "lt", hit |-> "ambiguous"]

\* directionFromCriteria: criteria that say both or neither decide nothing.
FromCriteria(m) == CASE m.criteria = "below" -> "lt"
                     [] m.criteria = "above" -> "gt"
                     [] OTHER                -> "refused"

\* Variant: "hit" is read as a rise.
DirectionAssumed(m) ==
  IF m.form \notin DOMAIN Comparators THEN "refused"
  ELSE IF Comparators[m.form] = "ambiguous" THEN "gt"
  ELSE Comparators[m.form]

\* parseThresholdQuestion, as far as its verdict goes.
Direction(m) ==
  IF m.form \notin DOMAIN Comparators THEN "refused"
  ELSE IF Comparators[m.form] = "ambiguous" THEN FromCriteria(m)
  ELSE Comparators[m.form]

Dated(m) == m.prep # "none" \/ m.end # 0

\* groupLadders
IsRung(m) == Direction(m) # "refused" /\ Dated(m) /\ (m.subject # "" \/ m.event # 0)

\* Variant: subject and date are enough.
LadderKeyUndirected(m) == <<m.event, m.subject, m.negations, m.unit, m.prep, m.phrase, m.end>>

LadderKey(m) ==
  <<m.event, m.subject, m.negations, Direction(m), m.unit, m.prep, m.phrase, m.end>>

Ladder(i) == {k \in Position : IsRung(At(k)) /\ LadderKey(At(k)) = LadderKey(At(i))}

\* The stable sort by threshold, and by deadline.
Thresholds == [i \in Position |-> At(i).threshold]
Ends       == [i \in Position |-> At(i).end]
Before(by, i, k) == by[i] < by[k] \/ (by[i] = by[k] /\ i < k)

Adjacent(rungs, by) ==
  {p \in rungs \X rungs :
     /\ Before(by, p[1], p[2])
     /\ ~\E k \in rungs : Before(by, p[1], k) /\ Before(by, k, p[2])}

LadderPairs(rungs, pairs) ==
  {IF Direction(At(p[1])) = "gt" THEN <<p[2], p[1]>> ELSE p :
     p \in {p \in pairs : At(p[1]).threshold # At(p[2]).threshold}}

\* ladderEdges, of every ladder of two rungs or more; an edge leads from the
\* stronger claim to the weaker one.
LadderEdges ==
  UNION {{<<p[1], p[2], "implies">> :
            p \in LadderPairs(Ladder(i), Adjacent(Ladder(i), Thresholds))} :
           i \in {i \in Position : IsRung(At(i))}}

-----------------------------------------------------------------------------
(* temporal.ts *)

\* parseDeadlineQuestion refuses an instant before the deadline; without an end
\* date there is nothing to order by.
IsDeadline(m) == m.prep = "by" /\ m.end # 0

\* groupTemporalChains: what is left of the question, threshold and all, and no
\* event.
ChainKey(m) == <<m.subject, m.negations, m.form, m.threshold, m.unit>>

Chain(i) == {k \in Position : IsDeadline(At(k)) /\ ChainKey(At(k)) = ChainKey(At(i))}

\* temporalEdges
TemporalPairs(pairs) == {p \in pairs : At(p[1]).end # At(p[2]).end}

TemporalEdges ==
  UNION {{<<p[1], p[2], "implies">> :
            p \in TemporalPairs(Adjacent(Chain(i), Ends))} :
           i \in {i \in Position : IsDeadline(At(i))}}

-----------------------------------------------------------------------------
(* complements.ts *)

Patterns == {{"will not"}, {"will not", "not"}, {"never"}}

\* positiveForms: a pattern deletes the negations it matches, all of them at once.
PositiveForms(m) ==
  {[c \in Clause |-> IF m.negations[c] \in pattern THEN "plain" ELSE m.negations[c]] :
     pattern \in Patterns} \ {m.negations}

\* The question, normalised.
Text(m) == <<m.subject, m.form, m.threshold, m.unit, m.prep, m.phrase>>

\* Of the markets of the event with the positive question there must be one.
Counterparts(m, form) ==
  {k \in Position : /\ At(k).event = m.event /\ Text(At(k)) = Text(m)
                  /\ At(k).negations = form}

Claims ==
  {claim \in UNION {{i} \X PositiveForms(At(i)) : i \in Position} :
     /\ At(claim[1]).event # 0
     /\ Cardinality(Counterparts(At(claim[1]), claim[2])) = 1}

Pairing(claim) ==
  LET a == claim[1]
      b == CHOOSE k \in Counterparts(At(a), claim[2]) : TRUE
  IN IF a <= b THEN <<a, b, "complement">> ELSE <<b, a, "complement">>

\* extractComplements: a pair claimed more than once is dropped.
ComplementEdges ==
  {e \in {Pairing(claim) : claim \in Claims} :
     Cardinality({claim \in Claims : Pairing(claim) = e}) = 1}

-----------------------------------------------------------------------------
(* partitions.ts, extract.ts *)

Members(event) == {i \in Position : At(i).event = event /\ At(i).binary}

\* extractPartitions: a group of two or more for each flagged event.
Partitions == [e \in {e \in Exclusive : Cardinality(Members(e)) > 1} |-> Members(e)]

\* findPartitionConflicts
Contradicts(e, members) ==
  /\ e[1] \in members /\ e[2] \in members
  /\ e[3] = "implies" \/ Cardinality(members) # 2

\* extractAllRelations, which extract-cli.ts saves.
ExtractAll ==
  /\ pc = "read" /\ pc' = "extracted"
  /\ edges' = LadderEdges \cup TemporalEdges \cup ComplementEdges
  /\ groups' = Partitions
  /\ conflicts' = {e \in edges' : \E g \in DOMAIN groups' : Contradicts(e, groups'[g])}
  /\ UNCHANGED <<catalog, built>>

\* buildRelationGraph drops the edges between the ends of a conflict.
Build ==
  /\ pc = "extracted" /\ pc' = "built"
  /\ built' = {e \in edges : ~\E c \in conflicts : c[1] = e[1] /\ c[2] = e[2]}
  /\ UNCHANGED <<catalog, edges, groups, conflicts>>

Next == ExtractAll \/ Build

Spec == Init /\ [][Next]_vars

-----------------------------------------------------------------------------
(* Properties *)

\* What a question asks.  In a world the subject has a value at each instant and
\* does something at some instants, and each clause is true or not.  "Above" and
\* "below" ask for the value at the date, the verbs of motion for the highest or
\* the lowest value until then, in the direction the venue's criteria state; a
\* clause with a negation asks for the opposite.
Touch == {"climb", "dip", "hit"}
Quiet == [value |-> [t \in Time |-> 0], happens |-> {}, truth |-> [c \in Clause |-> FALSE]]
World == {[Quiet EXCEPT !.value = v] : v \in [Time -> Value]}
           \cup {[Quiet EXCEPT !.happens = h] : h \in SUBSET Time}
           \cup {[Quiet EXCEPT !.truth = t] : t \in [Clause -> BOOLEAN]}

When(m) == IF m.end # 0 THEN m.end ELSE m.phrase

Asks(m) == IF m.form = "hit" THEN FromCriteria(m)
           ELSE IF m.form \in DOMAIN Comparators THEN Comparators[m.form] ELSE "event"

Beyond(m, v) ==
  CASE m.form = "above" -> v > m.threshold
    [] m.form = "below" -> v < m.threshold
    [] Asks(m) = "gt"   -> v >= m.threshold
    [] Asks(m) = "lt"   -> v <= m.threshold
    [] OTHER            -> v = m.threshold

Times(m) == Time \cap (IF m.form \in Touch \/ m.prep = "by" THEN 1..When(m) ELSE {When(m)})

IsTrue(m, c, w) ==
  IF Asks(m) # "event"     THEN \E t \in Times(m) : Beyond(m, w.value[t])
  ELSE IF m.prep = "none"  THEN w.truth[c]
                           ELSE \E t \in Times(m) : t \in w.happens

Holds(m, w) ==
  \A c \in Clause : m.negations[c] # "absent" => (m.negations[c] = "plain") = IsTrue(m, c, w)

EdgeHolds(e) ==
  \A w \in World :
    IF e[3] = "implies" THEN Holds(At(e[1]), w) => Holds(At(e[2]), w)
                        ELSE Holds(At(e[1]), w) # Holds(At(e[2]), w)

\* ladders.ts, temporal.ts, complements.ts: the edges "carry confidence 1.0 --
\* they are entailments, not guesses".
EdgesHold == pc = "extracted" => \A e \in edges : EdgeHolds(e)

\* The edges are entailments, except where a ladder mixes questions about a date
\* with questions about the time until then; where a ladder or a chain is of
\* questions with a negation, which makes the stronger claim the weaker one; where
\* a chain mixes directions that the criteria give one question; and where a
\* question and its negation have several clauses, dates or directions.
Affirmed(m)  == \A c \in Clause : m.negations[c] \in {"plain", "absent"}
OneClause(m) == \E c \in Clause : \A d \in Clause : m.negations[d] # "absent" <=> d = c

PlainEdgesHold ==
  pc = "extracted" =>
    \A e \in edges :
      LET a == At(e[1])
          b == At(e[2])
      IN /\ (a.form \in Touch) = (b.form \in Touch) /\ Asks(a) = Asks(b)
         /\ IF e[3] = "implies" THEN Affirmed(a) ELSE OneClause(a) /\ When(a) = When(b)
         => EdgeHolds(e)

\* The stored implications lead from one market to another: no set that they do not
\* leave has the first and not the second.
Leads(i, k) ==
  \A S \in SUBSET Position :
    i \in S /\ (\A e \in edges : e[3] = "implies" /\ e[1] \in S => e[2] \in S) => k \in S

\* Adjacent edges are enough: what any two rungs of a ladder or a chain say of each
\* other follows from them, unless two rungs have one threshold or one deadline.
AdjacentIsEnough ==
  pc = "extracted" =>
    \A i, k \in Position :
      LET rungs == Ladder(i)
          chain == Chain(i)
      IN /\ /\ IsRung(At(i)) /\ k \in rungs /\ At(i).threshold < At(k).threshold
            /\ \A x, y \in rungs : x # y => At(x).threshold # At(y).threshold
            => (IF Direction(At(i)) = "gt" THEN Leads(k, i) ELSE Leads(i, k))
         /\ /\ IsDeadline(At(i)) /\ k \in chain /\ At(i).end < At(k).end
            /\ \A x, y \in chain : x # y => At(x).end # At(y).end
            => Leads(i, k)

=============================================================================
