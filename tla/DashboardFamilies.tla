--------------------------- MODULE DashboardFamilies ---------------------------
(***************************************************************************)
(* What the dashboard shows of a market family, a partition or the ladder of   *)
(* an event (src/dashboard/queries.ts), and how the page lays a ladder out      *)
(* (src/dashboard/js.ts).  They are functions of the database, which changes    *)
(* under them: markets close, are quoted, relations come and go.  A price is    *)
(* one of 0..Scale.                                                            *)
(***************************************************************************)
EXTENDS Integers, FiniteSets, SequencesExt

CONSTANTS
  Market, EventOf,
  Group, GroupMembers,   \* partitions: group |-> its members
  FamilyLimit,           \* families of a kind that can be picked
  Prices, Scale,
  Epsilon                \* of the page and of the script

VARIABLES
  open,        \* markets that are neither missing nor closed
  price,       \* market_quotes, Null for none
  relations    \* <<from, to>>: an entailment

vars == <<open, price, relations>>

Null == -1

Init == open \in SUBSET Market /\ price = [m \in Market |-> Null] /\ relations = {}

Turn(m) ==
  /\ open' = IF m \in open THEN open \ {m} ELSE open \cup {m}
  /\ UNCHANGED <<price, relations>>

Quote(m) == \E p \in Prices : price' = [price EXCEPT ![m] = p] /\ UNCHANGED <<open, relations>>

\* Extraction keeps no cycle, but the table may hold one.
Relate(m, n) ==
  /\ m # n
  /\ relations' = IF <<m, n>> \in relations THEN relations \ {<<m, n>>} ELSE relations \cup {<<m, n>>}
  /\ UNCHANGED <<open, price>>

Next == \E m \in Market : Turn(m) \/ Quote(m) \/ \E n \in Market : Relate(m, n)

Spec == Init /\ [][Next]_vars

-----------------------------------------------------------------------------
(* queries.ts *)

Event     == {EventOf[m] : m \in Market}
Priced(M) == {m \in M : price[m] # Null}
Touched   == {r[1] : r \in relations} \cup {r[2] : r \in relations}

OpenOf(g)  == GroupMembers[g] \cap open
LadderOf(e) == {m \in open \cap Touched : EventOf[m] = e}

\* Of the families with two members or more the largest, as many as the limit allows;
\* which of equal ones is up to the database.
Listings(members) ==
  LET drawable == {f \in DOMAIN members : Cardinality(members[f]) > 1}
  IN {listed \in SUBSET drawable :
        /\ Cardinality(listed) = Min({Cardinality(drawable), FamilyLimit})
        /\ \A f \in drawable \ listed, larger \in listed :
             Cardinality(members[f]) <= Cardinality(members[larger])}

\* readFamilies: what can be picked.
ReadFamilies ==
  [partitions : Listings([g \in Group |-> OpenOf(g)]),
   ladders    : Listings([e \in Event |-> LadderOf(e)])]

Family(members, edges, magnitude, violated) ==
  [members |-> members, edges |-> edges, magnitude |-> magnitude, violated |-> violated]

\* Variant: what is priced is enough.
CompleteIfAny(M) == Priced(M) # {}

\* A sum of some members says nothing.
Complete(M) == Priced(M) = M /\ Cardinality(M) > 1

Abs(n) == IF n < 0 THEN -n ELSE n

Unmeasured == -2 * Scale

ReadPartitionFamily(g) ==
  LET sum       == FoldSet(LAMBDA m, total : total + price[m], 0, Priced(OpenOf(g)))
      magnitude == IF Complete(OpenOf(g)) THEN sum - Scale ELSE Unmeasured
  IN Family(OpenOf(g), {}, magnitude, magnitude # Unmeasured /\ Abs(magnitude) > Epsilon)

\* Edges within the event, closed members or not; a slack where both members are
\* open and priced.
ReadLadderFamily(e) ==
  LET edges  == {r \in relations : EventOf[r[1]] = e /\ EventOf[r[2]] = e}
      priced == Priced(LadderOf(e))
      slacks == {price[r[1]] - price[r[2]] : r \in edges \cap (priced \X priced)}
      worst  == IF slacks = {} THEN Unmeasured ELSE Max(slacks)
  IN Family(LadderOf(e), edges, worst, worst # Unmeasured /\ worst > Epsilon)

-----------------------------------------------------------------------------
(* js.ts *)

Drawn(family) == family.edges \cap (family.members \X family.members)

\* Variant: an edge counts if what it leads to is drawn.
IndegreeFromAnywhere(family) ==
  [m \in family.members |-> Cardinality({r \in family.edges : r[2] = m})]

Indegree(family) == [m \in family.members |-> Cardinality({r \in Drawn(family) : r[2] = m})]

\* The members in some order, of markets with no price at 0 the dearest first.
AtLeast0(m) == IF price[m] = Null THEN 0 ELSE price[m]
ByPrice(family) ==
  SetToSortSeq(family.members,
    LAMBDA m, n : \/ AtLeast0(m) > AtLeast0(n)
                  \/ AtLeast0(m) = AtLeast0(n) /\ m < n)

\* topological, by Kahn's algorithm: the queue, what every member still waits for,
\* and the order so far.
Topological(family) ==
  LET next(m) == SetToSortSeq({r[2] : r \in {d \in Drawn(family) : d[1] = m}}, <)
      kahn[queue \in Seq(Market), waits \in [family.members -> Int], out \in Seq(Market)] ==
        IF queue = <<>> THEN out
        ELSE LET led  == next(Head(queue))
                 left == [m \in family.members |-> IF m \in Range(led) THEN waits[m] - 1 ELSE waits[m]]
             IN kahn[Tail(queue) \o SelectSeq(led, LAMBDA m : left[m] = 0), left,
                     Append(out, Head(queue))]
      free == SetToSortSeq({m \in family.members : Indegree(family)[m] = 0}, <)
      out  == kahn[free, Indegree(family), <<>>]
  IN IF Len(out) # Cardinality(family.members) THEN ByPrice(family) ELSE out

\* drawLadder: a rung is broken if it is dearer than the cheapest it entails.
BrokenRungs(family) ==
  {m \in Priced(family.members) :
     LET ceilings == {price[r[2]] : r \in {d \in Drawn(family) : d[1] = m /\ price[d[2]] # Null}}
     IN ceilings # {} /\ price[m] - Min(ceilings) > Epsilon}

-----------------------------------------------------------------------------
(* Properties *)

\* A family the page calls violated can be picked, unless as many as the limit allows
\* are listed in its place, none of them smaller.
ViolatedCanBePicked ==
  \A listing \in ReadFamilies :
    /\ \A g \in Group \ listing.partitions :
         ReadPartitionFamily(g).violated =>
           /\ Cardinality(listing.partitions) = FamilyLimit
           /\ \A h \in listing.partitions : Cardinality(OpenOf(h)) >= Cardinality(OpenOf(g))
    /\ \A e \in Event \ listing.ladders :
         ReadLadderFamily(e).violated =>
           /\ Cardinality(listing.ladders) = FamilyLimit
           /\ \A o \in listing.ladders : Cardinality(LadderOf(o)) >= Cardinality(LadderOf(e))

\* The query and the script, which work it out each in its own way, agree: a ladder is
\* called violated if and only if a rung of its drawing is marked, whichever of its
\* members are closed, unquoted or entailed by another event's.
VerdictIsDrawn ==
  \A e \in Event :
    LET family == ReadLadderFamily(e) IN family.violated <=> BrokenRungs(family) # {}

\* "Antecedents before what they entail", every member once, and "it must tolerate a
\* cycle".
LaidOut ==
  \A e \in Event :
    LET family == ReadLadderFamily(e)
        order  == Topological(family)
        inOrder(perm) == \A r \in Drawn(family) :
          (CHOOSE i \in DOMAIN perm : perm[i] = r[1]) < (CHOOSE i \in DOMAIN perm : perm[i] = r[2])
    IN /\ Range(order) = family.members /\ IsInjective(order)
       /\ (\E perm \in SetToSeqs(family.members) : inOrder(perm)) => inOrder(order)

\* All of it, of the page as it is served.
FamilyPage == ViolatedCanBePicked /\ VerdictIsDrawn /\ LaidOut

=============================================================================
