--------------------------- MODULE RelationGraph ---------------------------
(***************************************************************************)
(* The relation graph of src/relations/graph.ts: RelationGraph.build finds   *)
(* the strongly connected components of the implications (Tarjan's           *)
(* algorithm, with a stack of frames instead of recursion), rejects or drops *)
(* their edges, sorts what is left topologically and reduces it, and releases *)
(* each node's set of reachable nodes as soon as nobody needs it.            *)
(* One action is one turn of the loop it models.                             *)
(***************************************************************************)
EXTENDS Integers, Sequences, FiniteSets

CONSTANT Graphs     \* the lists of implications a graph may be built from

VARIABLES
  implies, tolerate,          \* the input: the implications, and tolerateCycles
  nodes, out,                 \* the markets in the order in which the edges bring
                              \* them, and each one's neighbours, an edge each
  pc,
  index, low, stack, work,    \* Tarjan's: frames of a node and its next neighbour
  components,
  kept, acyclicOut,           \* the implications not dropped, and their neighbours
  indegree, ready, order,     \* Kahn's
  consumers, reach, todo,     \* the reduction's
  reduced

input  == <<implies, tolerate, nodes, out>>
tarjan == <<index, low, stack, work, components>>
graph  == <<kept, acyclicOut>>
kahn   == <<indegree, ready, order>>
reduction == <<consumers, reach, todo, reduced>>
graphVars == <<input, pc, tarjan, graph, kahn, reduction>>

None == -1

Members(s) == {s[i] : i \in DOMAIN s}

ASSUME GraphsAssumption ==
  \A edges \in Graphs :
    /\ edges \in Seq(Members(edges))
    /\ \A e \in Members(edges) : e = <<e[1], e[2]>>

\* What a sequence has at some positions, and those of its elements that are in a set,
\* in its order.  (SelectSeq is defined by recursion, and about this there are theorems.)
Picked(s, I) ==
  LET at(k) == CHOOSE i \in I : Cardinality({h \in I : h <= i}) = k
  IN [k \in 1..Cardinality(I) |-> s[at(k)]]
Those(s, S) == Picked(s, {i \in DOMAIN s : s[i] \in S})

\* A sequence without its repetitions.
Distinct(s) == Picked(s, {i \in DOMAIN s : \A k \in 1..(i - 1) : s[k] # s[i]})

Node == Members(nodes)

Ends(edges) == Distinct([i \in 1..(2 * Len(edges)) |-> edges[(i + 1) \div 2][2 - (i % 2)]])

Adjacent(edges, n) ==
  LET own == Those(edges, {e \in Members(edges) : e[1] = n}) IN [i \in DOMAIN own |-> own[i][2]]

Last(s)     == s[Len(s)]
Front(s)    == SubSeq(s, 1, Len(s) - 1)
Reversed(s) == [i \in DOMAIN s |-> s[Len(s) + 1 - i]]
Least(a, b) == IF a <= b THEN a ELSE b

Into(edges, n) == Cardinality({i \in DOMAIN edges : edges[i][2] = n})

\* How often a market is a neighbour of another.
Times(n, m) == Cardinality({i \in DOMAIN kept : kept[i] = <<n, m>>})

\* build skips an implication of a market by itself.
Proper(edges) == Those(edges, {e \in Members(edges) : e[1] # e[2]})

GraphInit ==
  /\ implies \in {Proper(edges) : edges \in Graphs} /\ tolerate \in BOOLEAN
  /\ nodes = Ends(implies)
  /\ out = [n \in Node |-> Adjacent(implies, n)]
  /\ pc = "scanning"
  /\ index = [n \in Node |-> None] /\ low = index
  /\ stack = <<>> /\ work = <<>> /\ components = <<>>
  /\ kept = <<>> /\ acyclicOut = out
  /\ indegree = [n \in Node |-> 0] /\ ready = <<>> /\ order = <<>>
  /\ consumers = [n \in Node |-> 0] /\ reach = [n \in {} |-> {}] /\ todo = <<>>
  /\ reduced = [n \in Node |-> <<>>]

-----------------------------------------------------------------------------
(* stronglyConnected *)

Counter == Cardinality({n \in Node : index[n] # None})

\* A node is met for the first time: it is numbered, stacked and given a frame.
Visit(n) ==
  /\ index' = [index EXCEPT ![n] = Counter]
  /\ low' = [low EXCEPT ![n] = Counter]
  /\ stack' = Append(stack, n)

Unvisited == Those(nodes, {n \in Node : index[n] = None})

Root ==
  /\ pc = "scanning" /\ work = <<>> /\ Unvisited # <<>>
  /\ Visit(Head(Unvisited))
  /\ work' = <<[node |-> Head(Unvisited), next |-> 1]>>
  /\ UNCHANGED <<input, pc, components, graph, kahn, reduction>>

Frame == Last(work)
Neighbours == out[Frame.node]
Advanced == [work EXCEPT ![Len(work)].next = @ + 1]

Descend ==
  /\ pc = "scanning" /\ work # <<>> /\ Frame.next <= Len(Neighbours)
  /\ LET child == Neighbours[Frame.next] IN
       /\ index[child] = None
       /\ Visit(child)
       /\ work' = Append(Advanced, [node |-> child, next |-> 1])
  /\ UNCHANGED <<input, pc, components, graph, kahn, reduction>>

\* Variant: a node of a finished component counts as well.
OnStackOrDone(n) == index[n] # None

OnStack(n) == n \in Members(stack)

Glance ==
  /\ pc = "scanning" /\ work # <<>> /\ Frame.next <= Len(Neighbours)
  /\ LET child == Neighbours[Frame.next] IN
       /\ index[child] # None
       /\ low' = IF OnStack(child)
                   THEN [low EXCEPT ![Frame.node] = Least(@, index[child])] ELSE low
  /\ work' = Advanced
  /\ UNCHANGED <<input, pc, index, stack, components, graph, kahn, reduction>>

\* A frame is done: its node's low is its parent's, and a node that is its own
\* low is the bottom of a component, kept if it is a cycle.
Retreat ==
  /\ pc = "scanning" /\ work # <<>> /\ Frame.next > Len(Neighbours)
  /\ LET n == Frame.node
         bottom == CHOOSE i \in DOMAIN stack : stack[i] = n
         component == Reversed(SubSeq(stack, bottom, Len(stack)))
     IN
       /\ work' = Front(work)
       /\ low' = IF Len(work) = 1 THEN low
                 ELSE [low EXCEPT ![work[Len(work) - 1].node] = Least(@, low[n])]
       /\ IF low[n] = index[n]
            THEN /\ stack' = SubSeq(stack, 1, bottom - 1)
                 /\ components' = IF Len(component) > 1
                                    THEN Append(components, component) ELSE components
            ELSE UNCHANGED <<stack, components>>
  /\ UNCHANGED <<input, pc, index, graph, kahn, reduction>>

-----------------------------------------------------------------------------
(* RelationGraph.build: cycles *)

\* cycleWithin, for the report: from a component's first node, the first neighbour
\* in the component, until a node comes again.
Walk(component) ==
  LET next(n) == Head(Those(out[n], Members(component)))
      path[k \in 1..(Len(component) + 1)] ==
        IF k = 1 THEN Head(component) ELSE next(path[k - 1])
      ends == {k \in 2..(Len(component) + 1) : \E i \in 1..(k - 1) : path[i] = path[k]}
      end  == CHOOSE k \in ends : \A l \in ends : k <= l
  IN [k \in 1..end |-> path[k]]

OnCycle == UNION {Members(components[i]) : i \in DOMAIN components}

\* Variant: only the edges of the walks that are reported are dropped.
DroppedReported(e) ==
  \E i \in DOMAIN components : LET walk == Walk(components[i]) IN
    \E k \in 1..(Len(walk) - 1) : e = <<walk[k], walk[k + 1]>>

Dropped(e) == e[1] \in OnCycle /\ e[2] \in OnCycle

Reject ==
  /\ pc = "scanning" /\ work = <<>> /\ Unvisited = <<>>
  /\ components # <<>> /\ ~tolerate
  /\ pc' = "rejected"
  /\ UNCHANGED <<input, tarjan, graph, kahn, reduction>>

\* topologicalOrder begins on the edges that are kept.
Keep ==
  /\ pc = "scanning" /\ work = <<>> /\ Unvisited = <<>>
  /\ components = <<>> \/ tolerate
  /\ kept' = Those(implies, {e \in Members(implies) : ~Dropped(e)})
  /\ acyclicOut' = [n \in Node |-> Adjacent(kept', n)]
  /\ indegree' = [n \in Node |-> Into(kept', n)]
  /\ ready' = Those(nodes, {n \in Node : indegree'[n] = 0})
  /\ pc' = "sorting"
  /\ UNCHANGED <<input, tarjan, order, reduction>>

-----------------------------------------------------------------------------
(* topologicalOrder *)

Dequeue ==
  /\ pc = "sorting" /\ ready # <<>>
  /\ LET n == Last(ready)
         free == {m \in Node : indegree[m] = Times(n, m)}
     IN
       /\ order' = Append(order, n)
       /\ indegree' = [m \in Node |-> indegree[m] - Times(n, m)]
       /\ ready' = Front(ready) \o Reversed(Those(Distinct(Reversed(acyclicOut[n])), free))
  /\ UNCHANGED <<input, pc, tarjan, graph, reduction>>

\* transitiveReduction counts who will need each node's set.
Sorted ==
  /\ pc = "sorting" /\ ready = <<>>
  /\ consumers' = [n \in Node |-> Into(kept, n)]
  /\ todo' = order
  /\ pc' = "reducing"
  /\ UNCHANGED <<input, tarjan, graph, kahn, reach, reduced>>

-----------------------------------------------------------------------------
(* transitiveReduction *)

\* The neighbours of whose sets a node is the last consumer, in the order in which
\* it finds out; the first of the largest of them is taken over, and the others
\* are released.
LastOf(n) ==
  Reversed(Those(Distinct(Reversed(acyclicOut[n])),
                 {m \in Node : consumers[m] = Times(n, m)}))
Owned(n) ==
  LET s == LastOf(n)
      i == CHOOSE i \in DOMAIN s : \A k \in DOMAIN s :
             \/ Cardinality(reach[s[i]]) > Cardinality(reach[s[k]])
             \/ Cardinality(reach[s[i]]) = Cardinality(reach[s[k]]) /\ i <= k
  IN s[i]

\* Variant: what is reachable through the neighbours, and not only what is
\* reachable through their neighbours.
InheritedDirectly(n) == Members(acyclicOut[n])

\* What is reachable through the neighbours' neighbours, as far as the set taken
\* over and those that have not been released say.
Inherited(n) ==
  (UNION {reach[m] : m \in Members(acyclicOut[n]) \ Members(LastOf(n))})
    \cup (IF LastOf(n) = <<>> THEN {} ELSE reach[Owned(n)])

Reduce ==
  /\ pc = "reducing" /\ todo # <<>>
  /\ LET n == Last(todo)
         far == Inherited(n)
     IN
       /\ reduced' = [reduced EXCEPT ![n] = Those(acyclicOut[n], Node \ far)]
       /\ reach' = [m \in (DOMAIN reach \ Members(LastOf(n))) \cup {n} |->
                      IF m = n THEN far \cup Members(acyclicOut[n]) ELSE reach[m]]
       /\ consumers' = [m \in Node |-> consumers[m] - Times(n, m)]
       /\ todo' = Front(todo)
  /\ UNCHANGED <<input, pc, tarjan, graph, kahn>>

Built ==
  /\ pc = "reducing" /\ todo = <<>>
  /\ pc' = "reduced"
  /\ UNCHANGED <<input, tarjan, graph, kahn, reduction>>

\* #reachable: everything found by following edges from a node, but the node.
Descendants(n) ==
  LET seen[k \in 0..Len(nodes)] ==
        IF k = 0 THEN Members(acyclicOut[n])
        ELSE seen[k - 1] \cup UNION {Members(acyclicOut[m]) : m \in seen[k - 1]}
  IN seen[Len(nodes)] \ {n}

-----------------------------------------------------------------------------
GraphNext == Root \/ Descend \/ Glance \/ Retreat \/ Reject \/ Keep
             \/ Dequeue \/ Sorted \/ Reduce \/ Built

GraphSpec == GraphInit /\ [][GraphNext]_graphVars

-----------------------------------------------------------------------------
(* Properties *)

\* A path leads to every node of each set that has the nodes after the first one and
\* that no edge leaves.
Closed(edges, S) == \A e \in edges : e[1] \in S => e[2] \in S
Path(edges, n, m) ==
  \A S \in SUBSET Node : Closed(edges, S) /\ {k \in Node : <<n, k>> \in edges} \subseteq S => m \in S

Reduced == UNION {{<<n, m>> : m \in Members(reduced[n])} : n \in Node}

\* stronglyConnected finds the classes of markets that imply each other, and the
\* walk reported for a class follows its implications until it ends where it has
\* been.
ComponentsAreCycles ==
  pc \in {"rejected", "sorting"} /\ order = <<>> =>
    LET Leads(n, m) == Path(Members(implies), n, m) IN
      /\ {Members(components[i]) : i \in DOMAIN components} =
           {{m \in Node : Leads(n, m) /\ Leads(m, n)} : n \in {n \in Node : Leads(n, n)}}
      /\ \A i \in DOMAIN components :
           LET walk == Walk(components[i]) IN
             /\ \A k \in 1..(Len(walk) - 1) : <<walk[k], walk[k + 1]>> \in Members(implies)
             /\ Last(walk) \in Members(Front(walk))

\* What build keeps has no cycle, whatever it dropped: topologicalOrder places
\* every node once, and every implication leads to a later one.
SortedGraph ==
  pc = "reduced" =>
    /\ Members(order) = Node /\ Len(order) = Len(nodes)
    /\ \A i, k \in DOMAIN order : <<order[i], order[k]>> \in Members(kept) => i < k

\* transitiveReduction loses no implication: what a market entails by the edges that
\* are kept, it entails by the direct ones, although sets of reachable nodes are
\* taken over and released on the way.
ReductionKeepsReach ==
  pc = "reduced" => \A n \in Node : Descendants(n) = {m \in Node : Path(Reduced, n, m)}

\* graph.ts: the reduction is "the smallest edge set with the same reachability".
ReductionIsSmallest ==
  pc = "reduced" =>
    \A e \in Reduced : \E n, m \in Node :
      Path(Members(kept), n, m) /\ ~Path(Reduced \ {e}, n, m)

\* graph.ts, tolerateCycles: "every edge on a cycle is dropped and the rest is
\* kept".
OnlyCyclesDropped ==
  pc = "reduced" =>
    \A e \in Members(implies) \ Members(kept) : Path(Members(implies), e[2], e[1])

=============================================================================
