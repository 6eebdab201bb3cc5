-------------------------- MODULE Relations_proofs --------------------------
(***************************************************************************)
(* For any markets, models' answers, runs, sessions and files: verdicts are   *)
(* final, only verdicts and extractions make edges, and a pair is paid for    *)
(* once but for deaths and overlaps.  For any catalog: what is extracted is   *)
(* an entailment, with the exceptions its property names, and says all that   *)
(* the rungs say.  For any constraints and feed: the screen does not judge by *)
(* what an earlier check has read.  For any list of implications: the         *)
(* components of the graph are its classes, its order is a topological one,   *)
(* and its reduction reaches what it did.                                    *)
(***************************************************************************)
EXTENDS Relations, FiniteSetTheorems, WellFoundedInduction, TLAPS

\* What the proofs need of the tables and the runs.
ProposalTypes ==
  /\ DOMAIN proposals \subseteq Pair
  /\ \A p \in DOMAIN proposals :
       proposals[p] \in [type : Type, status : Verdict \cup {"pending"}]

RunTypes ==
  run \in [Proposer -> [pc : {"idle", "embedded", "asking"}, todo : SUBSET Pair,
                        kept : SUBSET (Pair \X Type)]]

\* A session presents stored proposals.
SessionTypes ==
  /\ session \in [Reviewer -> SUBSET Pair]
  /\ \A r \in Reviewer : session[r] \subseteq DOMAIN proposals

Types == ProposalTypes /\ RunTypes /\ SessionTypes

-----------------------------------------------------------------------------
\* Merge keeps every row and lets the second table win.
LEMMA MergeFacts ==
  ASSUME NEW table, NEW rows
  PROVE  /\ DOMAIN Merge(table, rows) = DOMAIN table \cup DOMAIN rows
         /\ \A k \in DOMAIN rows : Merge(table, rows)[k] = rows[k]
         /\ \A k \in DOMAIN table \ DOMAIN rows : Merge(table, rows)[k] = table[k]
  BY DEF Merge

\* A verdict changes the status of one pending proposal, and nothing else of it.
LEMMA VerdictEffect ==
  ASSUME ProposalTypes, NEW p \in DOMAIN proposals, NEW v \in Verdict,
         RecordVerdict(p, v), proposals[p].status = "pending"
  PROVE  /\ DOMAIN proposals' = DOMAIN proposals
         /\ proposals'[p] = [type |-> proposals[p].type, status |-> v]
         /\ \A o \in DOMAIN proposals \ {p} : proposals'[o] = proposals[o]
<1>1. proposals' = [proposals EXCEPT ![p].status = v]
  BY DEF RecordVerdict
<1>2. proposals[p] \in [type : Type, status : Verdict \cup {"pending"}]
  BY DEF ProposalTypes
<1> QED  BY <1>1, <1>2

\* What a run has kept it stores as pending, and only where nothing is stored.
LEMMA SaveEffect ==
  ASSUME Types, NEW q \in Proposer, SaveProposals(q)
  PROVE  /\ DOMAIN proposals' = DOMAIN proposals \cup {k[1] : k \in run[q].kept}
         /\ \A p \in DOMAIN proposals : proposals'[p] = proposals[p]
         /\ \A p \in DOMAIN proposals' \ DOMAIN proposals :
              proposals'[p] \in [type : Type, status : {"pending"}]
<1> DEFINE rows == [p \in {k[1] : k \in run[q].kept} |->
                      [type |-> (CHOOSE k \in run[q].kept : k[1] = p)[2], status |-> "pending"]]
<1>1. proposals' = Merge(rows, proposals)
  BY DEF SaveProposals, Stored
<1> HIDE DEF rows
<1>2. /\ DOMAIN proposals' = DOMAIN rows \cup DOMAIN proposals
      /\ \A p \in DOMAIN proposals : proposals'[p] = proposals[p]
      /\ \A p \in DOMAIN rows \ DOMAIN proposals : proposals'[p] = rows[p]
  BY <1>1 DEF Merge
<1> USE DEF rows
<1>3. ASSUME NEW p \in DOMAIN rows
      PROVE  rows[p] \in [type : Type, status : {"pending"}]
  <2>1. PICK k \in run[q].kept : k[1] = p
    BY <1>3
  <2>2. (CHOOSE l \in run[q].kept : l[1] = p) \in run[q].kept
    BY <2>1
  <2>3. run[q].kept \subseteq Pair \X Type
    BY DEF Types, RunTypes
  <2> QED  BY <2>2, <2>3
<1> QED  BY <1>2, <1>3

-----------------------------------------------------------------------------
LEMMA TypesPreserved ==
  ASSUME Types, [Next]_vars
  PROVE  Types'
<1> USE DEF Types
<1>1. CASE UNCHANGED vars
  BY <1>1 DEF vars, ProposalTypes, RunTypes, SessionTypes
<1>2. ASSUME NEW p \in DOMAIN proposals, NEW v \in Verdict, RecordVerdict(p, v)
      PROVE  ProposalTypes' /\ DOMAIN proposals' = DOMAIN proposals
  <2>1. CASE proposals[p].status # "pending"
    BY <1>2, <2>1 DEF RecordVerdict, ProposalTypes
  <2>2. CASE proposals[p].status = "pending"
    <3>1. /\ DOMAIN proposals' = DOMAIN proposals
          /\ proposals'[p] = [type |-> proposals[p].type, status |-> v]
          /\ \A o \in DOMAIN proposals \ {p} : proposals'[o] = proposals[o]
      BY <1>2, <2>2, VerdictEffect
    <3>2. proposals[p].type \in Type
      BY DEF ProposalTypes
    <3> QED  BY <3>1, <3>2 DEF ProposalTypes
  <2> QED  BY <2>1, <2>2
<1>3. CASE Extract
  BY <1>3 DEF Extract, SaveEdges, ProposalTypes, RunTypes, SessionTypes
<1>4. CASE ApplyLine
  <2>1. ProposalTypes' /\ DOMAIN proposals' = DOMAIN proposals
    BY <1>4, <1>2 DEF ApplyLine
  <2> QED  BY <1>4, <2>1 DEF ApplyLine, RunTypes, SessionTypes
<1>5. ASSUME NEW r \in Reviewer, Load(r) \/ Quit(r)
      PROVE  Types'
  BY <1>5 DEF Load, Quit, ProposalTypes, RunTypes, SessionTypes
<1>6. ASSUME NEW r \in Reviewer, Decide(r)
      PROVE  Types'
  <2>1. PICK p \in session[r], v \in Verdict :
          RecordVerdict(p, v) /\ session' = [session EXCEPT ![r] = @ \ {p}]
    BY <1>6 DEF Decide
  <2>2. ProposalTypes' /\ DOMAIN proposals' = DOMAIN proposals
    BY <1>2, <2>1 DEF SessionTypes
  <2>3. SessionTypes'
    BY <2>1, <2>2 DEF SessionTypes
  <2> QED  BY <1>6, <2>2, <2>3 DEF Decide, RunTypes
<1>7. ASSUME NEW q \in Proposer, Embed(q)
      PROVE  Types'
  BY <1>7 DEF Embed, ProposalTypes, RunTypes, SessionTypes
<1>8. ASSUME NEW q \in Proposer, FindCandidates(q)
      PROVE  Types'
  <2>1. PICK candidates \in CandidatePairs :
          run' = IF candidates = {} THEN [run EXCEPT ![q] = NoRun]
                   ELSE [run EXCEPT ![q].pc = "asking", ![q].todo = candidates]
    BY <1>8 DEF FindCandidates
  <2>2. candidates \in SUBSET Pair
    BY DEF CandidatePairs
  <2>3. RunTypes'
    BY <2>1, <2>2 DEF NoRun, RunTypes
  <2> QED  BY <1>8, <2>3 DEF FindCandidates, ProposalTypes, SessionTypes
<1>9. ASSUME NEW q \in Proposer, Ask(q)
      PROVE  Types'
  <2>1. RunTypes'
    BY <1>9, ReviewAssumption DEF Ask, NoAnswer, Kept, RunTypes
  <2> QED  BY <1>9, <2>1 DEF Ask, ProposalTypes, SessionTypes
<1>10. ASSUME NEW q \in Proposer, SaveProposals(q)
       PROVE  Types'
  <2>1. {k[1] : k \in run[q].kept} \subseteq Pair
    BY DEF RunTypes
  <2>2. DOMAIN proposals' \subseteq Pair /\ DOMAIN proposals \subseteq DOMAIN proposals'
    BY <1>10, <2>1, SaveEffect DEF ProposalTypes
  <2>3. \A p \in DOMAIN proposals' :
          proposals'[p] \in [type : Type, status : Verdict \cup {"pending"}]
    <3> TAKE p \in DOMAIN proposals'
    <3>1. CASE p \in DOMAIN proposals
      BY <1>10, <3>1, SaveEffect DEF ProposalTypes
    <3>2. CASE p \notin DOMAIN proposals
      BY <1>10, <3>2, SaveEffect
    <3> QED  BY <3>1, <3>2
  <2>4. RunTypes'
    BY <1>10 DEF SaveProposals, NoRun, RunTypes
  <2>5. SessionTypes'
    BY <1>10, <2>2 DEF SaveProposals, SessionTypes
  <2> QED  BY <2>2, <2>3, <2>4, <2>5 DEF ProposalTypes
<1>11. ASSUME NEW q \in Proposer, Die(q)
       PROVE  Types'
  BY <1>11 DEF Die, NoRun, ProposalTypes, RunTypes, SessionTypes
<1> QED  BY <1>1, <1>3, <1>4, <1>5, <1>6, <1>7, <1>8, <1>9, <1>10, <1>11 DEF Next

LEMMA TypesInvariant == Spec => []Types
<1>1. Init => Types
  BY DEF Init, Types, ProposalTypes, RunTypes, SessionTypes, NoRun
<1>2. Types /\ [Next]_vars => Types'
  BY TypesPreserved
<1> QED  BY <1>1, <1>2, PTL DEF Spec

-----------------------------------------------------------------------------
\* A step of the system leaves every stored proposal's type alone, and its status too
\* unless it is pending.
LEMMA FinalStep ==
  ASSUME Types, Next, NEW p \in DOMAIN proposals
  PROVE  /\ p \in DOMAIN proposals'
         /\ proposals'[p].type = proposals[p].type
         /\ proposals[p].status # "pending" => proposals'[p] = proposals[p]
<1> DEFINE Kept1 == /\ p \in DOMAIN proposals'
                    /\ proposals'[p].type = proposals[p].type
                    /\ proposals[p].status # "pending" => proposals'[p] = proposals[p]
<1>1. ASSUME NEW o \in DOMAIN proposals, NEW v \in Verdict, RecordVerdict(o, v)
      PROVE  Kept1
  <2>1. CASE proposals[o].status = "pending"
    <3>1. /\ DOMAIN proposals' = DOMAIN proposals
          /\ proposals'[o] = [type |-> proposals[o].type, status |-> v]
          /\ \A x \in DOMAIN proposals \ {o} : proposals'[x] = proposals[x]
      BY <1>1, <2>1, VerdictEffect DEF Types
    <3> QED  BY <2>1, <3>1
  <2>2. CASE proposals[o].status # "pending"
    BY <1>1, <2>2 DEF RecordVerdict
  <2> QED  BY <2>1, <2>2
<1>2. CASE Extract
  BY <1>2 DEF Extract
<1>3. CASE ApplyLine
  BY <1>1, <1>3 DEF ApplyLine
<1>4. ASSUME NEW r \in Reviewer, Load(r) \/ Quit(r)
      PROVE  Kept1
  BY <1>4 DEF Load, Quit
<1>5. ASSUME NEW r \in Reviewer, Decide(r)
      PROVE  Kept1
  BY <1>1, <1>5 DEF Decide, Types, SessionTypes
<1>6. ASSUME NEW q \in Proposer, Embed(q) \/ FindCandidates(q) \/ Ask(q) \/ Die(q)
      PROVE  Kept1
  BY <1>6 DEF Embed, FindCandidates, Ask, Die
<1>7. ASSUME NEW q \in Proposer, SaveProposals(q)
      PROVE  Kept1
  BY <1>7, SaveEffect
<1> QED  BY <1>2, <1>3, <1>4, <1>5, <1>6, <1>7 DEF Next

\* proposals-store.ts: "a rejection is permanent, and a second pass must not quietly
\* overturn it": of any number of sessions, files and later runs none rewords a
\* proposal or changes a verdict.
THEOREM VerdictsAreFinal == Spec => VerdictIsFinal
<1> DEFINE Step == \A p \in DOMAIN proposals :
       /\ p \in DOMAIN proposals' /\ proposals'[p].type = proposals[p].type
       /\ proposals[p].status # "pending" => proposals'[p] = proposals[p]
<1>1. Types /\ [Next]_vars => [Step]_vars
  BY FinalStep
<1>2. VerdictIsFinal <=> [][Step]_vars
  BY DEF VerdictIsFinal
<1> QED  BY <1>1, <1>2, TypesInvariant, PTL DEF Spec

-----------------------------------------------------------------------------
(* Only verdicts and extractions make edges *)

Accepted == {p \in DOMAIN proposals : proposals[p].status = "accepted"}
Reviewed == UNION {EdgesOf(p, proposals[p].type) : p \in Accepted}

\* The property, with its local definitions named.
Accounted ==
  /\ Reviewed \subseteq DOMAIN relations
  /\ DOMAIN relations \subseteq derived \cup Reviewed
  /\ {e \in DOMAIN relations : relations[e] = "llm_reviewed"} \subseteq Reviewed

LEMMA SameAccount == (OnlyVerdictsMakeEdges <=> Accounted) /\ (OnlyVerdictsMakeEdges <=> Accounted)'
  BY DEF OnlyVerdictsMakeEdges, Accounted, Reviewed, Accepted

\* A verdict adds to the edges what it adds to the accepted proposals.
LEMMA VerdictAccounted ==
  ASSUME Types, Accounted, NEW p \in DOMAIN proposals, NEW v \in Verdict,
         RecordVerdict(p, v), UNCHANGED derived
  PROVE  Accounted'
<1>1. CASE proposals[p].status # "pending"
  BY <1>1 DEF RecordVerdict, Accounted, Reviewed, Accepted
<1>2. CASE proposals[p].status = "pending"
  <2>1. /\ DOMAIN proposals' = DOMAIN proposals
        /\ proposals'[p] = [type |-> proposals[p].type, status |-> v]
        /\ \A o \in DOMAIN proposals \ {p} : proposals'[o] = proposals[o]
    BY <1>2, VerdictEffect DEF Types
  <2>2. \A o \in DOMAIN proposals : proposals'[o].type = proposals[o].type
    BY <2>1
  <2>3. CASE v # "accepted"
    <3>1. Accepted' = Accepted
      BY <1>2, <2>1, <2>3 DEF Accepted
    <3>2. Reviewed' = Reviewed
      BY <2>2, <3>1 DEF Reviewed, Accepted
    <3>3. UNCHANGED relations
      BY <1>2, <2>3 DEF RecordVerdict
    <3> QED  BY <3>2, <3>3 DEF Accounted
  <2>4. CASE v = "accepted"
    <3> DEFINE new == EdgesOf(p, proposals[p].type)
    <3>1. Accepted' = Accepted \cup {p}
      BY <1>2, <2>1, <2>4 DEF Accepted
    <3>2. Reviewed' = Reviewed \cup new
      <4> HIDE DEF new
      <4>1. \A o \in Accepted : proposals'[o].type = proposals[o].type
        BY <2>2 DEF Accepted
      <4>2. proposals'[p].type = proposals[p].type
        BY <2>2
      <4> QED  BY <3>1, <4>1, <4>2 DEF Reviewed, new
    <3>3. relations' = Merge(relations, [e \in new |-> "llm_reviewed"])
      BY <1>2, <2>4 DEF RecordVerdict
    <3> HIDE DEF new
    <3>4. /\ DOMAIN relations' = DOMAIN relations \cup new
          /\ \A e \in DOMAIN relations \ new : relations'[e] = relations[e]
      BY <3>3 DEF Merge
    <3> QED  BY <3>2, <3>4 DEF Accounted
  <2> QED  BY <2>3, <2>4
<1> QED  BY <1>1, <1>2

LEMMA AccountPreserved ==
  ASSUME Types, Accounted, [Next]_vars
  PROVE  Accounted'
<1>1. ASSUME UNCHANGED <<proposals, relations, derived>>
      PROVE  Accounted'
  BY <1>1 DEF Accounted, Reviewed, Accepted
<1>2. CASE UNCHANGED vars
  BY <1>1, <1>2 DEF vars
<1>3. CASE Extract
  <2>1. PICK found \in Derivable :
          relations' = Merge(relations, [e \in found.edges |-> "rule"])
            /\ derived' = derived \cup found.edges
    BY <1>3 DEF Extract, SaveEdges
  <2> DEFINE new == found.edges
  <2>2. /\ DOMAIN relations' = DOMAIN relations \cup new
        /\ \A e \in new : relations'[e] = "rule"
        /\ \A e \in DOMAIN relations \ new : relations'[e] = relations[e]
    BY <2>1 DEF Merge
  <2>3. Reviewed' = Reviewed
    BY <1>3 DEF Extract, Reviewed, Accepted
  <2> HIDE DEF new
  <2>4. derived' = derived \cup new
    BY <2>1 DEF new
  <2> QED  BY <2>2, <2>3, <2>4 DEF Accounted
<1>4. CASE ApplyLine
  BY <1>4, VerdictAccounted DEF ApplyLine
<1>5. ASSUME NEW r \in Reviewer, Decide(r)
      PROVE  Accounted'
  BY <1>5, VerdictAccounted DEF Decide, Types, SessionTypes
<1>6. ASSUME NEW r \in Reviewer, Load(r) \/ Quit(r)
      PROVE  Accounted'
  BY <1>1, <1>6 DEF Load, Quit
<1>7. ASSUME NEW q \in Proposer, Embed(q) \/ FindCandidates(q) \/ Ask(q) \/ Die(q)
      PROVE  Accounted'
  BY <1>1, <1>7 DEF Embed, FindCandidates, Ask, Die
<1>8. ASSUME NEW q \in Proposer, SaveProposals(q)
      PROVE  Accounted'
  <2>1. \A p \in DOMAIN proposals : p \in DOMAIN proposals' /\ proposals'[p] = proposals[p]
    BY <1>8, SaveEffect
  <2>2. \A p \in DOMAIN proposals' \ DOMAIN proposals : proposals'[p].status = "pending"
    BY <1>8, SaveEffect
  <2>3. Accepted' = Accepted
    BY <2>1, <2>2 DEF Accepted
  <2>4. Reviewed' = Reviewed
    BY <2>1, <2>3 DEF Reviewed, Accepted
  <2> QED  BY <1>8, <2>4 DEF SaveProposals, Accounted
<1> QED  BY <1>2, <1>3, <1>4, <1>5, <1>6, <1>7, <1>8 DEF Next

\* The invariant proposals-store.ts exists to hold, for any number of sessions, files
\* and extractions: an edge that is neither derived nor accepted is never stored, and
\* an accepted proposal has its edge.
THEOREM EdgesAreEarned == Spec => []OnlyVerdictsMakeEdges
<1>1. Init => OnlyVerdictsMakeEdges
  BY DEF Init, OnlyVerdictsMakeEdges
<1>2. Types /\ OnlyVerdictsMakeEdges /\ [Next]_vars => OnlyVerdictsMakeEdges'
  BY AccountPreserved, SameAccount
<1> QED  BY <1>1, <1>2, TypesInvariant, PTL DEF Spec

-----------------------------------------------------------------------------
(* A pair is paid for once *)

\* Runs under way; runs with an unstored answer for p; runs that have yet to ask of p.
Busy       == {q \in Proposer : run[q].pc # "idle"}
Unstored(q) == {k[1] : k \in run[q].kept}
Holds(p)   == {q \in Proposer : p \in Unstored(q)}
Owes(p)    == {q \in Proposer : p \in run[q].todo}

Counters == faults \in Nat /\ overlaps \in Nat /\ paid \in [Pair -> Nat]

\* A run asks of a pair once, and only a run that asks has pairs and answers.
RunShape ==
  \A q \in Proposer :
    /\ run[q].pc # "asking" => run[q].todo = {} /\ run[q].kept = {}
    /\ run[q].todo \cap Unstored(q) = {}

\* Every completion but those that deaths and silence have cost is with a run, until the pair's first
\* proposal is stored; from then on only runs that had found the pair before ask.
Paid(p) ==
  IF p \in DOMAIN proposals
    THEN paid[p] + Cardinality(Owes(p)) <= 1 + faults + overlaps
    ELSE paid[p] <= faults + Cardinality(Holds(p))

Account ==
  /\ Types /\ Counters /\ RunShape
  /\ Cardinality(Busy) <= 1 + overlaps
  /\ \A p \in Pair : Paid(p)

\* Sets of runs are finite, and a smaller one is no larger.
LEMMA RunsFinite ==
  ASSUME NEW S \in SUBSET Proposer
  PROVE  /\ IsFiniteSet(S) /\ Cardinality(S) \in Nat
         /\ \A T \in SUBSET S : Cardinality(T) \in Nat /\ Cardinality(T) <= Cardinality(S)
  BY ReviewAssumption, FS_Subset, FS_CardinalityType

\* Without one of its members it is one less.
LEMMA RunsLessOne ==
  ASSUME NEW S \in SUBSET Proposer, NEW q \in Proposer
  PROVE  /\ Cardinality(S) <= Cardinality(S \ {q}) + 1
         /\ q \in S => Cardinality(S \ {q}) = Cardinality(S) - 1
         /\ Cardinality(S \cup {q}) <= Cardinality(S) + 1
         /\ q \notin S => Cardinality(S \cup {q}) = Cardinality(S) + 1
<1>1. IsFiniteSet(S) /\ Cardinality(S) \in Nat
  BY RunsFinite
<1>2. Cardinality(S \ {q}) = IF q \in S THEN Cardinality(S) - 1 ELSE Cardinality(S)
  BY <1>1, FS_RemoveElement
<1>3. Cardinality(S \cup {q}) = IF q \in S THEN Cardinality(S) ELSE Cardinality(S) + 1
  BY <1>1, FS_AddElement
<1> QED  BY <1>1, <1>2, <1>3

\* A run either has an answer for p or owes a question, and is under way.
LEMMA RunsSplit ==
  ASSUME RunShape, NEW p
  PROVE  Cardinality(Owes(p)) + Cardinality(Holds(p)) <= Cardinality(Busy)
<1>1. /\ Owes(p) \in SUBSET Proposer /\ Holds(p) \in SUBSET Proposer
      /\ Busy \in SUBSET Proposer
  BY DEF Owes, Holds, Busy
<1>2. Owes(p) \cup Holds(p) \subseteq Busy
  BY DEF RunShape, Owes, Holds, Busy, Unstored
<1>3. Owes(p) \cap Holds(p) = {}
  BY DEF RunShape, Owes, Holds
<1>4. Cardinality(Owes(p) \cup Holds(p)) = Cardinality(Owes(p)) + Cardinality(Holds(p))
  <2>1. IsFiniteSet(Owes(p)) /\ IsFiniteSet(Holds(p))
    BY <1>1, RunsFinite
  <2>2. /\ Cardinality(Owes(p)) \in Nat /\ Cardinality(Holds(p)) \in Nat
    BY <1>1, RunsFinite
  <2>3. Cardinality(Owes(p) \cup Holds(p)) =
          Cardinality(Owes(p)) + Cardinality(Holds(p)) - Cardinality(Owes(p) \cap Holds(p))
    BY <2>1, FS_Union
  <2>4. Cardinality(Owes(p) \cap Holds(p)) = 0
    BY <1>3, FS_EmptySet
  <2> QED  BY <2>2, <2>3, <2>4
<1> QED  BY <1>1, <1>2, <1>4, RunsFinite

\* A step that asks nothing of p, stores nothing of it and costs no answer for it.
LEMMA PaidAlready ==
  ASSUME Account, NEW p \in Pair,
         p \in DOMAIN proposals' <=> p \in DOMAIN proposals,
         paid'[p] = paid[p], faults' \in Nat, faults' >= faults,
         overlaps' \in Nat, overlaps' >= overlaps,
         p \in DOMAIN proposals => Owes(p)' \subseteq Owes(p),
         p \notin DOMAIN proposals => Holds(p) \subseteq Holds(p)'
  PROVE  Paid(p)'
<1>1. faults \in Nat /\ overlaps \in Nat /\ paid[p] \in Nat /\ Paid(p)
  BY DEF Account, Counters
<1>2. CASE p \in DOMAIN proposals
  <2>1. Owes(p) \in SUBSET Proposer
    BY DEF Owes
  <2>2. /\ Cardinality(Owes(p)) \in Nat /\ Cardinality(Owes(p)') \in Nat
        /\ Cardinality(Owes(p)') <= Cardinality(Owes(p))
    BY <1>2, <2>1, RunsFinite
  <2> QED  BY <1>1, <1>2, <2>2 DEF Paid
<1>3. CASE p \notin DOMAIN proposals
  <2>1. Holds(p)' \in SUBSET Proposer
    BY DEF Holds
  <2>2. /\ Cardinality(Holds(p)) \in Nat /\ Cardinality(Holds(p)') \in Nat
        /\ Cardinality(Holds(p)) <= Cardinality(Holds(p)')
    BY <1>3, <2>1, RunsFinite
  <2> QED  BY <1>1, <1>3, <2>2 DEF Paid
<1> QED  BY <1>2, <1>3

\* A step that changes neither runs nor what is stored of p.
LEMMA PaidUnchanged ==
  ASSUME Account, UNCHANGED <<run, paid, overlaps>>,
         DOMAIN proposals' = DOMAIN proposals, faults' \in Nat, faults' >= faults
  PROVE  /\ Counters' /\ RunShape' /\ Cardinality(Busy') <= 1 + overlaps'
         /\ \A p \in Pair : Paid(p)'
<1>1. Busy' = Busy /\ \A p \in Pair : Owes(p)' = Owes(p) /\ Holds(p)' = Holds(p)
  BY DEF Busy, Owes, Holds, Unstored
<1>2. overlaps \in Nat /\ Counters' /\ RunShape'
  BY DEF Account, Counters, RunShape, Unstored
<1>3. \A p \in Pair : Paid(p)'
  BY <1>1, <1>2, PaidAlready
<1> QED  BY <1>1, <1>2, <1>3 DEF Account

LEMMA EmbedAccount ==
  ASSUME Account, Types', NEW q \in Proposer, Embed(q)
  PROVE  Account'
<1>1. PICK done \in SUBSET (Market \ vectors) :
        run' = [run EXCEPT ![q].pc = IF vectors' = Market THEN "embedded" ELSE "idle"]
  BY DEF Embed
<1>2. /\ run[q].pc = "idle" /\ proposals' = proposals /\ paid' = paid
      /\ faults' \in Nat /\ faults' >= faults
      /\ overlaps' = overlaps + (IF \E o \in Proposer : run[o].pc # "idle" THEN 1 ELSE 0)
  BY DEF Embed, Account, Counters
<1>3. overlaps \in Nat /\ Counters'
  BY <1>2 DEF Account, Counters
<1>4. /\ \A o \in Proposer : run'[o].todo = run[o].todo /\ run'[o].kept = run[o].kept
      /\ \A o \in Proposer \ {q} : run'[o].pc = run[o].pc
      /\ run'[q].pc \in {"embedded", "idle"}
  BY <1>1 DEF Account, Types, RunTypes
<1>5. RunShape'
  BY <1>2, <1>4 DEF Account, RunShape, Unstored
<1>6. Cardinality(Busy') <= 1 + overlaps'
  <2>1. Busy' \subseteq Busy \cup {q} /\ Busy \in SUBSET Proposer /\ q \notin Busy
    BY <1>2, <1>4 DEF Busy
  <2>2. /\ Busy \cup {q} \in SUBSET Proposer /\ Cardinality(Busy) \in Nat
        /\ Cardinality(Busy \cup {q}) = Cardinality(Busy) + 1
        /\ Cardinality(Busy) <= 1 + overlaps
    BY <2>1, RunsFinite, RunsLessOne DEF Account
  <2>3. Cardinality(Busy') \in Nat /\ Cardinality(Busy') <= Cardinality(Busy) + 1
    BY <2>1, <2>2, RunsFinite
  <2>4. CASE Busy = {}
    BY <1>3, <2>2, <2>3, <2>4, FS_EmptySet, <1>2
  <2>5. CASE Busy # {}
    <3>1. overlaps' = overlaps + 1
      BY <1>2, <2>5 DEF Busy
    <3> QED  BY <1>3, <2>2, <2>3, <3>1
  <2> QED  BY <2>4, <2>5
<1>7. \A p \in Pair : Paid(p)'
  <2>1. \A p \in Pair : Owes(p)' = Owes(p) /\ Holds(p)' = Holds(p)
    BY <1>4 DEF Owes, Holds, Unstored
  <2>2. overlaps' \in Nat /\ overlaps' >= overlaps
    BY <1>2, <1>3
  <2> QED  BY <1>2, <2>1, <2>2, PaidAlready
<1> QED  BY <1>3, <1>5, <1>6, <1>7 DEF Account

LEMMA FindAccount ==
  ASSUME Account, Types', NEW q \in Proposer, FindCandidates(q)
  PROVE  Account'
<1>1. PICK candidates \in CandidatePairs :
        run' = IF candidates = {} THEN [run EXCEPT ![q] = NoRun]
                 ELSE [run EXCEPT ![q].pc = "asking", ![q].todo = candidates]
  BY DEF FindCandidates
<1>2. /\ UNCHANGED <<proposals, paid, faults, overlaps>> /\ run[q].pc = "embedded"
      /\ Counters /\ Counters'
  BY DEF FindCandidates, Account, Counters
<1>3. run[q].todo = {} /\ run[q].kept = {}
  BY <1>2 DEF Account, RunShape
<1>4. /\ \A o \in Proposer \ {q} : run'[o] = run[o]
      /\ run'[q].kept = {} /\ run'[q].todo \subseteq candidates
      /\ run'[q].pc # "asking" => run'[q].todo = {}
  BY <1>1, <1>3 DEF Account, Types, RunTypes, NoRun
<1>5. RunShape'
  BY <1>4 DEF Account, RunShape, Unstored
<1>6. Cardinality(Busy') <= 1 + overlaps'
  <2>1. Busy' \subseteq Busy /\ Busy \in SUBSET Proposer
    BY <1>2, <1>4 DEF Busy
  <2>2. /\ Cardinality(Busy) \in Nat /\ Cardinality(Busy') \in Nat
        /\ Cardinality(Busy') <= Cardinality(Busy)
    BY <2>1, RunsFinite
  <2> QED  BY <1>2, <2>2 DEF Account, Counters
<1>7. ASSUME NEW p \in Pair
      PROVE  Paid(p)'
  <2>1. p \in DOMAIN proposals => p \notin candidates
    BY DEF CandidatePairs, Covered
  <2>2. p \in DOMAIN proposals => Owes(p)' \subseteq Owes(p)
    BY <1>4, <2>1 DEF Owes
  <2>3. Holds(p) \subseteq Holds(p)'
    BY <1>3, <1>4 DEF Holds, Unstored
  <2> QED  BY <1>2, <2>2, <2>3, PaidAlready DEF Counters
<1> QED  BY <1>2, <1>5, <1>6, <1>7 DEF Account

LEMMA DieAccount ==
  ASSUME Account, Types', NEW q \in Proposer, Die(q)
  PROVE  Account'
<1>1. /\ UNCHANGED <<proposals, paid, overlaps>> /\ faults' = faults + 1
      /\ Counters /\ Counters' /\ Cardinality(Busy) <= 1 + overlaps
  BY DEF Die, Account, Counters
<1>2. /\ \A o \in Proposer \ {q} : run'[o] = run[o]
      /\ run'[q] = NoRun
  BY DEF Account, Types, RunTypes, Die
<1>3. RunShape'
  BY <1>2 DEF Account, RunShape, Unstored, NoRun
<1>4. Cardinality(Busy') <= 1 + overlaps'
  <2>1. Busy' \subseteq Busy /\ Busy \in SUBSET Proposer
    BY <1>2 DEF Busy, NoRun
  <2>2. /\ Cardinality(Busy) \in Nat /\ Cardinality(Busy') \in Nat
        /\ Cardinality(Busy') <= Cardinality(Busy)
    BY <2>1, RunsFinite
  <2> QED  BY <1>1, <2>2 DEF Counters
<1>5. ASSUME NEW p \in Pair
      PROVE  Paid(p)'
  <2>1. CASE p \in DOMAIN proposals
    <3>1. Owes(p)' \subseteq Owes(p)
      BY <1>2 DEF Owes, NoRun
    <3> QED  BY <1>1, <2>1, <3>1, PaidAlready DEF Counters
  <2>2. CASE p \notin DOMAIN proposals
    <3>1. Holds(p)' = Holds(p) \ {q} /\ Holds(p) \in SUBSET Proposer
      BY <1>2 DEF Holds, Unstored, NoRun
    <3>2. /\ Cardinality(Holds(p)) <= Cardinality(Holds(p)') + 1
          /\ Cardinality(Holds(p)) \in Nat /\ Cardinality(Holds(p)') \in Nat
      BY <3>1, RunsLessOne, RunsFinite
    <3> QED  BY <1>1, <2>2, <3>2 DEF Paid, Account, Counters
  <2> QED  BY <2>1, <2>2
<1> QED  BY <1>1, <1>3, <1>4, <1>5 DEF Account

LEMMA AskAccount ==
  ASSUME Account, Types', NEW q \in Proposer, Ask(q)
  PROVE  Account'
<1>1. PICK p \in run[q].todo :
        \/ \E t \in Answers :
             /\ run' = [run EXCEPT ![q].todo = @ \ {p}, ![q].kept = @ \cup {<<p, t>>}]
             /\ paid' = [paid EXCEPT ![p] = @ + 1]
             /\ UNCHANGED faults
        \/ NoAnswer(q, p)
  BY DEF Ask, Kept
<1>2. /\ UNCHANGED <<proposals, overlaps>> /\ run[q].pc = "asking"
      /\ Counters /\ Cardinality(Busy) <= 1 + overlaps
      /\ p \in Pair /\ p \notin Unstored(q)
  BY DEF Ask, Account, Types, RunTypes, RunShape
<1>3. /\ \A o \in Proposer \ {q} : run'[o] = run[o]
      /\ run'[q].pc = "asking" /\ run'[q].todo = run[q].todo \ {p}
  BY <1>1, <1>2 DEF NoAnswer, Account, Types, RunTypes
<1>4. Busy' = Busy
  BY <1>2, <1>3 DEF Busy
<1>5. \A x \in Pair \ {p} : Owes(x)' = Owes(x)
  BY <1>3 DEF Owes
<1>6. /\ Owes(p)' = Owes(p) \ {q} /\ q \in Owes(p)
      /\ Cardinality(Owes(p)') + 1 = Cardinality(Owes(p))
      /\ Cardinality(Owes(p)) \in Nat /\ Cardinality(Owes(p)') \in Nat
  <2>1. Owes(p)' = Owes(p) \ {q} /\ q \in Owes(p) /\ Owes(p) \in SUBSET Proposer
    BY <1>1, <1>3 DEF Owes
  <2> QED  BY <2>1, RunsLessOne, RunsFinite
<1>7. CASE \E t \in Answers :
             /\ run' = [run EXCEPT ![q].todo = @ \ {p}, ![q].kept = @ \cup {<<p, t>>}]
             /\ paid' = [paid EXCEPT ![p] = @ + 1]
             /\ UNCHANGED faults
  <2>1. PICK t \in Answers :
          run' = [run EXCEPT ![q].todo = @ \ {p}, ![q].kept = @ \cup {<<p, t>>}]
    BY <1>7
  <2>2. run'[q].kept = run[q].kept \cup {<<p, t>>}
    BY <2>1 DEF Account, Types, RunTypes
  <2>3. Unstored(q)' = Unstored(q) \cup {p} /\ \A o \in Proposer \ {q} : Unstored(o)' = Unstored(o)
    <3>1. {k[1] : k \in run[q].kept \cup {<<p, t>>}} = {k[1] : k \in run[q].kept} \cup {p}
      <4> DEFINE K == run[q].kept
                 a == <<p, t>>
      <4>1. a[1] = p
        OBVIOUS
      <4> HIDE DEF K, a
      <4>2. {k[1] : k \in K \cup {a}} = {k[1] : k \in K} \cup {a[1]}
        OBVIOUS
      <4> QED  BY <4>1, <4>2 DEF K, a
    <3>2. \A o \in Proposer \ {q} : Unstored(o)' = Unstored(o)
      BY <1>3 DEF Unstored
    <3> QED  BY <2>2, <3>1, <3>2 DEF Unstored
  <2>4. RunShape'
    BY <1>3, <2>3 DEF Account, RunShape
  <2>5. /\ paid' \in [Pair -> Nat] /\ paid'[p] = paid[p] + 1
        /\ \A x \in Pair \ {p} : paid'[x] = paid[x]
        /\ Counters'
    BY <1>2, <1>7 DEF Counters
  <2>6. ASSUME NEW x \in Pair, x # p
        PROVE  Paid(x)'
    <3>1. Holds(x)' = Holds(x)
      BY <2>3, <2>6 DEF Holds
    <3> QED  BY <1>2, <1>5, <1>7, <2>5, <2>6, <3>1, PaidAlready DEF Counters
  <2>7. Paid(p)'
    <3>1. CASE p \in DOMAIN proposals
      BY <1>2, <1>6, <1>7, <2>5, <3>1 DEF Paid, Account, Counters
    <3>2. CASE p \notin DOMAIN proposals
      <4>1. Holds(p)' = Holds(p) \cup {q} /\ q \notin Holds(p) /\ Holds(p) \in SUBSET Proposer
        BY <1>2, <2>3 DEF Holds
      <4>2. Cardinality(Holds(p)') = Cardinality(Holds(p)) + 1 /\ Cardinality(Holds(p)) \in Nat
        BY <4>1, RunsLessOne, RunsFinite
      <4> QED  BY <1>2, <1>7, <2>5, <3>2, <4>2 DEF Paid, Account, Counters
    <3> QED  BY <3>1, <3>2
  <2> QED  BY <1>2, <1>4, <2>4, <2>5, <2>6, <2>7 DEF Account
<1>8. CASE NoAnswer(q, p)
  <2>1. /\ faults' = faults + 1 /\ paid' \in {paid, [paid EXCEPT ![p] = @ + 1]}
        /\ run' = [run EXCEPT ![q].todo = @ \ {p}]
    BY <1>8 DEF NoAnswer
  <2>2. \A o \in Proposer : run'[o].kept = run[o].kept
    BY <2>1 DEF Account, Types, RunTypes
  <2>3. RunShape'
    BY <1>3, <2>2 DEF Account, RunShape, Unstored
  <2>4. /\ Counters' /\ paid'[p] \in paid[p]..(paid[p] + 1)
        /\ \A x \in Pair \ {p} : paid'[x] = paid[x]
    BY <1>2, <2>1 DEF Counters
  <2>5. ASSUME NEW x \in Pair, x # p
        PROVE  Paid(x)'
    <3>1. Holds(x)' = Holds(x)
      BY <2>2 DEF Holds, Unstored
    <3> QED  BY <1>2, <1>5, <2>1, <2>4, <2>5, <3>1, PaidAlready DEF Counters
  <2>6. Paid(p)'
    <3>1. Holds(p)' = Holds(p) /\ Cardinality(Holds(p)) \in Nat
      BY <2>2, RunsFinite DEF Holds, Unstored
    <3>2. CASE p \in DOMAIN proposals
      BY <1>2, <1>6, <2>1, <2>4, <3>2 DEF Paid, Account, Counters
    <3>3. CASE p \notin DOMAIN proposals
      BY <1>2, <2>1, <2>4, <3>1, <3>3 DEF Paid, Account, Counters
    <3> QED  BY <3>2, <3>3
  <2>7. \A x \in Pair : Paid(x)'
    BY <2>5, <2>6
  <2> QED  BY <1>2, <1>4, <2>3, <2>4, <2>7 DEF Account
<1> QED  BY <1>1, <1>7, <1>8

LEMMA SaveAccount ==
  ASSUME Account, Types', NEW q \in Proposer, SaveProposals(q)
  PROVE  Account'
<1>1. /\ UNCHANGED <<paid, faults, overlaps>> /\ run[q].todo = {}
      /\ Counters /\ Counters' /\ Cardinality(Busy) <= 1 + overlaps
  BY DEF SaveProposals, Account, Counters
<1>2. DOMAIN proposals' = DOMAIN proposals \cup Unstored(q)
  BY SaveEffect DEF Account, Unstored
<1>3. (\A o \in Proposer \ {q} : run'[o] = run[o]) /\ run'[q] = NoRun
  BY DEF SaveProposals, Account, Types, RunTypes
<1>4. RunShape'
  BY <1>3 DEF Account, RunShape, Unstored, NoRun
<1>5. \A p \in Pair : Owes(p)' = Owes(p)
  BY <1>1, <1>3 DEF Owes, NoRun
<1>6. Busy \in SUBSET Proposer /\ Cardinality(Busy) \in Nat
  BY RunsFinite DEF Busy
<1>7. Cardinality(Busy') <= 1 + overlaps'
  <2>1. Busy' \subseteq Busy
    BY <1>3 DEF Busy, NoRun
  <2>2. Cardinality(Busy') \in Nat /\ Cardinality(Busy') <= Cardinality(Busy)
    BY <1>6, <2>1, RunsFinite
  <2> QED  BY <1>1, <1>6, <2>2 DEF Counters
<1>8. ASSUME NEW p \in Pair
      PROVE  Paid(p)'
  <2>1. CASE p \in DOMAIN proposals
    BY <1>1, <1>2, <1>5, <2>1, PaidAlready DEF Counters
  <2>2. CASE p \notin DOMAIN proposals /\ p \notin Unstored(q)
    <3>1. Holds(p)' = Holds(p)
      BY <1>3, <2>2 DEF Holds, Unstored, NoRun
    <3> QED  BY <1>1, <1>2, <1>5, <2>2, <3>1, PaidAlready DEF Counters
  <2>3. CASE p \notin DOMAIN proposals /\ p \in Unstored(q)
    <3>1. paid[p] <= faults + Cardinality(Holds(p))
      BY <2>3 DEF Account, Paid
    <3>2. Cardinality(Owes(p)) + Cardinality(Holds(p)) <= Cardinality(Busy)
      BY RunsSplit DEF Account
    <3>3. Cardinality(Owes(p)) \in Nat /\ Cardinality(Holds(p)) \in Nat
      BY RunsFinite DEF Owes, Holds
    <3> QED  BY <1>1, <1>2, <1>5, <1>6, <2>3, <3>1, <3>2, <3>3 DEF Paid, Counters
  <2> QED  BY <2>1, <2>2, <2>3
<1> QED  BY <1>1, <1>4, <1>7, <1>8 DEF Account

\* A verdict stores no new proposal.
LEMMA VerdictStoresNone ==
  ASSUME NEW p \in DOMAIN proposals, NEW v \in Verdict, RecordVerdict(p, v)
  PROVE  DOMAIN proposals' = DOMAIN proposals
  BY DEF RecordVerdict

LEMMA AccountKept ==
  ASSUME Account, [Next]_vars
  PROVE  Account'
<1> USE DEF Account
<1>1. Types'
  BY TypesPreserved
<1>2. CASE UNCHANGED vars
  BY <1>1, <1>2, PaidUnchanged DEF vars, Counters
<1>3. CASE Extract
  <2>1. faults' \in Nat /\ faults' >= faults
    BY <1>3 DEF Extract, Counters
  <2> QED  BY <1>1, <1>3, <2>1, PaidUnchanged DEF Extract
<1>4. CASE ApplyLine
  <2>1. DOMAIN proposals' = DOMAIN proposals
    BY <1>4, VerdictStoresNone DEF ApplyLine
  <2> QED  BY <1>1, <1>4, <2>1, PaidUnchanged DEF ApplyLine, Counters
<1>5. ASSUME NEW r \in Reviewer, Decide(r)
      PROVE  Account'
  <2>1. DOMAIN proposals' = DOMAIN proposals
    BY <1>5, VerdictStoresNone DEF Decide, Types, SessionTypes
  <2> QED  BY <1>1, <1>5, <2>1, PaidUnchanged DEF Decide, Counters
<1>6. ASSUME NEW r \in Reviewer, Load(r) \/ Quit(r)
      PROVE  Account'
  BY <1>1, <1>6, PaidUnchanged DEF Load, Quit, Counters
<1>7. ASSUME NEW q \in Proposer,
             Embed(q) \/ FindCandidates(q) \/ Ask(q) \/ SaveProposals(q) \/ Die(q)
      PROVE  Account'
  BY <1>1, <1>7, EmbedAccount, FindAccount, AskAccount, SaveAccount, DieAccount
<1> QED  BY <1>2, <1>3, <1>4, <1>5, <1>6, <1>7 DEF Next

\* proposer.ts: a pair whose answer is stored is not asked about again.  For any number
\* of runs: one completion is paid for, one more for every run that died or completion
\* that said nothing, and one more for every run that began beside another.
THEOREM PairsAreAskedOnce == Spec => []AskedOnce
<1>1. Init => Account
  <2> SUFFICES ASSUME Init
               PROVE  Account
    OBVIOUS
  <2>1. Types /\ Counters /\ RunShape
    BY DEF Init, Types, ProposalTypes, RunTypes, SessionTypes, NoRun, Counters, RunShape, Unstored
  <2>2. Busy = {} /\ \A p \in Pair : Holds(p) = {}
    BY DEF Init, NoRun, Busy, Holds, Unstored
  <2>3. \A p \in Pair : paid[p] = 0 /\ p \notin DOMAIN proposals
    BY DEF Init
  <2>4. faults = 0 /\ overlaps = 0 /\ Cardinality({}) = 0
    BY FS_EmptySet DEF Init
  <2> QED  BY <2>1, <2>2, <2>3, <2>4 DEF Account, Paid
<1>2. Account /\ [Next]_vars => Account'
  BY AccountKept
<1>3. Account => AskedOnce
  <2> SUFFICES ASSUME Account, NEW p \in Pair
               PROVE  paid[p] <= 1 + faults + overlaps
    BY DEF AskedOnce
  <2>1. /\ Paid(p) /\ faults \in Nat /\ overlaps \in Nat /\ paid[p] \in Nat
        /\ Cardinality(Busy) <= 1 + overlaps
    BY DEF Account, Counters
  <2>2. /\ Cardinality(Owes(p)) \in Nat /\ Cardinality(Holds(p)) \in Nat
        /\ Cardinality(Busy) \in Nat
    BY RunsFinite DEF Owes, Holds, Busy
  <2>3. Cardinality(Owes(p)) + Cardinality(Holds(p)) <= Cardinality(Busy)
    BY RunsSplit DEF Account
  <2> QED  BY <2>1, <2>2, <2>3 DEF Paid
<1> QED  BY <1>1, <1>2, <1>3, PTL DEF Spec

-----------------------------------------------------------------------------
(* What is extracted holds *)

\* The catalog is of one family.
CatalogTyped == \E family \in Families : catalog \in [1..Rows -> family]

\* A row is a question as RelationsAssumption has them.
LEMMA CatalogFacts ==
  ASSUME CatalogTyped
  PROVE  /\ Extraction!Position = 1..Rows
         /\ \A i \in Extraction!Position :
              LET m == Extraction!At(i)
              IN /\ m.threshold \in Int /\ m.end \in Nat /\ m.phrase \in Nat
                 /\ m.negations \in [Clause -> STRING]
  BY RelationsAssumption DEF CatalogTyped, Extraction!Position, Extraction!At

\* An edge of a ladder is from the rung that claims more to the one that claims less,
LEMMA LadderEdgeFacts ==
  ASSUME CatalogTyped, NEW e \in Extraction!LadderEdges
  PROVE  \E i, k \in Extraction!Position :
           LET a == Extraction!At(i)
               b == Extraction!At(k)
           IN /\ e = <<i, k, "implies">>
              /\ Extraction!IsRung(a) /\ Extraction!LadderKey(a) = Extraction!LadderKey(b)
              /\ IF Extraction!Direction(a) = "gt" THEN a.threshold > b.threshold
                                                  ELSE a.threshold < b.threshold
<1> DEFINE R(i) == Extraction!Ladder(i)
           Pairs(i) == Extraction!Adjacent(R(i), Extraction!Thresholds)
<1>1. PICK i \in Extraction!Position : \E p \in Extraction!LadderPairs(R(i), Pairs(i)) :
        e = <<p[1], p[2], "implies">>
  BY DEF Extraction!LadderEdges
<1>10. PICK p \in Extraction!LadderPairs(R(i), Pairs(i)) : e = <<p[1], p[2], "implies">>
  BY <1>1
<1>2. PICK q \in Pairs(i) :
        /\ Extraction!At(q[1]).threshold # Extraction!At(q[2]).threshold
        /\ p = IF Extraction!Direction(Extraction!At(q[1])) = "gt" THEN <<q[2], q[1]>> ELSE q
  BY <1>10 DEF Extraction!LadderPairs
<1>3. /\ q \in R(i) \X R(i)
      /\ Extraction!Before(Extraction!Thresholds, q[1], q[2])
  BY <1>2 DEF Extraction!Adjacent
<1>4. q[1] \in Extraction!Position /\ q[2] \in Extraction!Position
  BY <1>3 DEF Extraction!Ladder
<1>5. Extraction!At(q[1]).threshold < Extraction!At(q[2]).threshold
  BY <1>2, <1>3, <1>4, CatalogFacts DEF Extraction!Before, Extraction!Thresholds
<1>6. /\ Extraction!IsRung(Extraction!At(q[1])) /\ Extraction!IsRung(Extraction!At(q[2]))
      /\ Extraction!LadderKey(Extraction!At(q[1])) = Extraction!LadderKey(Extraction!At(q[2]))
  BY <1>3 DEF Extraction!Ladder
<1>7. Extraction!Direction(Extraction!At(q[1])) = Extraction!Direction(Extraction!At(q[2]))
  BY <1>6 DEF Extraction!LadderKey
<1>8. CASE Extraction!Direction(Extraction!At(q[1])) = "gt"
  <2>1. e = <<q[2], q[1], "implies">>
    BY <1>10, <1>2, <1>8
  <2> QED  BY <1>4, <1>5, <1>6, <1>7, <1>8, <2>1, CatalogFacts
<1>9. CASE Extraction!Direction(Extraction!At(q[1])) # "gt"
  <2>1. e = <<q[1], q[2], "implies">>
    BY <1>10, <1>2, <1>9
  <2> QED  BY <1>4, <1>5, <1>6, <1>7, <1>9, <2>1, CatalogFacts
<1> QED  BY <1>8, <1>9

\* one of a chain from the earlier deadline to the later,
LEMMA TemporalEdgeFacts ==
  ASSUME CatalogTyped, NEW e \in Extraction!TemporalEdges
  PROVE  \E i, k \in Extraction!Position :
           LET a == Extraction!At(i)
               b == Extraction!At(k)
           IN /\ e = <<i, k, "implies">>
              /\ Extraction!IsDeadline(a) /\ Extraction!IsDeadline(b)
              /\ Extraction!ChainKey(a) = Extraction!ChainKey(b) /\ a.end < b.end
<1> DEFINE R(i) == Extraction!Chain(i)
           Pairs(i) == Extraction!Adjacent(R(i), Extraction!Ends)
<1>0. PICK i \in Extraction!Position : \E p \in Extraction!TemporalPairs(Pairs(i)) :
        e = <<p[1], p[2], "implies">>
  BY DEF Extraction!TemporalEdges
<1>1. PICK p \in Extraction!TemporalPairs(Pairs(i)) : e = <<p[1], p[2], "implies">>
  BY <1>0
<1>2. p \in Pairs(i) /\ Extraction!At(p[1]).end # Extraction!At(p[2]).end
  BY <1>1 DEF Extraction!TemporalPairs
<1>3. p \in R(i) \X R(i) /\ Extraction!Before(Extraction!Ends, p[1], p[2])
  BY <1>2 DEF Extraction!Adjacent
<1>4. p[1] \in Extraction!Position /\ p[2] \in Extraction!Position
  BY <1>3 DEF Extraction!Chain
<1>5. Extraction!At(p[1]).end < Extraction!At(p[2]).end
  BY <1>2, <1>3, <1>4, CatalogFacts DEF Extraction!Before, Extraction!Ends
<1> QED  BY <1>1, <1>3, <1>4, <1>5 DEF Extraction!Chain

\* The extraction's own Cardinality is the library's.
LEMMA SameCardinality == \A S : Extraction!Cardinality(S) = Cardinality(S)
  BY DEF Extraction!Cardinality, Cardinality

\* A claim is of a row.
LEMMA ClaimsOfPositions ==
  ASSUME NEW claim \in Extraction!Claims
  PROVE  \E j \in Extraction!Position :
           claim \in {j} \X Extraction!PositiveForms(Extraction!At(j))
<1> DEFINE F(j) == {j} \X Extraction!PositiveForms(Extraction!At(j))
<1> HIDE DEF F
<1>1. claim \in UNION {F(j) : j \in Extraction!Position}
  BY DEF Extraction!Claims, F
<1>2. \E j \in Extraction!Position : claim \in F(j)
  BY <1>1
<1> QED  BY <1>2 DEF F

\* and a complement is of a question and one of its positive forms.
LEMMA ComplementEdgeFacts ==
  ASSUME NEW e \in Extraction!ComplementEdges
  PROVE  \E i, k \in Extraction!Position :
           /\ e = <<i, k, "complement">> \/ e = <<k, i, "complement">>
           /\ Extraction!Text(Extraction!At(i)) = Extraction!Text(Extraction!At(k))
           /\ Extraction!At(k).negations \in Extraction!PositiveForms(Extraction!At(i))
<1>1. PICK claim \in Extraction!Claims : e = Extraction!Pairing(claim)
  BY DEF Extraction!ComplementEdges
<1> DEFINE i == claim[1]
           C == Extraction!Counterparts(Extraction!At(i), claim[2])
           k == CHOOSE c \in C : TRUE
<1>2. /\ i \in Extraction!Position /\ claim[2] \in Extraction!PositiveForms(Extraction!At(i))
      /\ Cardinality(C) = 1
  <2>1. PICK j \in Extraction!Position : claim \in {j} \X Extraction!PositiveForms(Extraction!At(j))
    BY ClaimsOfPositions
  <2>2. Cardinality(C) = 1
    BY SameCardinality DEF Extraction!Claims
  <2> QED  BY <2>1, <2>2
<1>3. C # {}
  BY <1>2, FS_EmptySet
<1>4. k \in C
  BY <1>3
<1>5. e = <<i, k, "complement">> \/ e = <<k, i, "complement">>
  BY <1>1 DEF Extraction!Pairing
<1> QED  BY <1>2, <1>4, <1>5 DEF Extraction!Counterparts

-----------------------------------------------------------------------------
\* A value beyond a threshold is beyond every weaker one of the same direction.
LEMMA BeyondWeaker ==
  ASSUME NEW m, NEW n, NEW v \in Int, m.threshold \in Int, n.threshold \in Int,
         Extraction!Direction(m) # "refused", Extraction!Direction(m) = Extraction!Direction(n),
         IF Extraction!Direction(m) = "gt" THEN m.threshold > n.threshold
                                          ELSE m.threshold < n.threshold,
         Extraction!Beyond(m, v)
  PROVE  Extraction!Beyond(n, v)
<1> USE DEF Extraction!Direction, Extraction!Comparators, Extraction!FromCriteria,
            Extraction!Beyond, Extraction!Asks
<1>1. Extraction!Direction(m) \in {"gt", "lt"}
  OBVIOUS
<1>2. CASE Extraction!Direction(m) = "gt"
  <2>1. v >= m.threshold
    BY <1>2
  <2> QED  BY <1>2, <2>1
<1>3. CASE Extraction!Direction(m) = "lt"
  <2>1. v <= m.threshold
    BY <1>3
  <2> QED  BY <1>3, <2>1
<1> QED  BY <1>1, <1>2, <1>3

\* A world measures numbers, and a clause is true in it or not.
LEMMA WorldTyped ==
  ASSUME NEW w \in Extraction!World
  PROVE  /\ \A t \in Time : w.value[t] \in Int
         /\ \A c \in Clause : w.truth[c] \in BOOLEAN
<1> DEFINE Q == Extraction!Quiet
<1>1. /\ DOMAIN Q = {"value", "happens", "truth"}
      /\ \A t \in Time : Q.value[t] = 0
      /\ \A c \in Clause : Q.truth[c] = FALSE
  BY DEF Extraction!Quiet
<1> HIDE DEF Q
<1>2. CASE \E v \in [Time -> Value] : w = [Q EXCEPT !.value = v]
  BY <1>1, <1>2, RelationsAssumption
<1>3. CASE \E h \in SUBSET Time : w = [Q EXCEPT !.happens = h]
  <2>1. PICK h \in SUBSET Time : w = [Q EXCEPT !.happens = h]
    BY <1>3
  <2>2. w.value = Q.value /\ w.truth = Q.truth
    BY <1>1, <2>1
  <2>3. \A t \in Time : w.value[t] \in Int
    BY <1>1, <2>2
  <2>4. \A c \in Clause : w.truth[c] \in BOOLEAN
    BY <1>1, <2>2
  <2> QED  BY <2>3, <2>4
<1>4. CASE \E u \in [Clause -> BOOLEAN] : w = [Q EXCEPT !.truth = u]
  BY <1>1, <1>4
<1> QED  BY <1>2, <1>3, <1>4 DEF Extraction!World, Q

\* An affirmed question holds if what it measures does, for every clause it has.
LEMMA AffirmedMonotone ==
  ASSUME NEW a, NEW b, NEW w \in Extraction!World, a.negations = b.negations,
         Extraction!Affirmed(a), Extraction!Holds(a, w),
         \A c \in Clause : Extraction!IsTrue(a, c, w) => Extraction!IsTrue(b, c, w),
         \A c \in Clause : Extraction!IsTrue(b, c, w) \in BOOLEAN
  PROVE  Extraction!Holds(b, w)
  BY DEF Extraction!Affirmed, Extraction!Holds

LEMMA TruthIsBoolean ==
  ASSUME NEW m, NEW w \in Extraction!World, NEW c \in Clause
  PROVE  Extraction!IsTrue(m, c, w) \in BOOLEAN
  BY WorldTyped DEF Extraction!IsTrue

\* What PlainEdgesHold says of an edge.
Plain(e) ==
  LET a == Extraction!At(e[1])
      b == Extraction!At(e[2])
  IN /\ (a.form \in Extraction!Touch) = (b.form \in Extraction!Touch)
     /\ Extraction!Asks(a) = Extraction!Asks(b)
     /\ IF e[3] = "implies" THEN Extraction!Affirmed(a)
                            ELSE Extraction!OneClause(a) /\ Extraction!When(a) = Extraction!When(b)
     => Extraction!EdgeHolds(e)

\* Each extractor in turn: what a question measures carries over along an edge.
LEMMA LadderEdgesPlain ==
  ASSUME CatalogTyped, NEW e \in Extraction!LadderEdges
  PROVE  Plain(e)
<1>1. PICK i \in Extraction!Position, k \in Extraction!Position :
        LET a == Extraction!At(i)
            b == Extraction!At(k)
        IN /\ e = <<i, k, "implies">>
           /\ Extraction!IsRung(a) /\ Extraction!LadderKey(a) = Extraction!LadderKey(b)
           /\ IF Extraction!Direction(a) = "gt" THEN a.threshold > b.threshold
                                               ELSE a.threshold < b.threshold
  BY LadderEdgeFacts
<1> DEFINE a == Extraction!At(i)
           b == Extraction!At(k)
<1>2. /\ a.threshold \in Int /\ b.threshold \in Int
      /\ a.negations = b.negations /\ a.prep = b.prep /\ a.phrase = b.phrase /\ a.end = b.end
      /\ Extraction!Direction(a) # "refused" /\ Extraction!Direction(a) = Extraction!Direction(b)
  BY <1>1, CatalogFacts DEF Extraction!IsRung, Extraction!LadderKey
<1>3. IF Extraction!Direction(a) = "gt" THEN a.threshold > b.threshold
                                       ELSE a.threshold < b.threshold
  BY <1>1
<1> HIDE DEF a, b
<1> SUFFICES ASSUME (a.form \in Extraction!Touch) = (b.form \in Extraction!Touch),
                    Extraction!Affirmed(a), NEW w \in Extraction!World, Extraction!Holds(a, w)
             PROVE  Extraction!Holds(b, w)
  BY <1>1 DEF Plain, Extraction!EdgeHolds, a, b
<1>4. Extraction!Times(a) = Extraction!Times(b)
  BY <1>2 DEF Extraction!Times, Extraction!When
<1>5. Extraction!Asks(a) # "event" /\ Extraction!Asks(b) # "event"
  BY <1>2 DEF Extraction!Asks, Extraction!Direction, Extraction!FromCriteria, Extraction!Comparators
<1>6. ASSUME NEW c \in Clause, Extraction!IsTrue(a, c, w)
      PROVE  Extraction!IsTrue(b, c, w)
  <2>1. PICK t \in Extraction!Times(a) : Extraction!Beyond(a, w.value[t])
    BY <1>5, <1>6 DEF Extraction!IsTrue
  <2>2. w.value[t] \in Int
    BY <2>1, WorldTyped DEF Extraction!Times
  <2>3. Extraction!Beyond(b, w.value[t])
    BY <1>2, <1>3, <2>1, <2>2, BeyondWeaker
  <2> QED  BY <1>4, <1>5, <2>3 DEF Extraction!IsTrue
<1> QED  BY <1>2, <1>6, AffirmedMonotone, TruthIsBoolean

LEMMA TemporalEdgesPlain ==
  ASSUME CatalogTyped, NEW e \in Extraction!TemporalEdges
  PROVE  Plain(e)
<1>1. PICK i \in Extraction!Position, k \in Extraction!Position :
        LET a == Extraction!At(i)
            b == Extraction!At(k)
        IN /\ e = <<i, k, "implies">>
           /\ Extraction!IsDeadline(a) /\ Extraction!IsDeadline(b)
           /\ Extraction!ChainKey(a) = Extraction!ChainKey(b) /\ a.end < b.end
  BY TemporalEdgeFacts
<1> DEFINE a == Extraction!At(i)
           b == Extraction!At(k)
<1>2. /\ a.end \in Nat /\ b.end \in Nat /\ a.end < b.end /\ a.end # 0 /\ b.end # 0
      /\ a.prep = "by" /\ b.prep = "by"
      /\ a.negations = b.negations /\ a.form = b.form /\ a.threshold = b.threshold
  BY <1>1, CatalogFacts DEF Extraction!IsDeadline, Extraction!ChainKey
<1> HIDE DEF a, b
<1> SUFFICES ASSUME Extraction!Asks(a) = Extraction!Asks(b),
                    Extraction!Affirmed(a), NEW w \in Extraction!World, Extraction!Holds(a, w)
             PROVE  Extraction!Holds(b, w)
  BY <1>1 DEF Plain, Extraction!EdgeHolds, a, b
<1>3. Extraction!Times(a) \subseteq Extraction!Times(b)
  BY <1>2 DEF Extraction!Times, Extraction!When
<1>4. \A v : Extraction!Beyond(a, v) = Extraction!Beyond(b, v)
  BY <1>2 DEF Extraction!Beyond
<1>5. ASSUME NEW c \in Clause, Extraction!IsTrue(a, c, w)
      PROVE  Extraction!IsTrue(b, c, w)
  <2>1. CASE Extraction!Asks(a) # "event"
    BY <1>3, <1>4, <1>5, <2>1 DEF Extraction!IsTrue
  <2>2. CASE Extraction!Asks(a) = "event"
    BY <1>2, <1>3, <1>5, <2>2 DEF Extraction!IsTrue
  <2> QED  BY <2>1, <2>2
<1> QED  BY <1>2, <1>5, AffirmedMonotone, TruthIsBoolean

LEMMA ComplementEdgesPlain ==
  ASSUME CatalogTyped, NEW e \in Extraction!ComplementEdges
  PROVE  Plain(e)
<1>1. PICK i \in Extraction!Position, k \in Extraction!Position :
        /\ e = <<i, k, "complement">> \/ e = <<k, i, "complement">>
        /\ Extraction!Text(Extraction!At(i)) = Extraction!Text(Extraction!At(k))
        /\ Extraction!At(k).negations \in Extraction!PositiveForms(Extraction!At(i))
  BY ComplementEdgeFacts
<1> DEFINE a == Extraction!At(i)
           b == Extraction!At(k)
<1>2. /\ a.form = b.form /\ a.threshold = b.threshold /\ a.prep = b.prep
      /\ b.negations \in Extraction!PositiveForms(a) /\ a.negations \in [Clause -> STRING]
  BY <1>1, CatalogFacts DEF Extraction!Text
<1> HIDE DEF a, b
<1>3. PICK pattern \in Extraction!Patterns :
        /\ b.negations = [c \in Clause |-> IF a.negations[c] \in pattern THEN "plain"
                                           ELSE a.negations[c]]
        /\ b.negations # a.negations
  BY <1>2 DEF Extraction!PositiveForms
<1>4. PICK c \in Clause : a.negations[c] \in pattern
  BY <1>2, <1>3
<1>5. "absent" \notin pattern /\ "plain" \notin pattern
  BY DEF Extraction!Patterns
<1>6. \A d \in Clause : a.negations[d] = "absent" <=> b.negations[d] = "absent"
  BY <1>3, <1>5
<1>7. /\ a.negations[c] # "absent" /\ a.negations[c] # "plain"
      /\ b.negations[c] # "absent" /\ b.negations[c] = "plain"
  BY <1>3, <1>4, <1>5
<1>8. SUFFICES ASSUME Extraction!Asks(a) = Extraction!Asks(b),
                      Extraction!OneClause(a) \/ Extraction!OneClause(b),
                      Extraction!When(a) = Extraction!When(b), NEW w \in Extraction!World
               PROVE  Extraction!Holds(a, w) # Extraction!Holds(b, w)
  BY <1>1 DEF Plain, Extraction!EdgeHolds, a, b
<1>9. \A d \in Clause : a.negations[d] # "absent" <=> d = c
  BY <1>6, <1>7, <1>8 DEF Extraction!OneClause
<1>10. Extraction!IsTrue(a, c, w) = Extraction!IsTrue(b, c, w)
  <2>1. Extraction!Times(a) = Extraction!Times(b)
    BY <1>2, <1>8 DEF Extraction!Times
  <2>2. \A v : Extraction!Beyond(a, v) = Extraction!Beyond(b, v)
    BY <1>2, <1>8 DEF Extraction!Beyond
  <2> QED  BY <1>2, <1>8, <2>1, <2>2 DEF Extraction!IsTrue
<1>11. Extraction!Holds(a, w) = (FALSE = Extraction!IsTrue(a, c, w))
  BY <1>7, <1>9 DEF Extraction!Holds
<1>12. Extraction!Holds(b, w) = (TRUE = Extraction!IsTrue(b, c, w))
  BY <1>6, <1>7, <1>9 DEF Extraction!Holds
<1> QED  BY <1>10, <1>11, <1>12, TruthIsBoolean

-----------------------------------------------------------------------------
\* What the extractors find.
AllEdges == Extraction!LadderEdges \cup Extraction!TemporalEdges \cup Extraction!ComplementEdges

\* The catalog stays, and what is extracted is of it.
ExtractionInv ==
  part = "extraction" => CatalogTyped /\ (pc = "extracted" => edges = AllEdges)

\* The edges that would be extracted change with the catalog only.
LEMMA SameEdges ==
  ASSUME catalog' = catalog
  PROVE  AllEdges' = AllEdges
<1>1. /\ Extraction!Position' = Extraction!Position
      /\ \A i : Extraction!At(i)' = Extraction!At(i)
  BY DEF Extraction!Position, Extraction!At
<1>2. \A i : Extraction!Ladder(i)' = Extraction!Ladder(i) /\ Extraction!Chain(i)' = Extraction!Chain(i)
  BY <1>1 DEF Extraction!Ladder, Extraction!Chain
<1>3. Extraction!Thresholds' = Extraction!Thresholds /\ Extraction!Ends' = Extraction!Ends
  BY <1>1 DEF Extraction!Thresholds, Extraction!Ends
<1>4. \A rungs, pairs : Extraction!LadderPairs(rungs, pairs)' = Extraction!LadderPairs(rungs, pairs)
  BY <1>1 DEF Extraction!LadderPairs
<1>5. Extraction!LadderEdges' = Extraction!LadderEdges
  BY <1>1, <1>2, <1>3, <1>4 DEF Extraction!LadderEdges
<1>6. Extraction!TemporalEdges' = Extraction!TemporalEdges
  BY <1>1, <1>2, <1>3 DEF Extraction!TemporalEdges, Extraction!TemporalPairs
<1>7. \A m, form : Extraction!Counterparts(m, form)' = Extraction!Counterparts(m, form)
  BY <1>1 DEF Extraction!Counterparts
<1>8. Extraction!Claims' = Extraction!Claims
  BY <1>1, <1>7 DEF Extraction!Claims
<1>9. \A claim : Extraction!Pairing(claim)' = Extraction!Pairing(claim)
  <2> TAKE claim
  <2> DEFINE C == Extraction!Counterparts(Extraction!At(claim[1]), claim[2])
             b == CHOOSE k \in C : TRUE
  <2>1. C' = C
    BY <1>1 DEF Extraction!Counterparts
  <2>2. b' = b
    BY <2>1
  <2> HIDE DEF b
  <2>3. Extraction!Pairing(claim) = IF claim[1] <= b THEN <<claim[1], b, "complement">>
                                                     ELSE <<b, claim[1], "complement">>
    BY DEF Extraction!Pairing, b
  <2>4. Extraction!Pairing(claim)' = IF claim[1] <= b' THEN <<claim[1], b', "complement">>
                                                       ELSE <<b', claim[1], "complement">>
    BY DEF Extraction!Pairing, b
  <2> QED  BY <2>2, <2>3, <2>4
<1>10. Extraction!ComplementEdges' = Extraction!ComplementEdges
  BY <1>8, <1>9 DEF Extraction!ComplementEdges
<1> QED  BY <1>5, <1>6, <1>10 DEF AllEdges

LEMMA ExtractionInvariant == RelationsSpec => []ExtractionInv
<1>1. RelationsInit => ExtractionInv
  BY DEF RelationsInit, ExtractionInv, CatalogTyped, Extraction!Init
<1>2. ExtractionInv /\ [RelationsNext]_relationsVars => ExtractionInv'
  <2> SUFFICES ASSUME ExtractionInv, [RelationsNext]_relationsVars, part' = "extraction"
               PROVE  CatalogTyped' /\ (pc' = "extracted" => edges' = AllEdges')
    BY DEF ExtractionInv
  <2>1. part = "extraction" /\ catalog' = catalog /\ CatalogTyped
    BY DEF RelationsNext, relationsVars, extractionVars, ExtractionInv, Extraction!Next,
           Extraction!ExtractAll, Extraction!Build
  <2>2. CatalogTyped'
    BY <2>1 DEF CatalogTyped
  <2>3. pc' = "extracted" => edges' = AllEdges
    BY <2>1 DEF RelationsNext, relationsVars, extractionVars, ExtractionInv, Extraction!Next,
                Extraction!ExtractAll, Extraction!Build, AllEdges
  <2> QED  BY <2>1, <2>2, <2>3, SameEdges
<1> QED  BY <1>1, <1>2, PTL DEF RelationsSpec

\* ladders.ts, temporal.ts, complements.ts: the edges "are entailments, not guesses".
\* For any catalog and any values that can be measured, in every world: what a stored
\* edge claims is so, with the exceptions that PlainEdgesHold names.
THEOREM EdgesAreEntailments == RelationsSpec => []PlainEdgesHold
<1>1. ExtractionInv => PlainEdgesHold
  <2> SUFFICES ASSUME ExtractionInv, part = "extraction", pc = "extracted", NEW e \in edges
               PROVE  Plain(e)
    BY DEF PlainEdgesHold, Extraction!PlainEdgesHold, Plain
  <2>1. CatalogTyped /\ e \in AllEdges
    BY DEF ExtractionInv
  <2> QED  BY <2>1, LadderEdgesPlain, TemporalEdgesPlain, ComplementEdgesPlain DEF AllEdges
<1> QED  BY <1>1, ExtractionInvariant, PTL

-----------------------------------------------------------------------------
(* and is enough *)

\* Numbers have a least one.
LEMMA LeastExists ==
  ASSUME NEW T \in SUBSET Nat, T # {}
  PROVE  \E n \in T : \A m \in T : n <= m
<1> DEFINE R == OpToRel(<, Nat)
<1>1. \A x, y \in Nat : y < x => <<y, x>> \in R
  BY DEF OpToRel
<1>2. IsWellFoundedOn(R, Nat)
  BY NatLessThanWellFounded
<1> HIDE DEF R
<1>3. PICK n \in T : \A m \in T : <<m, n>> \notin R
  BY <1>2, WFMin
<1>4. ASSUME NEW m \in T
      PROVE  n <= m
  <2>1. n \in Nat /\ m \in Nat /\ ~(m < n)
    BY <1>1, <1>3
  <2> QED  BY <2>1
<1> QED  BY <1>4

\* Of finitely many things one measures least.
LEMMA MinimumExists ==
  ASSUME NEW T, IsFiniteSet(T), T # {}, NEW f, \A x \in T : f[x] \in Int
  PROVE  \E x \in T : \A y \in T : f[x] <= f[y]
<1> DEFINE Under(y) == {z \in T : f[z] < f[y]}
           N == {Cardinality(Under(y)) : y \in T}
<1>1. \A y \in T : IsFiniteSet(Under(y)) /\ Cardinality(Under(y)) \in Nat
  BY FS_Subset, FS_CardinalityType
<1>2. N \in SUBSET Nat /\ N # {}
  BY <1>1
<1>3. PICK n \in N : \A m \in N : n <= m
  BY <1>2, LeastExists
<1>4. PICK x \in T : n = Cardinality(Under(x))
  OBVIOUS
<1>5. ASSUME NEW y \in T, f[y] < f[x]
      PROVE  FALSE
  <2>1. Under(y) \subseteq Under(x) /\ y \in Under(x) /\ y \notin Under(y)
    BY <1>5
  <2>2. Cardinality(Under(y)) <= Cardinality(Under(x)) /\ Cardinality(Under(y)) # Cardinality(Under(x))
    BY <1>1, <2>1, FS_Subset
  <2>3. Cardinality(Under(x)) <= Cardinality(Under(y))
    BY <1>3, <1>4
  <2>4. Cardinality(Under(x)) \in Nat /\ Cardinality(Under(y)) \in Nat
    BY <1>1
  <2> HIDE DEF Under
  <2> QED  BY <2>2, <2>3, <2>4
<1> QED  BY <1>5

\* Between a rung and any higher one stands the next.
LEMMA NextRung ==
  ASSUME NEW R \in SUBSET Int, IsFiniteSet(R), NEW f, \A x \in R : f[x] \in Int,
         NEW x \in R, NEW z \in R, f[x] < f[z],
         \A i, k \in R : i # k => f[i] # f[k]
  PROVE  \E y \in R : <<x, y>> \in Extraction!Adjacent(R, f) /\ f[x] < f[y] /\ f[y] <= f[z]
<1> DEFINE T == {y \in R : f[x] < f[y]}
<1>1. PICK y \in T : \A u \in T : f[y] <= f[u]
  BY FS_Subset, MinimumExists
<1>2. Extraction!Before(f, x, y) /\ f[y] <= f[z]
  BY <1>1 DEF Extraction!Before
<1>3. ASSUME NEW k \in R, Extraction!Before(f, x, k), Extraction!Before(f, k, y)
      PROVE  FALSE
  <2>1. k # x /\ k # y
    BY <1>3 DEF Extraction!Before
  <2>2. f[x] < f[k] /\ f[k] < f[y]
    BY <1>3, <2>1 DEF Extraction!Before
  <2> QED  BY <1>1, <2>2
<1> QED  BY <1>1, <1>2, <1>3 DEF Extraction!Adjacent

\* From rung to next rung every higher one is reached,
LEMMA Upwards ==
  ASSUME NEW R \in SUBSET Int, IsFiniteSet(R), NEW f, \A x \in R : f[x] \in Int,
         NEW x \in R, NEW z \in R, f[x] < f[z],
         \A i, k \in R : i # k => f[i] # f[k],
         NEW S, x \in S, \A p \in Extraction!Adjacent(R, f) : p[1] \in S => p[2] \in S
  PROVE  z \in S
<1> DEFINE T == {y \in R \cap S : f[y] <= f[z]}
           g == [y \in T |-> 0 - f[y]]
<1>1. PICK y \in T : \A u \in T : g[y] <= g[u]
  <2>1. IsFiniteSet(T) /\ T # {} /\ \A u \in T : g[u] \in Int
    BY FS_Subset
  <2> HIDE DEF T, g
  <2> QED  BY <2>1, MinimumExists
<1>2. \A u \in T : f[u] <= f[y]
  BY <1>1
<1>3. ASSUME f[y] < f[z]
      PROVE  FALSE
  <2>1. PICK u \in R : <<y, u>> \in Extraction!Adjacent(R, f) /\ f[y] < f[u] /\ f[u] <= f[z]
    BY <1>3, NextRung
  <2>2. u \in T
    BY <2>1
  <2> QED  BY <1>2, <2>1, <2>2
<1> QED  BY <1>3

\* and every lower one the other way.
LEMMA Downwards ==
  ASSUME NEW R \in SUBSET Int, IsFiniteSet(R), NEW f, \A x \in R : f[x] \in Int,
         NEW x \in R, NEW z \in R, f[x] < f[z],
         \A i, k \in R : i # k => f[i] # f[k],
         NEW S, z \in S, \A p \in Extraction!Adjacent(R, f) : p[2] \in S => p[1] \in S
  PROVE  x \in S
<1> DEFINE U == R \ S
<1>1. \A p \in Extraction!Adjacent(R, f) : p[1] \in U => p[2] \in U
  BY DEF Extraction!Adjacent
<1>2. x \in U => z \in U
  BY <1>1, Upwards
<1> QED  BY <1>2

-----------------------------------------------------------------------------
\* A set that the edges of a ladder do not leave has, with a rung, the next one and so
\* all that follow.
LEMMA RungsConnected ==
  ASSUME CatalogTyped, edges = AllEdges,
         NEW i \in Extraction!Position, NEW k \in Extraction!Position,
         Extraction!IsRung(Extraction!At(i)), k \in Extraction!Ladder(i),
         Extraction!At(i).threshold < Extraction!At(k).threshold,
         \A x, y \in Extraction!Ladder(i) :
           x # y => Extraction!At(x).threshold # Extraction!At(y).threshold
  PROVE  IF Extraction!Direction(Extraction!At(i)) = "gt" THEN Extraction!Leads(k, i)
                                                         ELSE Extraction!Leads(i, k)
<1> DEFINE R == Extraction!Ladder(i)
           f == Extraction!Thresholds
<1>1. R \subseteq Extraction!Position /\ Extraction!Position = 1..Rows /\ i \in R
  BY CatalogFacts DEF Extraction!Ladder
<1>2. R \in SUBSET Int /\ IsFiniteSet(R)
  <2>1. IsFiniteSet(1..Rows) /\ Rows \in Int
    BY FS_Interval, RelationsAssumption
  <2> QED  BY <1>1, <2>1, FS_Subset
<1>3. \A x \in R : f[x] = Extraction!At(x).threshold /\ f[x] \in Int
  BY <1>1, CatalogFacts DEF Extraction!Thresholds
<1>4. \A x, y \in R : x # y => f[x] # f[y]
  BY <1>3
<1>5. f[i] < f[k]
  BY <1>1, <1>3
<1>6. \A x \in R : Extraction!Direction(Extraction!At(x)) = Extraction!Direction(Extraction!At(i))
  BY DEF Extraction!Ladder, Extraction!LadderKey
<1>7. ASSUME NEW p \in Extraction!Adjacent(R, f)
      PROVE  /\ p[1] \in R /\ p[2] \in R
             /\ (IF Extraction!Direction(Extraction!At(i)) = "gt" THEN <<p[2], p[1], "implies">>
                   ELSE <<p[1], p[2], "implies">>) \in edges
  <2>1. p \in R \X R /\ Extraction!Before(f, p[1], p[2])
    BY DEF Extraction!Adjacent
  <2>2. p[1] # p[2]
    BY <1>2, <1>3, <2>1 DEF Extraction!Before
  <2>3. Extraction!At(p[1]).threshold # Extraction!At(p[2]).threshold
    BY <2>1, <2>2
  <2>4. (IF Extraction!Direction(Extraction!At(i)) = "gt" THEN <<p[2], p[1]>> ELSE p)
          \in Extraction!LadderPairs(R, Extraction!Adjacent(R, f))
    BY <1>6, <2>1, <2>3 DEF Extraction!LadderPairs
  <2>5. \A q \in Extraction!LadderPairs(R, Extraction!Adjacent(R, f)) :
          <<q[1], q[2], "implies">> \in Extraction!LadderEdges
    BY DEF Extraction!LadderEdges
  <2>6. p = <<p[1], p[2]>>
    BY <2>1
  <2> HIDE DEF R, f
  <2> QED  BY <2>1, <2>4, <2>5, <2>6 DEF AllEdges
<1> HIDE DEF R, f
<1>8. CASE Extraction!Direction(Extraction!At(i)) = "gt"
  <2> SUFFICES ASSUME NEW S \in SUBSET Extraction!Position, k \in S,
                      \A e \in edges : e[3] = "implies" /\ e[1] \in S => e[2] \in S
               PROVE  i \in S
    BY <1>8 DEF Extraction!Leads
  <2>1. \A p \in Extraction!Adjacent(R, f) : p[2] \in S => p[1] \in S
    BY <1>7, <1>8
  <2>2. k \in R
    BY DEF R
  <2> QED  BY <1>1, <1>2, <1>3, <1>4, <1>5, <2>1, <2>2, Downwards
<1>9. CASE Extraction!Direction(Extraction!At(i)) # "gt"
  <2> SUFFICES ASSUME NEW S \in SUBSET Extraction!Position, i \in S,
                      \A e \in edges : e[3] = "implies" /\ e[1] \in S => e[2] \in S
               PROVE  k \in S
    BY <1>9 DEF Extraction!Leads
  <2>1. \A p \in Extraction!Adjacent(R, f) : p[1] \in S => p[2] \in S
    BY <1>7, <1>9
  <2>2. k \in R
    BY DEF R
  <2> QED  BY <1>1, <1>2, <1>3, <1>4, <1>5, <2>1, <2>2, Upwards
<1> QED  BY <1>8, <1>9

\* The same of a chain, where all edges go one way.
LEMMA DeadlinesConnected ==
  ASSUME CatalogTyped, edges = AllEdges,
         NEW i \in Extraction!Position, NEW k \in Extraction!Position,
         Extraction!IsDeadline(Extraction!At(i)), k \in Extraction!Chain(i),
         Extraction!At(i).end < Extraction!At(k).end,
         \A x, y \in Extraction!Chain(i) : x # y => Extraction!At(x).end # Extraction!At(y).end
  PROVE  Extraction!Leads(i, k)
<1> DEFINE R == Extraction!Chain(i)
           f == Extraction!Ends
<1>1. R \subseteq Extraction!Position /\ Extraction!Position = 1..Rows /\ i \in R
  BY CatalogFacts DEF Extraction!Chain
<1>2. R \in SUBSET Int /\ IsFiniteSet(R)
  <2>1. IsFiniteSet(1..Rows) /\ Rows \in Int
    BY FS_Interval, RelationsAssumption
  <2> QED  BY <1>1, <2>1, FS_Subset
<1>3. \A x \in R : f[x] = Extraction!At(x).end /\ f[x] \in Int
  BY <1>1, CatalogFacts DEF Extraction!Ends
<1>4. \A x, y \in R : x # y => f[x] # f[y]
  BY <1>3
<1>5. f[i] < f[k]
  BY <1>1, <1>3
<1>6. ASSUME NEW p \in Extraction!Adjacent(R, f)
      PROVE  <<p[1], p[2], "implies">> \in edges
  <2>1. p \in R \X R /\ Extraction!Before(f, p[1], p[2])
    BY DEF Extraction!Adjacent
  <2>2. p[1] # p[2]
    BY <1>2, <1>3, <2>1 DEF Extraction!Before
  <2>3. p \in Extraction!TemporalPairs(Extraction!Adjacent(R, f))
    BY <2>1, <2>2 DEF Extraction!TemporalPairs
  <2>4. \A q \in Extraction!TemporalPairs(Extraction!Adjacent(R, f)) :
          <<q[1], q[2], "implies">> \in Extraction!TemporalEdges
    BY DEF Extraction!TemporalEdges
  <2> QED  BY <2>3, <2>4 DEF AllEdges
<1>7. k \in R
  OBVIOUS
<1> HIDE DEF R, f
<1> SUFFICES ASSUME NEW S \in SUBSET Extraction!Position, i \in S,
                    \A e \in edges : e[3] = "implies" /\ e[1] \in S => e[2] \in S
             PROVE  k \in S
  BY DEF Extraction!Leads
<1>8. \A p \in Extraction!Adjacent(R, f) : p[1] \in S => p[2] \in S
  BY <1>6
<1> QED  BY <1>1, <1>2, <1>3, <1>4, <1>5, <1>7, <1>8, Upwards

\* ladders.ts: "adjacent edges already encode the full relation": in ladders and chains
\* of any length, without equal rungs, every two rungs are connected by edges.
THEOREM AdjacentEdgesAreEnough == RelationsSpec => []AdjacentIsEnough
<1>1. ExtractionInv => AdjacentIsEnough
  BY RungsConnected, DeadlinesConnected DEF ExtractionInv, AdjacentIsEnough, Extraction!AdjacentIsEnough
<1> QED  BY <1>1, ExtractionInvariant, PTL

-----------------------------------------------------------------------------
(* The screen *)

\* Until the screen, whatever has neither been quoted nor left out nor lost its midpoint
\* has one, or is still to be quoted; after it the feed is not looked at.
ScreenInv ==
  part = "check" =>
    /\ pc \in {"begun", "quoting"} => screened = <<>>
    /\ pc = "quoting" => \A m \in Check!Constrained(loaded) :
         m \in toQuote \/ m \in quoted \/ m \in omitted \/ m \in moved \/ Check!Mid(m) # Check!Null
    /\ Check!ScreenIsCurrent

\* One step of the check.
LEMMA ScreenStep ==
  ASSUME ScreenInv, part = "check", Check!Next
  PROVE  /\ pc' \in {"begun", "quoting"} => screened' = <<>>
         /\ pc' = "quoting" => \A m \in Check!Constrained(loaded') :
              \/ m \in toQuote' \/ m \in quoted' \/ m \in omitted' \/ m \in moved'
              \/ Check!Mid(m)' # Check!Null
         /\ Check!ScreenIsCurrent'
<1> USE DEF ScreenInv, Check!ScreenIsCurrent
<1>1. CASE Check!Load
  BY <1>1 DEF Check!Load, Check!Stale, Check!Mid
<1>2. CASE Check!RefreshQuotes
  BY <1>2 DEF Check!RefreshQuotes, Check!Mid
<1>3. CASE Check!FeedMoves
  BY <1>3 DEF Check!FeedMoves, Check!Mid
<1>4. CASE Check!Screen
  BY <1>4 DEF Check!Screen, Check!Mid
<1>5. CASE Check!FetchBooks \/ Check!Throw \/ Check!ConfirmOne
  BY <1>5 DEF Check!FetchBooks, Check!Throw, Check!ConfirmOne, Check!Mid
<1> QED  BY <1>1, <1>2, <1>3, <1>4, <1>5 DEF Check!Next

\* check.ts:132-136: "a fallback nobody refreshes is a fallback that fails when it is
\* finally needed"; the check refreshes what it asked the feed for and did not get.
\* For any constraints, markets, batches and moves of the feed: a price of the screen
\* was read in this check, or is a midpoint, or was one when the check began, or is of a
\* market the venue left out when this check asked about it.
THEOREM ScreenUsesFreshQuotes == RelationsSpec => []ScreenIsCurrent
<1>1. RelationsInit => ScreenInv
  BY DEF RelationsInit, ScreenInv, Check!Init, Check!ScreenIsCurrent
<1>2. ScreenInv /\ [RelationsNext]_relationsVars => ScreenInv'
  <2> SUFFICES ASSUME ScreenInv, [RelationsNext]_relationsVars, part' = "check"
               PROVE  ScreenInv'
    BY DEF ScreenInv
  <2>1. CASE UNCHANGED relationsVars
    BY <2>1 DEF relationsVars, checkVars, ScreenInv, Check!ScreenIsCurrent, Check!Mid, Check!Constrained
  <2>2. CASE RelationsNext
    <3>1. part = "check" /\ Check!Next
      BY <2>2 DEF RelationsNext
    <3> QED  BY <3>1, ScreenStep DEF ScreenInv
  <2> QED  BY <2>1, <2>2
<1>3. ScreenInv => ScreenIsCurrent
  BY DEF ScreenInv, ScreenIsCurrent
<1> QED  BY <1>1, <1>2, <1>3, PTL DEF RelationsSpec

-----------------------------------------------------------------------------
(* The graph: sequences *)

NoRepeat(s) == \A i, k \in DOMAIN s : s[i] = s[k] => i = k

\* The CHOOSE of Picked counts positions off in their order.
LEMMA Positions ==
  ASSUME NEW I, I \subseteq Nat, IsFiniteSet(I)
  PROVE  LET at(k) == CHOOSE i \in I : Cardinality({h \in I : h <= i}) = k
             N     == Cardinality(I)
         IN  /\ N \in Nat
             /\ \A k \in 1..N : at(k) \in I
             /\ \A i \in I : \E k \in 1..N : at(k) = i
             /\ \A k, l \in 1..N : at(k) = at(l) => k = l
<1> DEFINE UpTo(i) == {h \in I : h <= i}
           at(k) == CHOOSE i \in I : Cardinality(UpTo(i)) = k
           N == Cardinality(I)
           rank == [i \in I |-> Cardinality(UpTo(i))]
<1>1. N \in Nat /\ IsFiniteSet(1..N) /\ Cardinality(1..N) = N
  <2>1. N \in Nat
    BY FS_CardinalityType
  <2> HIDE DEF N
  <2> QED  BY <2>1, FS_Interval
<1>2. ASSUME NEW i \in I
      PROVE  IsFiniteSet(UpTo(i)) /\ Cardinality(UpTo(i)) \in 1..N
  <2>1. UpTo(i) \subseteq I /\ i \in UpTo(i)
    OBVIOUS
  <2>2. /\ IsFiniteSet(UpTo(i)) /\ Cardinality(UpTo(i)) <= N
        /\ Cardinality(UpTo(i)) \in Nat
    BY <2>1, FS_Subset, FS_CardinalityType
  <2>3. Cardinality(UpTo(i)) # 0
    BY <2>1, <2>2, FS_EmptySet
  <2> HIDE DEF UpTo, N
  <2> QED  BY <1>1, <2>2, <2>3
<1>3. ASSUME NEW i \in I, NEW j \in I, Cardinality(UpTo(i)) = Cardinality(UpTo(j)), j < i
      PROVE  FALSE
  <2>1. i \in Int /\ j \in Int /\ j < i /\ \A h \in I : h \in Int
    BY <1>3
  <2>2. \A h \in I : h <= j => h <= i
    BY <2>1
  <2>3. ~(i <= j) /\ i <= i
    BY <2>1
  <2>4. UpTo(j) \subseteq UpTo(i) /\ i \in UpTo(i) /\ i \notin UpTo(j)
    BY <2>2, <2>3
  <2>5. UpTo(i) = UpTo(j)
    BY <1>2, <1>3, <2>4, FS_Subset
  <2> QED  BY <2>4, <2>5
<1>4. \A i, j \in I : Cardinality(UpTo(i)) = Cardinality(UpTo(j)) => i = j
  BY <1>3
<1> HIDE DEF UpTo
<1>5. rank \in Injection(I, 1..N)
  <2> HIDE DEF N
  <2>1. rank \in [I -> 1..N]
    BY <1>2
  <2> QED  BY <1>4, <2>1 DEF Injection, IsInjective
<1>6. rank \in Surjection(I, 1..N)
  BY <1>1, <1>5, FS_Injection
<1>7. \A k \in 1..N : \E i \in I : Cardinality(UpTo(i)) = k
  BY <1>6 DEF Surjection
<1>8. \A k \in 1..N : at(k) \in I /\ Cardinality(UpTo(at(k))) = k
  BY <1>7
<1>9. ASSUME NEW i \in I
      PROVE  \E k \in 1..N : at(k) = i
  <2> DEFINE k == Cardinality(UpTo(i))
  <2>1. k \in 1..N
    BY <1>2
  <2>2. at(k) = i
    BY <1>4, <1>8, <2>1
  <2> QED  BY <2>1, <2>2
<1>10. \A k, l \in 1..N : at(k) = at(l) => k = l
  BY <1>8
<1> HIDE DEF at, N
<1>11. /\ N \in Nat
       /\ \A k \in 1..N : at(k) \in I
       /\ \A i \in I : \E k \in 1..N : at(k) = i
       /\ \A k, l \in 1..N : at(k) = at(l) => k = l
  BY <1>1, <1>8, <1>9, <1>10
<1> QED  BY <1>11 DEF at, N, UpTo

\* What is picked is what is at the positions, once if it is there once.
LEMMA PickedFacts ==
  ASSUME NEW S, NEW s \in Seq(S), NEW I \in SUBSET DOMAIN s
  PROVE  /\ Picked(s, I) \in Seq(S)
         /\ Members(Picked(s, I)) = {s[i] : i \in I}
         /\ (\A i, k \in I : s[i] = s[k] => i = k) => NoRepeat(Picked(s, I))
<1> DEFINE at(k) == CHOOSE i \in I : Cardinality({h \in I : h <= i}) = k
           N == Cardinality(I)
<1>1. I \subseteq Nat /\ IsFiniteSet(I)
  <2>1. DOMAIN s = 1..Len(s) /\ Len(s) \in Nat
    OBVIOUS
  <2>2. IsFiniteSet(DOMAIN s)
    BY <2>1, FS_Interval
  <2> QED  BY <2>1, <2>2, FS_Subset
<1>2. /\ N \in Nat
      /\ \A k \in 1..N : at(k) \in I
      /\ \A i \in I : \E k \in 1..N : at(k) = i
      /\ \A k, l \in 1..N : at(k) = at(l) => k = l
  BY <1>1, Positions
<1>3. Picked(s, I) = [k \in 1..N |-> s[at(k)]]
  BY DEF Picked
<1> HIDE DEF at, N
<1>4. \A i \in I : s[i] \in S
  OBVIOUS
<1>5. Picked(s, I) \in Seq(S)
  BY <1>2, <1>3, <1>4
<1>6. DOMAIN Picked(s, I) = 1..N
  BY <1>3
<1>7. Members(Picked(s, I)) = {s[i] : i \in I}
  BY <1>2, <1>3, <1>6 DEF Members
<1>8. ASSUME \A i, k \in I : s[i] = s[k] => i = k
      PROVE  NoRepeat(Picked(s, I))
  BY <1>2, <1>3, <1>6, <1>8 DEF NoRepeat
<1> QED  BY <1>5, <1>7, <1>8

\* Those of a sequence are its elements in the set.
LEMMA ThoseFacts ==
  ASSUME NEW S, NEW s \in Seq(S), NEW T
  PROVE  /\ Those(s, T) \in Seq(S) /\ Those(s, T) \in Seq(Members(s) \cap T)
         /\ Members(Those(s, T)) = Members(s) \cap T
         /\ NoRepeat(s) => NoRepeat(Those(s, T))
<1> DEFINE I == {i \in DOMAIN s : s[i] \in T}
<1>1. Those(s, T) = Picked(s, I)
  BY DEF Those
<1>2. {s[i] : i \in I} = Members(s) \cap T
  BY DEF Members
<1>3. NoRepeat(s) => \A i, k \in I : s[i] = s[k] => i = k
  BY DEF NoRepeat
<1>4. I \in SUBSET DOMAIN s
  OBVIOUS
<1> HIDE DEF I
<1>5. /\ Those(s, T) \in Seq(S)
      /\ Members(Those(s, T)) = Members(s) \cap T
      /\ NoRepeat(s) => NoRepeat(Those(s, T))
  BY <1>1, <1>2, <1>3, <1>4, PickedFacts
<1>6. \A i \in DOMAIN Those(s, T) : Those(s, T)[i] \in Members(s) \cap T
  BY <1>5 DEF Members
<1>7. Those(s, T) \in Seq(Members(s) \cap T)
  BY <1>5, <1>6
<1> QED  BY <1>5, <1>7

\* Distinct keeps every element, once.
LEMMA DistinctFacts ==
  ASSUME NEW S, NEW s \in Seq(S)
  PROVE  /\ Distinct(s) \in Seq(S)
         /\ Members(Distinct(s)) = Members(s)
         /\ NoRepeat(Distinct(s))
<1> DEFINE I == {i \in DOMAIN s : \A k \in 1..(i - 1) : s[k] # s[i]}
<1>1. DOMAIN s = 1..Len(s) /\ Len(s) \in Nat
  OBVIOUS
<1>2. ASSUME NEW i \in DOMAIN s
      PROVE  \E k \in I : s[k] = s[i]
  <2> DEFINE T == {k \in DOMAIN s : s[k] = s[i]}
  <2>1. T \in SUBSET Nat /\ T # {}
    BY <1>1
  <2>2. PICK k \in T : \A l \in T : k <= l
    BY <2>1, LeastExists
  <2>3. \A l \in 1..(k - 1) : l \in DOMAIN s /\ ~(k <= l)
    BY <1>1
  <2>4. k \in I
    BY <2>2, <2>3
  <2> QED  BY <2>4
<1>3. {s[i] : i \in I} = Members(s)
  BY <1>2 DEF Members
<1>4. \A i, k \in I : s[i] = s[k] => i = k
  <2> SUFFICES ASSUME NEW i \in I, NEW k \in I, s[i] = s[k], i < k
               PROVE  FALSE
    BY <1>1
  <2>1. i \in 1..(k - 1)
    BY <1>1
  <2> QED  BY <2>1
<1>5. I \in SUBSET DOMAIN s
  OBVIOUS
<1>6. Distinct(s) = Picked(s, I)
  BY DEF Distinct
<1> HIDE DEF I
<1>7. /\ Picked(s, I) \in Seq(S)
      /\ Members(Picked(s, I)) = {s[i] : i \in I}
      /\ NoRepeat(Picked(s, I))
  BY <1>4, <1>5, PickedFacts
<1> QED  BY <1>3, <1>6, <1>7

\* Reversed has the elements of the sequence.
LEMMA ReversedFacts ==
  ASSUME NEW S, NEW s \in Seq(S)
  PROVE  /\ Reversed(s) \in Seq(S) /\ Len(Reversed(s)) = Len(s)
         /\ Members(Reversed(s)) = Members(s)
         /\ NoRepeat(s) => NoRepeat(Reversed(s))
<1>1. DOMAIN s = 1..Len(s) /\ Len(s) \in Nat
  OBVIOUS
<1>2. \A i \in DOMAIN s : Len(s) + 1 - i \in DOMAIN s /\ Len(s) + 1 - (Len(s) + 1 - i) = i
  BY <1>1
<1>3. DOMAIN Reversed(s) = DOMAIN s /\ \A i \in DOMAIN s : Reversed(s)[i] = s[Len(s) + 1 - i]
  BY DEF Reversed
<1>4. Reversed(s) \in Seq(S) /\ Len(Reversed(s)) = Len(s)
  BY <1>1, <1>2 DEF Reversed
<1>5. Members(Reversed(s)) = Members(s)
  <2>1. \A i \in DOMAIN s : Reversed(s)[Len(s) + 1 - i] = s[i]
    BY <1>2, <1>3
  <2> QED  BY <1>2, <1>3, <2>1 DEF Members
<1>6. NoRepeat(s) => NoRepeat(Reversed(s))
  <2> SUFFICES ASSUME NoRepeat(s), NEW i \in DOMAIN s, NEW k \in DOMAIN s,
                      Reversed(s)[i] = Reversed(s)[k]
               PROVE  i = k
    BY <1>3 DEF NoRepeat
  <2>1. Len(s) + 1 - i = Len(s) + 1 - k
    BY <1>2, <1>3 DEF NoRepeat
  <2> QED  BY <1>1, <2>1
<1> QED  BY <1>4, <1>5, <1>6

\* A sequence is its front and its last element.
LEMMA FrontFacts ==
  ASSUME NEW S, NEW s \in Seq(S), s # <<>>
  PROVE  /\ Front(s) \in Seq(S) /\ Len(Front(s)) = Len(s) - 1
         /\ \A i \in 1..(Len(s) - 1) : Front(s)[i] = s[i]
         /\ Len(s) \in DOMAIN s /\ Last(s) \in S
         /\ Members(s) = Members(Front(s)) \cup {Last(s)}
         /\ NoRepeat(s) => NoRepeat(Front(s)) /\ Last(s) \notin Members(Front(s))
<1>1. DOMAIN s = 1..Len(s) /\ Len(s) \in Nat \ {0}
  OBVIOUS
<1>2. /\ Front(s) \in Seq(S) /\ Len(Front(s)) = Len(s) - 1
      /\ \A i \in 1..(Len(s) - 1) : Front(s)[i] = s[i]
  BY <1>1 DEF Front
<1>3. Len(s) \in DOMAIN s /\ Last(s) \in S
  BY <1>1 DEF Last
<1>4. DOMAIN Front(s) = 1..(Len(s) - 1) /\ DOMAIN s = DOMAIN Front(s) \cup {Len(s)}
  BY <1>1, <1>2
<1>5. Members(s) = Members(Front(s)) \cup {Last(s)}
  BY <1>2, <1>4 DEF Members, Last
<1>6. NoRepeat(s) => NoRepeat(Front(s)) /\ Last(s) \notin Members(Front(s))
  BY <1>1, <1>2, <1>4 DEF Members, Last, NoRepeat
<1> QED  BY <1>2, <1>3, <1>5, <1>6

\* An element more at the end.
LEMMA AppendFacts ==
  ASSUME NEW S, NEW s \in Seq(S), NEW x
  PROVE  /\ Len(Append(s, x)) = Len(s) + 1 /\ Append(s, x)[Len(s) + 1] = x
         /\ DOMAIN Append(s, x) = 1..(Len(s) + 1)
         /\ \A i \in 1..Len(s) : Append(s, x)[i] = s[i]
         /\ Members(Append(s, x)) = Members(s) \cup {x}
         /\ NoRepeat(s) /\ x \notin Members(s) => NoRepeat(Append(s, x))
<1>1. DOMAIN s = 1..Len(s) /\ Len(s) \in Nat
  OBVIOUS
<1>2. /\ Len(Append(s, x)) = Len(s) + 1 /\ Append(s, x)[Len(s) + 1] = x
      /\ DOMAIN Append(s, x) = 1..(Len(s) + 1)
      /\ \A i \in 1..Len(s) : Append(s, x)[i] = s[i]
  OBVIOUS
<1>3. DOMAIN Append(s, x) = DOMAIN s \cup {Len(s) + 1}
  BY <1>1, <1>2
<1>4. Members(Append(s, x)) = Members(s) \cup {x}
  BY <1>1, <1>2, <1>3 DEF Members
<1>5. NoRepeat(s) /\ x \notin Members(s) => NoRepeat(Append(s, x))
  BY <1>1, <1>2, <1>3 DEF Members, NoRepeat
<1> QED  BY <1>2, <1>4, <1>5

\* The elements of two sequences, one after the other.
LEMMA ConcatFacts ==
  ASSUME NEW S, NEW s \in Seq(S), NEW t \in Seq(S)
  PROVE  /\ s \o t \in Seq(S)
         /\ Members(s \o t) = Members(s) \cup Members(t)
         /\ NoRepeat(s) /\ NoRepeat(t) /\ Members(s) \cap Members(t) = {} => NoRepeat(s \o t)
<1>1. DOMAIN s = 1..Len(s) /\ Len(s) \in Nat /\ DOMAIN t = 1..Len(t) /\ Len(t) \in Nat
  OBVIOUS
<1>2. /\ s \o t \in Seq(S) /\ DOMAIN (s \o t) = 1..(Len(s) + Len(t))
      /\ \A i \in DOMAIN s : (s \o t)[i] = s[i] /\ i \in DOMAIN (s \o t)
      /\ \A i \in DOMAIN t : (s \o t)[Len(s) + i] = t[i] /\ Len(s) + i \in DOMAIN (s \o t)
  BY <1>1
<1>3. ASSUME NEW k \in DOMAIN (s \o t), k \notin DOMAIN s
      PROVE  \E i \in DOMAIN t : k = Len(s) + i
  <2>1. k - Len(s) \in DOMAIN t /\ k = Len(s) + (k - Len(s))
    BY <1>1, <1>2, <1>3
  <2> QED  BY <2>1
<1>4. Members(s \o t) = Members(s) \cup Members(t)
  <2>1. ASSUME NEW i \in DOMAIN (s \o t)
        PROVE  (s \o t)[i] \in Members(s) \cup Members(t)
    BY <1>2, <1>3 DEF Members
  <2>2. ASSUME NEW i \in DOMAIN s
        PROVE  s[i] \in Members(s \o t)
    BY <1>2 DEF Members
  <2>3. ASSUME NEW i \in DOMAIN t
        PROVE  t[i] \in Members(s \o t)
    BY <1>2 DEF Members
  <2>4. Members(s \o t) \subseteq Members(s) \cup Members(t)
    BY <2>1 DEF Members
  <2>5. Members(s) \subseteq Members(s \o t) /\ Members(t) \subseteq Members(s \o t)
    BY <2>2, <2>3 DEF Members
  <2> QED  BY <2>4, <2>5
<1>5. ASSUME NoRepeat(s), NoRepeat(t), Members(s) \cap Members(t) = {}
      PROVE  NoRepeat(s \o t)
  <2>1. \A i \in DOMAIN s, k \in DOMAIN t : s[i] # t[k]
    BY <1>5 DEF Members
  <2> SUFFICES ASSUME NEW i \in DOMAIN (s \o t), NEW k \in DOMAIN (s \o t),
                      (s \o t)[i] = (s \o t)[k]
               PROVE  i = k
    BY DEF NoRepeat
  <2>2. CASE i \in DOMAIN s /\ k \in DOMAIN s
    BY <1>2, <1>5, <2>2 DEF NoRepeat
  <2>3. CASE i \in DOMAIN s /\ k \notin DOMAIN s
    BY <1>2, <1>3, <2>1, <2>3
  <2>4. CASE i \notin DOMAIN s /\ k \in DOMAIN s
    BY <1>2, <1>3, <2>1, <2>4
  <2>5. CASE i \notin DOMAIN s /\ k \notin DOMAIN s
    BY <1>2, <1>3, <1>5, <2>5 DEF NoRepeat
  <2> QED  BY <2>2, <2>3, <2>4, <2>5
<1> QED  BY <1>2, <1>4, <1>5

-----------------------------------------------------------------------------
(* The graph: its input *)

\* What build makes of the implications: markets without repetition, proper pairs of
\* them, and each one's neighbours.
GraphInput ==
  /\ implies \in Seq(Node \X Node)
  /\ \A e \in Members(implies) : e[1] # e[2]
  /\ nodes \in Seq(Node) /\ NoRepeat(nodes)
  /\ out \in [Node -> Seq(Node)]
  /\ \A n \in Node : Members(out[n]) = {m \in Node : <<n, m>> \in Members(implies)}

\* The elements of a sequence are finitely many, as many as its length if none is repeated.
LEMMA MembersFacts ==
  ASSUME NEW S, NEW s \in Seq(S)
  PROVE  /\ Members(s) \subseteq S /\ IsFiniteSet(Members(s))
         /\ s \in Seq(Members(s))
         /\ s = <<>> <=> Members(s) = {}
         /\ s # <<>> => Head(s) \in Members(s) /\ Last(s) \in Members(s)
         /\ Cardinality(Members(s)) <= Len(s)
         /\ NoRepeat(s) => Cardinality(Members(s)) = Len(s)
<1>1. DOMAIN s = 1..Len(s) /\ Len(s) \in Nat /\ IsFiniteSet(DOMAIN s) /\ Cardinality(DOMAIN s) = Len(s)
  <2>1. DOMAIN s = 1..Len(s) /\ Len(s) \in Nat
    OBVIOUS
  <2> QED  BY <2>1, FS_Interval
<1>2. s \in Surjection(DOMAIN s, Members(s))
  BY DEF Surjection, Members
<1>3. /\ IsFiniteSet(Members(s)) /\ Cardinality(Members(s)) <= Len(s)
      /\ Cardinality(Members(s)) = Len(s) <=> s \in Injection(DOMAIN s, Members(s))
  BY <1>1, <1>2, FS_Surjection
<1>4. NoRepeat(s) => s \in Injection(DOMAIN s, Members(s))
  BY DEF NoRepeat, Injection, IsInjective, Members
<1>5. s \in Seq(Members(s)) /\ Members(s) \subseteq S
  <2>1. \A i \in DOMAIN s : s[i] \in Members(s) /\ s[i] \in S
    BY <1>1 DEF Members
  <2>2. Members(s) \subseteq S
    BY <2>1 DEF Members
  <2>3. s \in Seq(Members(s))
    BY <1>1, <2>1
  <2> QED  BY <2>2, <2>3
<1>6. s = <<>> <=> Members(s) = {}
  <2>1. s # <<>> => 1 \in DOMAIN s
    BY <1>1
  <2>2. s = <<>> => DOMAIN s = {}
    OBVIOUS
  <2>3. Members(s) = {} <=> DOMAIN s = {}
    BY DEF Members
  <2> QED  BY <2>1, <2>2, <2>3
<1>7. s # <<>> => Head(s) \in Members(s) /\ Last(s) \in Members(s)
  BY <1>1 DEF Members, Last
<1> QED  BY <1>3, <1>4, <1>5, <1>6, <1>7

\* The neighbours of a node are where its edges lead.
LEMMA AdjacentFacts ==
  ASSUME NEW S, NEW arcs \in Seq(S \X S), NEW n
  PROVE  /\ Adjacent(arcs, n) \in Seq(S)
         /\ Members(Adjacent(arcs, n)) = {m \in S : <<n, m>> \in Members(arcs)}
<1> DEFINE own == Those(arcs, {e \in Members(arcs) : e[1] = n})
<1>1. own \in Seq(S \X S) /\ Members(own) = {e \in Members(arcs) : e[1] = n}
  <2>1. Members(own) = Members(arcs) \cap {e \in Members(arcs) : e[1] = n}
    BY ThoseFacts
  <2> QED  BY <2>1, ThoseFacts
<1>2. Adjacent(arcs, n) = [i \in DOMAIN own |-> own[i][2]]
  BY DEF Adjacent
<1> HIDE DEF own
<1>3. Adjacent(arcs, n) \in Seq(S)
  <2>1. DOMAIN own = 1..Len(own) /\ Len(own) \in Nat /\ \A i \in DOMAIN own : own[i] \in S \X S
    BY <1>1
  <2> QED  BY <1>2, <2>1
<1>4. Members(arcs) \subseteq S \X S
  BY MembersFacts
<1>5. ASSUME NEW m \in S, <<n, m>> \in Members(arcs)
      PROVE  m \in Members(Adjacent(arcs, n))
  <2>1. <<n, m>> \in Members(own)
    BY <1>1, <1>5
  <2>2. PICK i \in DOMAIN own : own[i] = <<n, m>>
    BY <2>1 DEF Members
  <2> QED  BY <1>2, <2>2 DEF Members
<1>6. ASSUME NEW i \in DOMAIN own
      PROVE  own[i][2] \in {m \in S : <<n, m>> \in Members(arcs)}
  <2>1. own[i] \in Members(own)
    BY DEF Members
  <2>2. own[i] \in S \X S /\ own[i][1] = n /\ own[i] \in Members(arcs)
    BY <1>1, <1>4, <2>1
  <2> QED  BY <2>2
<1>7. Members(Adjacent(arcs, n)) = {own[i][2] : i \in DOMAIN own}
  BY <1>2 DEF Members
<1> QED  BY <1>3, <1>5, <1>6, <1>7

\* The ends of the edges are each edge's two nodes, once.
LEMMA EndsFacts ==
  ASSUME NEW arcs, arcs \in Seq(Members(arcs)), \A e \in Members(arcs) : e = <<e[1], e[2]>>
  PROVE  /\ Ends(arcs) \in Seq(Members(Ends(arcs))) /\ NoRepeat(Ends(arcs))
         /\ arcs \in Seq(Members(Ends(arcs)) \X Members(Ends(arcs)))
<1> DEFINE s == [i \in 1..(2 * Len(arcs)) |-> arcs[(i + 1) \div 2][2 - (i % 2)]]
<1>1. DOMAIN arcs = 1..Len(arcs) /\ Len(arcs) \in Nat
  OBVIOUS
<1>2. s \in Seq(Members(s))
  <2>1. 2 * Len(arcs) \in Nat
    BY <1>1
  <2>2. \A i \in 1..(2 * Len(arcs)) : s[i] \in Members(s)
    BY DEF Members
  <2> QED  BY <2>1, <2>2
<1>3. ASSUME NEW j \in DOMAIN arcs
      PROVE  arcs[j][1] \in Members(s) /\ arcs[j][2] \in Members(s)
  <2>1. 2 * j - 1 \in 1..(2 * Len(arcs)) /\ 2 * j \in 1..(2 * Len(arcs))
    BY <1>1
  <2>2. /\ (2 * j - 1 + 1) \div 2 = j /\ 2 - ((2 * j - 1) % 2) = 1
        /\ (2 * j + 1) \div 2 = j /\ 2 - ((2 * j) % 2) = 2
    <3>1. j \in Int
      BY <1>1
    <3>2. (2 * j - 1 + 1) \div 2 = j
      BY <3>1
    <3>3. (2 * j + 1) \div 2 = j
      BY <3>1
    <3>4. (2 * j - 1) % 2 = 1
      BY <3>1
    <3>5. (2 * j) % 2 = 0
      BY <3>1
    <3> QED  BY <3>2, <3>3, <3>4, <3>5
  <2>3. s[2 * j - 1] = arcs[j][1] /\ s[2 * j] = arcs[j][2]
    BY <2>1, <2>2
  <2> QED  BY <2>1, <2>3 DEF Members
<1>4. Ends(arcs) = Distinct(s)
  BY DEF Ends
<1> HIDE DEF s
<1>5. /\ Distinct(s) \in Seq(Members(s)) /\ Members(Distinct(s)) = Members(s)
      /\ NoRepeat(Distinct(s))
  BY <1>2, DistinctFacts
<1>6. \A j \in DOMAIN arcs : arcs[j] \in Members(s) \X Members(s)
  <2>1. \A j \in DOMAIN arcs : arcs[j] = <<arcs[j][1], arcs[j][2]>>
    BY DEF Members
  <2> QED  BY <1>3, <2>1
<1>7. arcs \in Seq(Members(s) \X Members(s))
  BY <1>1, <1>6
<1> QED  BY <1>4, <1>5, <1>7

\* A graph begins as the comment on GraphInput says, whatever list it is built from,
LEMMA InputInit == GraphInit => GraphInput
<1> SUFFICES ASSUME GraphInit
             PROVE  GraphInput
  OBVIOUS
<1>1. PICK arcs \in Graphs : implies = Proper(arcs)
  BY DEF GraphInit
<1>2. arcs \in Seq(Members(arcs)) /\ \A e \in Members(arcs) : e = <<e[1], e[2]>>
  BY GraphsAssumption
<1>3. /\ implies \in Seq(Members(arcs))
      /\ Members(implies) = {e \in Members(arcs) : e[1] # e[2]}
  <2>1. Members(implies) = Members(arcs) \cap {e \in Members(arcs) : e[1] # e[2]}
    BY <1>1, <1>2, ThoseFacts DEF Proper
  <2> QED  BY <1>1, <1>2, <2>1, ThoseFacts DEF Proper
<1>4. implies \in Seq(Members(implies)) /\ \A e \in Members(implies) : e = <<e[1], e[2]>> /\ e[1] # e[2]
  BY <1>2, <1>3, MembersFacts
<1>5. nodes = Ends(implies)
  BY DEF GraphInit
<1>6. nodes \in Seq(Node) /\ NoRepeat(nodes) /\ implies \in Seq(Node \X Node)
  BY <1>4, <1>5, EndsFacts DEF Node
<1>7. out = [n \in Node |-> Adjacent(implies, n)]
  BY DEF GraphInit
<1>8. \A n \in Node : out[n] \in Seq(Node) /\ Members(out[n]) = {m \in Node : <<n, m>> \in Members(implies)}
  BY <1>6, <1>7, AdjacentFacts
<1> QED  BY <1>4, <1>6, <1>7, <1>8 DEF GraphInput

\* and nothing that build does changes its input.
LEMMA InputStep ==
  ASSUME GraphInput, [GraphNext]_graphVars
  PROVE  GraphInput' /\ Node' = Node /\ UNCHANGED input
<1>1. UNCHANGED input
  BY DEF GraphNext, graphVars, Root, Descend, Glance, Retreat, Reject, Keep, Dequeue, Sorted, Reduce, Built
<1>2. implies' = implies /\ nodes' = nodes /\ out' = out
  BY <1>1 DEF input
<1>3. Node' = Node /\ Members(implies)' = Members(implies) /\ NoRepeat(nodes)' = NoRepeat(nodes)
  BY <1>2 DEF Node, NoRepeat, Members
<1>4. \A n : Members(out[n])' = Members(out[n])
  BY <1>2 DEF Members
<1> QED  BY <1>1, <1>2, <1>3, <1>4 DEF GraphInput

\* The nodes are finitely many.
LEMMA NodeFinite ==
  ASSUME GraphInput
  PROVE  IsFiniteSet(Node) /\ Cardinality(Node) = Len(nodes)
BY MembersFacts DEF GraphInput, Node

-----------------------------------------------------------------------------
(* The graph: reachability *)

\* What is found by following any number of edges, none included.
Reaches(arcs, n, m) == \A S \in SUBSET Node : Closed(arcs, S) /\ n \in S => m \in S

\* Reaching is reflexive and transitive, and follows the edges.
LEMMA ReachesFacts ==
  ASSUME NEW arcs, arcs \subseteq Node \X Node, NEW n \in Node
  PROVE  /\ Reaches(arcs, n, n)
         /\ \A m \in Node : <<n, m>> \in arcs => Reaches(arcs, n, m)
         /\ \A m, k \in Node : Reaches(arcs, n, m) /\ Reaches(arcs, m, k) => Reaches(arcs, n, k)
         /\ \A m, k \in Node : Reaches(arcs, n, m) /\ <<m, k>> \in arcs => Reaches(arcs, n, k)
<1>1. ASSUME NEW S, Closed(arcs, S), NEW m \in S, NEW k, <<m, k>> \in arcs
      PROVE  k \in S
  BY <1>1 DEF Closed
<1> QED  BY <1>1 DEF Reaches

\* The first edge of a path.
LEMMA PathReaches ==
  ASSUME NEW arcs, arcs \subseteq Node \X Node, NEW n \in Node, NEW m \in Node
  PROVE  Path(arcs, n, m) <=> \E k \in Node : <<n, k>> \in arcs /\ Reaches(arcs, k, m)
<1>1. ASSUME Path(arcs, n, m)
      PROVE  \E k \in Node : <<n, k>> \in arcs /\ Reaches(arcs, k, m)
  <2> DEFINE T == {x \in Node : \E k \in Node : <<n, k>> \in arcs /\ Reaches(arcs, k, x)}
  <2>1. Closed(arcs, T)
    <3> SUFFICES ASSUME NEW e \in arcs, e[1] \in T
                 PROVE  e[2] \in T
      BY DEF Closed
    <3>1. e[1] \in Node /\ e[2] \in Node /\ <<e[1], e[2]>> \in arcs
      OBVIOUS
    <3>2. PICK k \in Node : <<n, k>> \in arcs /\ Reaches(arcs, k, e[1])
      OBVIOUS
    <3>3. Reaches(arcs, k, e[2])
      BY <3>1, <3>2, ReachesFacts
    <3> QED  BY <3>1, <3>2, <3>3
  <2>2. {k \in Node : <<n, k>> \in arcs} \subseteq T
    BY ReachesFacts
  <2>3. m \in T
    BY <1>1, <2>1, <2>2 DEF Path
  <2> QED  BY <2>3
<1>2. ASSUME NEW k \in Node, <<n, k>> \in arcs, Reaches(arcs, k, m)
      PROVE  Path(arcs, n, m)
  BY <1>2 DEF Path, Reaches
<1> QED  BY <1>1, <1>2

\* A path is what reaches another node, and begins a cycle if it comes back.
LEMMA PathFacts ==
  ASSUME NEW arcs, arcs \subseteq Node \X Node, \A e \in arcs : e[1] # e[2],
         NEW n \in Node, NEW m \in Node
  PROVE  /\ Reaches(arcs, n, m) <=> n = m \/ Path(arcs, n, m)
         /\ Path(arcs, n, m) /\ Reaches(arcs, m, n) => Path(arcs, n, n)
         /\ Path(arcs, n, n) /\ Reaches(arcs, n, m) => Path(arcs, n, m)
         /\ Path(arcs, n, n) <=> \E k \in Node \ {n} : Reaches(arcs, n, k) /\ Reaches(arcs, k, n)
<1>1. ASSUME NEW k \in Node, Path(arcs, n, k)
      PROVE  Reaches(arcs, n, k)
  BY <1>1, PathReaches, ReachesFacts
<1>2. ASSUME NEW k \in Node, NEW j \in Node, Path(arcs, n, k), Reaches(arcs, k, j)
      PROVE  Path(arcs, n, j)
  <2>1. PICK i \in Node : <<n, i>> \in arcs /\ Reaches(arcs, i, k)
    BY <1>2, PathReaches
  <2>2. Reaches(arcs, i, j)
    BY <1>2, <2>1, ReachesFacts
  <2> QED  BY <2>1, <2>2, PathReaches
<1>3. ASSUME NEW k \in Node, Reaches(arcs, n, k), k # n
      PROVE  Path(arcs, n, k)
  <2> DEFINE T == {x \in Node : x = n \/ Path(arcs, n, x)}
  <2>1. ASSUME NEW e \in arcs, e[1] \in T
        PROVE  e[2] \in T
    <3>1. e[1] \in Node /\ e[2] \in Node /\ <<e[1], e[2]>> \in arcs
      OBVIOUS
    <3>2. Reaches(arcs, e[2], e[2]) /\ Reaches(arcs, e[1], e[2])
      BY <3>1, ReachesFacts
    <3>3. Path(arcs, n, e[2])
      BY <1>2, <2>1, <3>1, <3>2, PathReaches
    <3> QED  BY <3>1, <3>3
  <2>2. Closed(arcs, T) /\ n \in T
    BY <2>1 DEF Closed
  <2>3. k \in T
    BY <1>3, <2>2 DEF Reaches
  <2> QED  BY <1>3, <2>3
<1>4. ASSUME Path(arcs, n, n)
      PROVE  \E k \in Node \ {n} : Reaches(arcs, n, k) /\ Reaches(arcs, k, n)
  <2>1. PICK k \in Node : <<n, k>> \in arcs /\ Reaches(arcs, k, n)
    BY <1>4, PathReaches
  <2>2. k # n
    BY <2>1
  <2> QED  BY <2>1, <2>2, ReachesFacts
<1>5. Reaches(arcs, n, n)
  BY ReachesFacts
<1> QED  BY <1>1, <1>2, <1>3, <1>4, <1>5

-----------------------------------------------------------------------------
(* The graph: Tarjan's walk *)

Implied == Members(implies)
Met     == {n \in Node : index[n] # None}
Stacked == Members(stack)
Framed  == {work[i].node : i \in DOMAIN work}
Done    == Met \ Stacked

\* The neighbours of a node that the walk has looked at: of a frame those before its
\* next one.
Looked(x) ==
  {y \in Members(out[x]) : \A i \in DOMAIN work :
     work[i].node = x => \E j \in 1..(work[i].next - 1) : out[x][j] = y}

\* A frame owns what was met since it was pushed and before the next frame was.
Owns(i, x) ==
  /\ index[work[i].node] <= index[x]
  /\ i < Len(work) => index[x] < index[work[i + 1].node]

\* The nodes that reach each other.
ClassOf(n) == {m \in Node : Reaches(Implied, n, m) /\ Reaches(Implied, m, n)}

WalkTypes ==
  /\ index \in [Node -> Nat \cup {None}] /\ low \in [Node -> Nat \cup {None}]
  /\ \A n \in Met : index[n] \in Nat /\ index[n] < Counter /\ low[n] \in Nat
  /\ stack \in Seq(Node)
  /\ work \in Seq([node : Node, next : Nat \ {0}])

\* The stack is in the order of the visits, and the frames are on it; nothing is below
\* the first one.
StackInv ==
  /\ Stacked \subseteq Met
  /\ \A i, k \in DOMAIN stack : i < k => index[stack[i]] < index[stack[k]]
  /\ Framed \subseteq Stacked
  /\ \A i, k \in DOMAIN work : i < k => index[work[i].node] < index[work[k].node]
  /\ work = <<>> => stack = <<>>
  /\ work # <<>> => \A x \in Stacked : index[work[1].node] <= index[x]

\* What has been looked at has been met; nothing leads out of what is done; the low of a
\* frame is no higher than anything on the stack that was seen from what it owns.
LookInv ==
  /\ \A x \in Met : Looked(x) \subseteq Met
  /\ \A x \in Done : Members(out[x]) \subseteq Done
  /\ \A i \in DOMAIN work, x \in Stacked : Owns(i, x) =>
       \A y \in Looked(x) \cap Stacked : low[work[i].node] <= index[y]

\* The low of a frame is the number of a node on the stack that it reaches.
LowInv ==
  \A i \in DOMAIN work :
    /\ low[work[i].node] <= index[work[i].node]
    /\ \E y \in Stacked : index[y] = low[work[i].node] /\ Reaches(Implied, work[i].node, y)

\* A frame reaches what is above it, and what is no longer a frame reaches below itself.
ReachInv ==
  /\ \A i \in DOMAIN work, x \in Stacked :
       index[work[i].node] <= index[x] => Reaches(Implied, work[i].node, x)
  /\ \A x \in Stacked \ Framed : \E y \in Stacked : index[y] < index[x] /\ Reaches(Implied, x, y)

\* What is done is its classes, of which those with a cycle are the components.
ComponentInv ==
  /\ components \in Seq(Seq(Node))
  /\ {Members(components[i]) : i \in DOMAIN components} =
       {ClassOf(n) : n \in {n \in Done : Path(Implied, n, n)}}

WalkInv == WalkTypes /\ StackInv /\ LookInv /\ LowInv /\ ReachInv /\ ComponentInv

-----------------------------------------------------------------------------

\* A node that was not met has no number.
LEMMA NoneIsNoNumber == None \notin Nat
  BY DEF None

\* The implications, as out has them.
LEMMA ImpliedFacts ==
  ASSUME GraphInput
  PROVE  /\ Implied \subseteq Node \X Node /\ \A e \in Implied : e[1] # e[2]
         /\ \A n \in Node : Members(out[n]) = {m \in Node : <<n, m>> \in Implied}
BY MembersFacts DEF GraphInput, Implied

\* A visit numbers a node higher than all that were met.
LEMMA VisitFacts ==
  ASSUME GraphInput, WalkTypes, NEW n \in Node \ Met, Visit(n), UNCHANGED input
  PROVE  /\ Counter \in Nat
         /\ index' \in [Node -> Nat \cup {None}] /\ low' \in [Node -> Nat \cup {None}]
         /\ index'[n] = Counter /\ low'[n] = Counter
         /\ \A x \in Node \ {n} : index'[x] = index[x] /\ low'[x] = low[x]
         /\ Met' = Met \cup {n}
         /\ \A x \in Met' : index'[x] \in Nat /\ index'[x] < Counter' /\ low'[x] \in Nat
         /\ \A x \in Met : index'[x] < Counter
<1>1. IsFiniteSet(Node) /\ Node' = Node
  BY NodeFinite DEF Node, Members, input
<1>2. IsFiniteSet(Met) /\ Counter = Cardinality(Met)
  BY <1>1, FS_Subset DEF Met, Counter
<1>3. Counter \in Nat
  BY <1>2, FS_CardinalityType
<1>4. /\ index' = [index EXCEPT ![n] = Counter] /\ low' = [low EXCEPT ![n] = Counter]
      /\ index \in [Node -> Nat \cup {None}] /\ low \in [Node -> Nat \cup {None}]
  BY DEF Visit, WalkTypes
<1>5. /\ index' \in [Node -> Nat \cup {None}] /\ low' \in [Node -> Nat \cup {None}]
      /\ index'[n] = Counter /\ low'[n] = Counter
      /\ \A x \in Node \ {n} : index'[x] = index[x] /\ low'[x] = low[x]
  BY <1>3, <1>4
<1>6. Counter # None
  BY <1>3, NoneIsNoNumber
<1>7. Met' = Met \cup {n}
  BY <1>1, <1>5, <1>6 DEF Met
<1>8. Counter' = Counter + 1
  <2>1. Counter' = Cardinality(Met')
    BY DEF Met, Counter
  <2>2. Cardinality(Met \cup {n}) = Cardinality(Met) + 1
    BY <1>2, FS_AddElement
  <2> QED  BY <1>2, <1>7, <2>1, <2>2
<1>9. \A x \in Met : index'[x] \in Nat /\ index'[x] < Counter /\ low'[x] \in Nat
  <2>1. Met \subseteq Node \ {n}
    BY DEF Met
  <2> QED  BY <1>5, <2>1 DEF WalkTypes
<1>10. \A x \in Met' : index'[x] \in Nat /\ index'[x] < Counter' /\ low'[x] \in Nat
  BY <1>3, <1>5, <1>7, <1>8, <1>9
<1> QED  BY <1>3, <1>5, <1>7, <1>9, <1>10

\* The frame on top, and what it becomes when its next neighbour is taken.
LEMMA FrameFacts ==
  ASSUME WalkTypes, work # <<>>
  PROVE  /\ Len(work) \in DOMAIN work /\ Len(work) \in Nat \ {0} /\ DOMAIN work = 1..Len(work)
         /\ Frame = work[Len(work)] /\ Frame.node \in Node /\ Frame.next \in Nat \ {0}
         /\ \A i \in DOMAIN work : work[i].node \in Node /\ work[i].next \in Nat \ {0}
         /\ Advanced \in Seq([node : Node, next : Nat \ {0}]) /\ Len(Advanced) = Len(work)
         /\ DOMAIN Advanced = DOMAIN work
         /\ \A i \in DOMAIN work : i # Len(work) => Advanced[i] = work[i]
         /\ \A i \in DOMAIN work : Advanced[i].node = work[i].node
         /\ Advanced[Len(work)].next = Frame.next + 1
<1>1. work \in Seq([node : Node, next : Nat \ {0}])
  BY DEF WalkTypes
<1>2. Len(work) \in DOMAIN work /\ Len(work) \in Nat \ {0} /\ DOMAIN work = 1..Len(work)
  BY <1>1
<1>3. Frame = work[Len(work)]
  BY DEF Frame, Last
<1> DEFINE R == [node : Node, next : Nat \ {0}]
<1>R. /\ \A r \in R : r.node \in Node /\ r.next \in Nat \ {0}
      /\ \A r \in R : LET q == [r EXCEPT !.next = r.next + 1] IN
           q \in R /\ q.node = r.node /\ q.next = r.next + 1
  OBVIOUS
<1>W. work \in Seq(R)
  BY <1>1
<1> HIDE DEF R
<1>I. \A i \in DOMAIN work : work[i] \in R
  BY <1>W
<1>4. \A i \in DOMAIN work : work[i].node \in Node /\ work[i].next \in Nat \ {0}
  BY <1>R, <1>I
<1>5. /\ DOMAIN Advanced = DOMAIN work
      /\ \A i \in DOMAIN work : i # Len(work) => Advanced[i] = work[i]
      /\ Advanced[Len(work)] = [work[Len(work)] EXCEPT !.next = work[Len(work)].next + 1]
  BY <1>1, <1>2 DEF Advanced
<1>7. /\ Advanced[Len(work)].node = work[Len(work)].node
      /\ Advanced[Len(work)].next = work[Len(work)].next + 1
      /\ Advanced[Len(work)] \in R
  BY <1>2, <1>5, <1>R, <1>I
<1>8. \A i \in DOMAIN work : Advanced[i] \in R
  BY <1>5, <1>7, <1>I
<1>9. Advanced \in Seq(R) /\ Len(Advanced) = Len(work)
  <2>2. Advanced = [i \in 1..Len(work) |-> Advanced[i]]
    BY <1>2, <1>5 DEF Advanced
  <2> QED  BY <1>2, <1>8, <2>2
<1> QED  BY <1>2, <1>3, <1>4, <1>5, <1>7, <1>9 DEF R

\* A stack cut at a node: below are the nodes with lower numbers.
LEMMA CutFacts ==
  ASSUME WalkTypes, StackInv, NEW n \in Stacked
  PROVE  LET bottom == CHOOSE i \in DOMAIN stack : stack[i] = n
             above  == Reversed(SubSeq(stack, bottom, Len(stack)))
             below  == SubSeq(stack, 1, bottom - 1)
         IN  /\ below \in Seq(Node) /\ above \in Seq(Node)
             /\ Members(below) = {x \in Stacked : index[x] < index[n]}
             /\ Members(above) = {x \in Stacked : index[n] <= index[x]}
             /\ Len(above) > 1 <=> \E x \in Members(above) : x # n
             /\ \A i, k \in DOMAIN below : i < k => index[below[i]] < index[below[k]]
<1> DEFINE b == CHOOSE i \in DOMAIN stack : stack[i] = n
           above == Reversed(SubSeq(stack, b, Len(stack)))
           below == SubSeq(stack, 1, b - 1)
           top == SubSeq(stack, b, Len(stack))
           L == Len(stack)
<1>1. b \in DOMAIN stack /\ stack[b] = n
  BY DEF Stacked, Members
<1> HIDE DEF b
<1>2. stack \in Seq(Node)
  BY DEF WalkTypes
<1>3. DOMAIN stack = 1..L /\ L \in Nat
  BY <1>2
<1>4. \A i \in DOMAIN stack : index[stack[i]] \in Nat
  BY DEF StackInv, WalkTypes, Stacked, Members
<1>5. \A i \in DOMAIN stack : i < b <=> index[stack[i]] < index[n]
  <2> SUFFICES ASSUME NEW i \in DOMAIN stack
               PROVE  i < b <=> index[stack[i]] < index[n]
    OBVIOUS
  <2>1. i < b => index[stack[i]] < index[n]
    BY <1>1 DEF StackInv
  <2>2. b < i => index[n] < index[stack[i]]
    BY <1>1 DEF StackInv
  <2>3. i < b \/ i = b \/ b < i
    BY <1>1, <1>3
  <2> QED  BY <1>1, <1>4, <2>1, <2>2, <2>3
<1>6. below \in Seq(Node) /\ DOMAIN below = 1..(b - 1) /\ \A i \in 1..(b - 1) : below[i] = stack[i]
  BY <1>1, <1>2, <1>3
<1>7. /\ top \in Seq(Node) /\ Len(top) = L - b + 1 /\ DOMAIN top = 1..(L - b + 1)
      /\ \A i \in 1..(L - b + 1) : top[i] = stack[b + i - 1]
  BY <1>1, <1>2, <1>3
<1> HIDE DEF below, top
<1>8. above \in Seq(Node) /\ Len(above) = L - b + 1 /\ Members(above) = Members(top)
  BY <1>7, ReversedFacts DEF top
<1>9. Members(below) = {x \in Stacked : index[x] < index[n]}
  <2>1. \A i \in 1..(b - 1) : i \in DOMAIN stack /\ i < b
    BY <1>1, <1>3
  <2>2. \A i \in DOMAIN stack : i < b => i \in 1..(b - 1)
    BY <1>1, <1>3
  <2> QED  BY <1>5, <1>6, <2>1, <2>2 DEF Members, Stacked
<1>10. Members(above) = {x \in Stacked : index[n] <= index[x]}
  <2>1. \A i \in 1..(L - b + 1) : b + i - 1 \in DOMAIN stack /\ ~(b + i - 1 < b)
    BY <1>1, <1>3
  <2>2. \A i \in DOMAIN stack : ~(i < b) => i - b + 1 \in 1..(L - b + 1) /\ b + (i - b + 1) - 1 = i
    BY <1>1, <1>3
  <2>3. \A i \in DOMAIN stack : ~(i < b) <=> index[n] <= index[stack[i]]
    BY <1>1, <1>4, <1>5
  <2>4. ASSUME NEW i \in DOMAIN top
        PROVE  top[i] \in Stacked /\ index[n] <= index[top[i]]
    BY <1>7, <2>1, <2>3 DEF Stacked, Members
  <2>5. ASSUME NEW x \in Stacked, index[n] <= index[x]
        PROVE  x \in Members(top)
    <3>1. PICK i \in DOMAIN stack : stack[i] = x
      BY DEF Stacked, Members
    <3>2. i - b + 1 \in DOMAIN top /\ top[i - b + 1] = x
      BY <1>7, <2>2, <2>3, <2>5, <3>1
    <3> QED  BY <3>2 DEF Members
  <2>6. Members(top) = {x \in Stacked : index[n] <= index[x]}
    BY <2>4, <2>5 DEF Members
  <2> QED  BY <1>8, <2>6
<1>11. Len(above) > 1 <=> \E x \in Members(above) : x # n
  <2>1. ASSUME Len(above) > 1
        PROVE  \E x \in Members(above) : x # n
    <3>1. 2 \in DOMAIN top /\ top[2] = stack[b + 1] /\ b < b + 1 /\ b + 1 \in DOMAIN stack
      BY <1>1, <1>3, <1>7, <1>8, <2>1
    <3>2. index[n] < index[stack[b + 1]]
      BY <1>1, <3>1 DEF StackInv
    <3>3. stack[b + 1] # n
      BY <1>1, <1>4, <3>1, <3>2
    <3> QED  BY <1>8, <3>1, <3>3 DEF Members
  <2>2. ASSUME NEW x \in Members(above), x # n
        PROVE  Len(above) > 1
    <3>1. PICK i \in DOMAIN top : top[i] = x
      BY <1>8 DEF Members
    <3>2. i # 1
      <4>1. b + 1 - 1 = b /\ 1 \in 1..(L - b + 1)
        BY <1>1, <1>3
      <4>2. top[1] = n
        BY <1>1, <1>7, <4>1
      <4> QED  BY <2>2, <3>1, <4>2
    <3> QED  BY <1>1, <1>3, <1>7, <1>8, <3>1, <3>2
  <2> QED  BY <2>1, <2>2
<1>12. \A i, k \in DOMAIN below : i < k => index[below[i]] < index[below[k]]
  BY <1>1, <1>3, <1>6 DEF StackInv
<1> QED  BY <1>6, <1>8, <1>9, <1>10, <1>11, <1>12 DEF below, above, b

-----------------------------------------------------------------------------
\* Reachability is of the input, which does not change.
LEMMA InputFixed ==
  ASSUME UNCHANGED input
  PROVE  /\ Node' = Node /\ Implied' = Implied /\ out' = out
         /\ \A x : Members(out[x])' = Members(out[x])
         /\ \A x, y : Reaches(Implied, x, y)' <=> Reaches(Implied, x, y)
         /\ \A x, y : Path(Implied, x, y)' <=> Path(Implied, x, y)
         /\ \A x : ClassOf(x)' = ClassOf(x)
<1>1. implies' = implies /\ nodes' = nodes /\ out' = out
  BY DEF input
<1>2. Node' = Node /\ Implied' = Implied /\ \A x : Members(out[x])' = Members(out[x])
  BY <1>1 DEF Node, Implied, Members
<1>3. \A x, y : Reaches(Implied, x, y)' <=> Reaches(Implied, x, y)
  BY <1>2 DEF Reaches, Closed
<1>4. \A x, y : Path(Implied, x, y)' <=> Path(Implied, x, y)
  BY <1>2 DEF Path, Closed
<1>5. \A x : ClassOf(x)' = ClassOf(x)
  BY <1>2, <1>3 DEF ClassOf
<1> QED  BY <1>1, <1>2, <1>3, <1>4, <1>5

\* Nothing is said of the components until something is done.
LEMMA ComponentsFixed ==
  ASSUME ComponentInv, UNCHANGED <<input, components>>, Done' = Done
  PROVE  ComponentInv'
<1>1. UNCHANGED input /\ components' = components
  OBVIOUS
<1>2. Node' = Node
  BY <1>1, InputFixed
<1>3. components' \in Seq(Seq(Node'))
  BY <1>1, <1>2 DEF ComponentInv
<1>4. {n \in Done' : Path(Implied, n, n)'} = {n \in Done : Path(Implied, n, n)}
  BY <1>1, InputFixed
<1>5. {ClassOf(n)' : n \in {n \in Done' : Path(Implied, n, n)'}} =
        {ClassOf(n) : n \in {n \in Done : Path(Implied, n, n)}}
  BY <1>1, <1>4, InputFixed
<1>6. {Members(components[i])' : i \in DOMAIN components'} = {Members(components[i]) : i \in DOMAIN components}
  BY <1>1 DEF Members
<1> QED  BY <1>3, <1>5, <1>6 DEF ComponentInv

\* The walk begins with nothing met.
LEMMA WalkInit == GraphInit => WalkInv
<1> SUFFICES ASSUME GraphInit
             PROVE  WalkInv
  OBVIOUS
<1>1. /\ index = [n \in Node |-> None] /\ low = index /\ stack = <<>> /\ work = <<>>
      /\ components = <<>>
  BY DEF GraphInit
<1>2. Met = {} /\ Stacked = {} /\ Framed = {} /\ Done = {} /\ DOMAIN components = {}
  BY <1>1 DEF Met, Stacked, Framed, Done, Members
<1>3. WalkTypes
  BY <1>1, <1>2 DEF WalkTypes
<1>4. StackInv
  BY <1>1, <1>2 DEF StackInv
<1>5. LookInv /\ LowInv /\ ReachInv
  BY <1>1, <1>2 DEF LookInv, LowInv, ReachInv
<1>6. ComponentInv
  BY <1>1, <1>2 DEF ComponentInv
<1> QED  BY <1>3, <1>4, <1>5, <1>6 DEF WalkInv

\* A new root is met: no frame is open, so all that was met is done.
LEMMA RootStep ==
  ASSUME GraphInput, WalkInv, Root
  PROVE  WalkInv'
<1> USE DEF WalkInv
<1>1. PICK n \in Node \ Met : n = Head(Unvisited)
  <2>1. /\ Unvisited \in Seq(Node) /\ Unvisited # <<>>
        /\ Members(Unvisited) = Members(nodes) \cap {x \in Node : index[x] = None}
    BY ThoseFacts DEF Unvisited, GraphInput, Root
  <2>2. Head(Unvisited) \in Members(Unvisited)
    BY <2>1, MembersFacts
  <2> QED  BY <2>1, <2>2 DEF Met
<1>2. /\ Visit(n) /\ UNCHANGED input /\ work = <<>> /\ stack = <<>>
      /\ work' = <<[node |-> n, next |-> 1]>> /\ components' = components
  BY <1>1 DEF Root, StackInv
<1>3. implies' = implies /\ out' = out /\ Node' = Node /\ Implied' = Implied
  BY <1>2 DEF input, Node, Members, Implied
<1>4. /\ Counter \in Nat
      /\ index' \in [Node -> Nat \cup {None}] /\ low' \in [Node -> Nat \cup {None}]
      /\ index'[n] = Counter /\ low'[n] = Counter
      /\ Met' = Met \cup {n}
      /\ \A x \in Met' : index'[x] \in Nat /\ index'[x] < Counter' /\ low'[x] \in Nat
  BY <1>1, <1>2, VisitFacts
<1>5. /\ stack' = <<n>> /\ DOMAIN stack' = {1} /\ Stacked' = {n} /\ Stacked = {}
      /\ DOMAIN work' = {1} /\ work'[1] = [node |-> n, next |-> 1] /\ Framed' = {n} /\ Len(work') = 1
  <2>1. stack' = <<n>>
    BY <1>2 DEF Visit
  <2> QED  BY <1>2, <2>1 DEF Stacked, Framed, Members
<1>6. Done' = Done /\ Done = Met
  BY <1>1, <1>4, <1>5 DEF Done
<1>7. Looked(n)' = {}
  <2>1. work'[1].node = n /\ 1..(work'[1].next - 1) = {} /\ 1 \in DOMAIN work'
    BY <1>5
  <2> SUFFICES ASSUME NEW y \in Looked(n)'
               PROVE  FALSE
    OBVIOUS
  <2>2. \A i \in DOMAIN work' : work'[i].node = n => \E j \in 1..(work'[i].next - 1) : out'[n][j] = y
    BY DEF Looked
  <2> QED  BY <2>1, <2>2
<1>8. \A x \in Met : Looked(x)' \subseteq Looked(x)
  BY <1>2, <1>3 DEF Looked, Members
<1>9. WalkTypes'
  BY <1>1, <1>3, <1>4, <1>5, <1>2 DEF WalkTypes
<1>10. StackInv'
  BY <1>4, <1>5, <1>1 DEF StackInv
<1>11. LookInv'
  <2>1. ASSUME NEW x \in Met'
        PROVE  Looked(x)' \subseteq Met'
    <3>1. CASE x = n
      BY <1>7, <3>1
    <3>2. CASE x \in Met
      <4>1. Looked(x)' \subseteq Looked(x) /\ Looked(x) \subseteq Met
        BY <1>8, <3>2 DEF LookInv
      <4> QED  BY <1>4, <4>1
    <3> QED  BY <1>4, <3>1, <3>2
  <2>2. \A x \in Done' : Members(out[x])' \subseteq Done'
    BY <1>3, <1>6 DEF LookInv, Members
  <2>3. ASSUME NEW x \in Stacked'
        PROVE  Looked(x)' = {}
    BY <1>5, <1>7, <2>3
  <2> QED  BY <2>1, <2>2, <2>3 DEF LookInv
<1>12. Reaches(Implied, n, n)'
  BY <1>1, <1>2, ImpliedFacts, ReachesFacts, InputFixed
<1>13. LowInv'
  <2>1. n \in Stacked' /\ index'[n] = low'[n] /\ low'[n] <= index'[n]
    BY <1>4, <1>5
  <2>2. \A i \in DOMAIN work' : work'[i].node = n
    BY <1>5
  <2> QED  BY <1>12, <2>1, <2>2 DEF LowInv
<1>14. ReachInv'
  <2>1. \A i \in DOMAIN work' : work'[i].node = n
    BY <1>5
  <2>2. Stacked' \ Framed' = {} /\ \A x \in Stacked' : x = n
    BY <1>5
  <2> QED  BY <1>12, <2>1, <2>2 DEF ReachInv
<1>15. ComponentInv'
  BY <1>2, <1>6, ComponentsFixed
<1> QED  BY <1>9, <1>10, <1>11, <1>13, <1>14, <1>15

\* When its next neighbour is taken, the frame on top has looked at one more.
LEMMA NextLooked ==
  ASSUME WalkTypes, StackInv, UNCHANGED input, work # <<>>,
         \A i \in DOMAIN work :
           /\ i \in DOMAIN work' /\ work'[i].node = work[i].node
           /\ i # Len(work) => work'[i].next = work[i].next,
         work'[Len(work)].next = Frame.next + 1
  PROVE  \A x \in Met : \A y \in Looked(x)' :
           y \in Looked(x) \/ (x = Frame.node /\ y = Neighbours[Frame.next])
<1>1. PICK L \in Nat \ {0}, top \in Node, next \in Nat \ {0} :
        /\ L = Len(work) /\ top = Frame.node /\ next = Frame.next
        /\ L \in DOMAIN work /\ DOMAIN work = 1..L /\ work[L].node = top /\ work[L].next = next
        /\ 1..L \subseteq DOMAIN work' /\ work'[L].next = next + 1
        /\ \A i \in 1..L : work'[i].node = work[i].node
        /\ \A i \in 1..L : i # L => work'[i].next = work[i].next
  BY FrameFacts, Zenon
<1>2. PICK n : n = out[top][next]
  OBVIOUS
<1>3. ASSUME NEW x \in Met, NEW y \in Looked(x)'
      PROVE  y \in Looked(x) \/ (x = top /\ y = n)
  <2>1. y \in Members(out[x])
    BY InputFixed DEF Looked
  <2>2. ASSUME NEW i \in DOMAIN work', work'[i].node = x
        PROVE  \E j \in 1..(work'[i].next - 1) : out[x][j] = y
    BY <2>2, InputFixed DEF Looked
  <2>3. CASE x = top
    <3>1. L \in DOMAIN work' /\ work'[L].node = x /\ work'[L].next - 1 = next
      BY <1>1, <2>3
    <3>2. PICK j \in 1..next : out[x][j] = y
      BY <2>2, <3>1
    <3>3. CASE j = next
      BY <1>1, <1>2, <2>3, <3>2, <3>3
    <3>4. CASE j # next
      <4>1. j \in 1..(next - 1)
        BY <3>4
      <4>2. ASSUME NEW i \in DOMAIN work, work[i].node = x
            PROVE  i = L
        <5>1. i < L => index[work[i].node] < index[work[L].node]
          BY <1>1 DEF StackInv
        <5>2. index[x] \in Nat
          BY DEF WalkTypes
        <5> QED  BY <1>1, <2>3, <4>2, <5>1, <5>2
      <4> QED  BY <1>1, <2>1, <3>2, <4>1, <4>2 DEF Looked
    <3> QED  BY <3>3, <3>4
  <2>4. CASE x # top
    <3>1. ASSUME NEW i \in DOMAIN work, work[i].node = x
          PROVE  \E j \in 1..(work[i].next - 1) : out[x][j] = y
      <4>1. i # L /\ i \in 1..L /\ i \in DOMAIN work'
        BY <1>1, <2>4, <3>1
      <4> QED  BY <1>1, <2>2, <3>1, <4>1
    <3> QED  BY <2>1, <3>1 DEF Looked
  <2> QED  BY <2>3, <2>4
<1> QED  BY <1>1, <1>2, <1>3 DEF Neighbours

\* A neighbour that was not met is met, and is owned by a frame of its own.
LEMMA DescendStep ==
  ASSUME GraphInput, WalkInv, Descend
  PROVE  WalkInv'
<1> USE DEF WalkInv
<1>1. PICK L \in Nat \ {0}, top \in Node, next \in Nat \ {0} :
        /\ L = Len(work) /\ top = Frame.node /\ next = Frame.next
        /\ L \in DOMAIN work /\ DOMAIN work = 1..L /\ work[L].node = top /\ work[L].next = next
        /\ next <= Len(out[top])
  BY FrameFacts, Zenon DEF Descend, Neighbours
<1>2. PICK n \in Node \ Met : n = out[top][next]
  <2>1. out[top] \in Seq(Node)
    BY DEF GraphInput
  <2>2. out[top][next] \in Node
    BY <1>1, <2>1
  <2>3. index[out[top][next]] = None
    BY <1>1 DEF Descend, Neighbours
  <2> QED  BY <2>2, <2>3 DEF Met
<1>3. n \in Members(out[top]) /\ <<top, n>> \in Implied
  <2>1. out[top] \in Seq(Node)
    BY DEF GraphInput
  <2>2. n \in Members(out[top])
    BY <1>1, <1>2, <2>1 DEF Members
  <2> QED  BY <2>2, ImpliedFacts
<1>4. /\ Visit(n) /\ UNCHANGED input /\ work # <<>>
      /\ work' = Append(Advanced, [node |-> n, next |-> 1]) /\ components' = components
  BY <1>1, <1>2 DEF Descend, Neighbours
<1>5. /\ Counter \in Nat
      /\ index' \in [Node -> Nat \cup {None}] /\ low' \in [Node -> Nat \cup {None}]
      /\ index'[n] = Counter /\ low'[n] = Counter
      /\ \A x \in Node \ {n} : index'[x] = index[x] /\ low'[x] = low[x]
      /\ Met' = Met \cup {n}
      /\ \A x \in Met' : index'[x] \in Nat /\ index'[x] < Counter' /\ low'[x] \in Nat
      /\ \A x \in Met : index'[x] < Counter
  BY <1>4, VisitFacts
<1>6. Met \subseteq Node /\ \A x \in Met : index'[x] = index[x] /\ low'[x] = low[x]
  BY <1>2, <1>5 DEF Met
<1>7. /\ Len(stack') = Len(stack) + 1 /\ stack'[Len(stack) + 1] = n
      /\ DOMAIN stack' = 1..(Len(stack) + 1) /\ DOMAIN stack = 1..Len(stack) /\ Len(stack) \in Nat
      /\ \A i \in 1..Len(stack) : stack'[i] = stack[i]
      /\ Stacked' = Stacked \cup {n} /\ stack' \in Seq(Node)
  <2>1. stack \in Seq(Node) /\ stack' = Append(stack, n)
    BY <1>4 DEF WalkTypes, Visit
  <2>2. Stacked' = Members(Append(stack, n))
    BY <2>1 DEF Stacked, Members
  <2> QED  BY <2>1, <2>2, AppendFacts DEF Stacked
<1>8. /\ DOMAIN work' = 1..(L + 1) /\ Len(work') = L + 1
      /\ work' \in Seq([node : Node, next : Nat \ {0}])
      /\ work'[L + 1].node = n /\ work'[L + 1].next = 1
      /\ \A i \in 1..L : work'[i].node = work[i].node
      /\ \A i \in 1..L : i # L => work'[i].next = work[i].next
      /\ work'[L].next = next + 1
  <2>1. /\ Advanced \in Seq([node : Node, next : Nat \ {0}]) /\ Len(Advanced) = L
        /\ \A i \in 1..L : i # L => Advanced[i] = work[i]
        /\ \A i \in 1..L : Advanced[i].node = work[i].node
        /\ Advanced[L].next = next + 1
    BY <1>1, <1>4, FrameFacts
  <2> DEFINE top2 == [node |-> n, next |-> 1]
  <2>2. top2 \in [node : Node, next : Nat \ {0}] /\ top2.node = n /\ top2.next = 1
    OBVIOUS
  <2> HIDE DEF top2
  <2>3. work' = Append(Advanced, top2)
    BY <1>4 DEF top2
  <2>4. /\ DOMAIN work' = 1..(L + 1) /\ Len(work') = L + 1 /\ work'[L + 1] = top2
        /\ \A i \in 1..L : work'[i] = Advanced[i]
        /\ work' \in Seq([node : Node, next : Nat \ {0}])
    BY <2>1, <2>2, <2>3
  <2> QED  BY <2>1, <2>2, <2>4
<1>9. Framed' = Framed \cup {n} /\ Framed = {work[i].node : i \in 1..L}
  <2>1. Framed = {work[i].node : i \in 1..L} /\ Framed' = {work'[i].node : i \in 1..(L + 1)}
    BY <1>1, <1>8 DEF Framed
  <2>2. \A i \in 1..(L + 1) : i \in 1..L \/ i = L + 1
    OBVIOUS
  <2>3. \A i \in 1..L : i \in 1..(L + 1)
    OBVIOUS
  <2> QED  BY <1>8, <2>1, <2>2, <2>3
<1>10. Done' = Done /\ n \notin Stacked
  BY <1>2, <1>5, <1>7 DEF Done, StackInv
<1>11. Looked(n)' = {}
  <2> SUFFICES ASSUME NEW y \in Looked(n)'
               PROVE  FALSE
    OBVIOUS
  <2>1. \A i \in DOMAIN work' : work'[i].node = n => \E j \in 1..(work'[i].next - 1) : out'[n][j] = y
    BY DEF Looked
  <2>2. L + 1 \in DOMAIN work' /\ 1..(work'[L + 1].next - 1) = {}
    BY <1>8
  <2> QED  BY <1>8, <2>1, <2>2
<1>12. out' = out /\ \A x : Members(out[x])' = Members(out[x])
  BY <1>4, InputFixed
<1>13. ASSUME NEW x \in Met, NEW y \in Looked(x)'
       PROVE  y \in Looked(x) \/ (x = top /\ y = n)
  <2>1. /\ \A i \in DOMAIN work :
             /\ i \in DOMAIN work' /\ work'[i].node = work[i].node
             /\ i # Len(work) => work'[i].next = work[i].next
        /\ work'[Len(work)].next = Frame.next + 1
    BY <1>1, <1>8
  <2> QED  BY <1>1, <1>2, <1>4, <1>13, <2>1, NextLooked DEF Neighbours
<1>14. top \in Stacked /\ top \in Met /\ index[top] \in Nat /\ Stacked \subseteq Met
  <2>1. top \in Framed
    BY <1>1 DEF Framed
  <2> QED  BY <2>1 DEF StackInv, WalkTypes
<1>15. WalkTypes'
  <2>1. Node' = Node
    BY <1>4, InputFixed
  <2> QED  BY <1>5, <1>7, <1>8, <2>1 DEF WalkTypes
<1>16. \A i \in 1..L : /\ work[i].node \in Met /\ work[i].node \in Stacked
                       /\ index'[work[i].node] = index[work[i].node]
                       /\ low'[work[i].node] = low[work[i].node]
                       /\ index[work[i].node] \in Nat /\ low[work[i].node] \in Nat
                       /\ index[work[i].node] <= index[top]
  <2> SUFFICES ASSUME NEW i \in 1..L
               PROVE  /\ work[i].node \in Met /\ work[i].node \in Stacked
                      /\ index'[work[i].node] = index[work[i].node]
                      /\ low'[work[i].node] = low[work[i].node]
                      /\ index[work[i].node] \in Nat /\ low[work[i].node] \in Nat
                      /\ index[work[i].node] <= index[top]
    OBVIOUS
  <2>1. work[i].node \in Stacked /\ work[i].node \in Met
    BY <1>9, <1>14 DEF StackInv
  <2>2. index[work[i].node] \in Nat /\ low[work[i].node] \in Nat
    BY <2>1 DEF WalkTypes
  <2>3. i < L => index[work[i].node] < index[work[L].node]
    BY <1>1 DEF StackInv
  <2> QED  BY <1>1, <1>6, <1>14, <2>1, <2>2, <2>3
<1>17. StackInv'
  <2>1. Stacked' \subseteq Met' /\ Framed' \subseteq Stacked'
    BY <1>5, <1>7, <1>9 DEF StackInv
  <2>2. ASSUME NEW i \in DOMAIN stack', NEW k \in DOMAIN stack', i < k
        PROVE  index'[stack'[i]] < index'[stack'[k]]
    <3>1. i \in 1..Len(stack) /\ stack[i] \in Met
      BY <1>7, <1>14, <2>2 DEF Stacked, Members
    <3>2. CASE k = Len(stack) + 1
      BY <1>5, <1>7, <3>1, <3>2
    <3>3. CASE k # Len(stack) + 1
      <4>1. k \in 1..Len(stack) /\ stack[k] \in Met
        BY <1>7, <1>14, <3>3 DEF Stacked, Members
      <4>2. index[stack[i]] < index[stack[k]]
        BY <1>7, <2>2, <3>1, <4>1 DEF StackInv
      <4> QED  BY <1>6, <1>7, <3>1, <4>1, <4>2
    <3> QED  BY <3>2, <3>3
  <2>3. ASSUME NEW i \in DOMAIN work', NEW k \in DOMAIN work', i < k
        PROVE  index'[work'[i].node] < index'[work'[k].node]
    <3>1. i \in 1..L
      BY <1>8, <2>3
    <3>2. CASE k = L + 1
      BY <1>5, <1>8, <1>16, <3>1, <3>2
    <3>3. CASE k # L + 1
      <4>1. k \in 1..L
        BY <1>8, <3>3
      <4>2. index[work[i].node] < index[work[k].node]
        BY <1>1, <2>3, <3>1, <4>1 DEF StackInv
      <4> QED  BY <1>8, <1>16, <3>1, <4>1, <4>2
    <3> QED  BY <3>2, <3>3
  <2>4. work' # <<>>
    BY <1>8
  <2>5. ASSUME NEW x \in Stacked'
        PROVE  index'[work'[1].node] <= index'[x]
    <3>1. 1 \in 1..L /\ work'[1].node = work[1].node /\ index'[work[1].node] = index[work[1].node]
      BY <1>8, <1>16
    <3>2. CASE x = n
      <4>1. index'[work[1].node] < Counter /\ index[work[1].node] \in Nat
        BY <1>5, <1>16, <3>1
      <4> QED  BY <1>5, <3>1, <3>2, <4>1
    <3>3. CASE x \in Stacked
      BY <1>4, <1>6, <1>14, <3>1, <3>3 DEF StackInv
    <3> QED  BY <1>7, <3>2, <3>3
  <2> QED  BY <2>1, <2>2, <2>3, <2>4, <2>5 DEF StackInv
<1>18. LookInv'
  <2>1. ASSUME NEW x \in Met', NEW y \in Looked(x)'
        PROVE  y \in Met'
    <3>1. x \in Met
      BY <1>5, <1>11, <2>1
    <3>2. y \in Looked(x) => y \in Met
      BY <3>1 DEF LookInv
    <3> QED  BY <1>5, <1>13, <2>1, <3>1, <3>2
  <2>2. \A x \in Done' : Members(out[x])' \subseteq Done'
    BY <1>10, <1>12 DEF LookInv
  <2>3. ASSUME NEW i \in DOMAIN work', NEW x \in Stacked', Owns(i, x)',
               NEW y \in Looked(x)', y \in Stacked'
        PROVE  low'[work'[i].node] <= index'[y]
    <3>1. x \in Stacked /\ x \in Met
      BY <1>7, <1>11, <1>14, <2>3
    <3>2. index'[x] = index[x] /\ index[x] \in Nat /\ index[x] < Counter
      BY <1>5, <1>6, <3>1 DEF WalkTypes
    <3>3. i \in 1..L
      <4>1. index'[work'[i].node] <= index'[x]
        BY <2>3 DEF Owns
      <4>2. i = L + 1 => FALSE
        BY <1>5, <1>8, <3>2, <4>1
      <4> QED  BY <1>8, <4>2
    <3>4. low'[work'[i].node] = low[work[i].node] /\ index[work[i].node] < Counter
      BY <1>5, <1>8, <1>16, <3>3
    <3>5. low[work[i].node] <= index[work[i].node] /\ low[work[i].node] \in Nat /\ index[work[i].node] \in Nat
      BY <1>1, <1>16, <3>3 DEF LowInv
    <3>6. CASE y = n
      BY <1>5, <3>4, <3>5, <3>6
    <3>7. CASE y # n
      <4>1. y \in Stacked /\ y \in Looked(x)
        BY <1>7, <1>13, <2>3, <3>1, <3>7
      <4>2. Owns(i, x)
        <5>1. index[work[i].node] <= index[x]
          BY <1>8, <1>16, <2>3, <3>2, <3>3, SMTT(30) DEF Owns
        <5>2. ASSUME i < L
              PROVE  index[x] < index[work[i + 1].node]
          <6>1. i + 1 \in 1..L /\ i < Len(work')
            BY <1>8, <3>3, <5>2
          <6>2. index'[x] < index'[work'[i + 1].node]
            BY <2>3, <6>1 DEF Owns
          <6> QED  BY <1>8, <1>16, <3>2, <6>1, <6>2
        <5> QED  BY <1>1, <5>1, <5>2 DEF Owns
      <4>3. low[work[i].node] <= index[y]
        BY <1>1, <3>1, <3>3, <4>1, <4>2 DEF LookInv
      <4> QED  BY <1>6, <1>14, <3>4, <4>1, <4>3
    <3> QED  BY <3>6, <3>7
  <2> QED  BY <2>1, <2>2, <2>3 DEF LookInv
<1>19. \A x, y : Reaches(Implied, x, y)' <=> Reaches(Implied, x, y)
  BY <1>4, InputFixed
<1>20. Reaches(Implied, n, n)
  BY ImpliedFacts, ReachesFacts
<1>21. LowInv'
  <2> SUFFICES ASSUME NEW i \in DOMAIN work'
               PROVE  /\ low'[work'[i].node] <= index'[work'[i].node]
                      /\ \E y \in Stacked' : /\ index'[y] = low'[work'[i].node]
                                             /\ Reaches(Implied, work[i].node, y)'
    BY DEF LowInv
  <2>1. CASE i = L + 1
    <3>1. work'[i].node = n
      BY <1>8, <2>1
    <3> QED  BY <1>5, <1>7, <1>19, <1>20, <3>1
  <2>2. CASE i # L + 1
    <3>1. i \in 1..L
      BY <1>8, <2>2
    <3>2. PICK y \in Stacked : index[y] = low[work[i].node] /\ Reaches(Implied, work[i].node, y)
      BY <1>1, <3>1 DEF LowInv
    <3>3. low[work[i].node] <= index[work[i].node]
      BY <1>1, <3>1 DEF LowInv
    <3>4. y \in Stacked' /\ index'[y] = index[y]
      BY <1>6, <1>7, <1>14
    <3>5. work'[i].node = work[i].node
      BY <1>8, <3>1
    <3> QED  BY <1>16, <1>19, <3>1, <3>2, <3>3, <3>4, <3>5
  <2> QED  BY <2>1, <2>2
<1>22. ReachInv'
  <2>1. ASSUME NEW i \in DOMAIN work', NEW x \in Stacked', index'[work'[i].node] <= index'[x]
        PROVE  Reaches(Implied, work'[i].node, x)
    <3>1. CASE i = L + 1
      <4>1. work'[i].node = n /\ x \notin Met
        BY <1>5, <1>6, <1>8, <2>1, <3>1
      <4> QED  BY <1>7, <1>14, <1>20, <4>1
    <3>2. CASE i # L + 1
      <4>1. i \in 1..L /\ work'[i].node = work[i].node
        BY <1>8, <3>2
      <4>2. CASE x \in Stacked
        BY <1>1, <1>6, <1>14, <1>16, <2>1, <4>1, <4>2 DEF ReachInv
      <4>3. CASE x = n
        <5>1. Reaches(Implied, work[i].node, top)
          BY <1>1, <1>14, <1>16, <4>1 DEF ReachInv
        <5>2. work[i].node \in Node
          BY <1>6, <1>16, <4>1
        <5> QED  BY <1>3, <4>1, <4>3, <5>1, <5>2, ImpliedFacts, ReachesFacts
      <4> QED  BY <1>7, <4>2, <4>3
    <3> QED  BY <3>1, <3>2
  <2>2. ASSUME NEW x \in Stacked' \ Framed'
        PROVE  \E y \in Stacked' : index'[y] < index'[x] /\ Reaches(Implied, x, y)
    <3>1. x \in Stacked \ Framed
      BY <1>7, <1>9
    <3>2. PICK y \in Stacked : index[y] < index[x] /\ Reaches(Implied, x, y)
      BY <3>1 DEF ReachInv
    <3> QED  BY <1>6, <1>7, <1>14, <3>1, <3>2
  <2> QED  BY <1>19, <2>1, <2>2 DEF ReachInv
<1>23. ComponentInv'
  BY <1>4, <1>10, ComponentsFixed
<1> QED  BY <1>15, <1>17, <1>18, <1>21, <1>22, <1>23

\* A neighbour that was met lowers the low of the frame if it is on the stack.
LEMMA GlanceStep ==
  ASSUME GraphInput, WalkInv, Glance
  PROVE  WalkInv'
<1> USE DEF WalkInv
<1>1. PICK L \in Nat \ {0}, top \in Node, next \in Nat \ {0} :
        /\ L = Len(work) /\ top = Frame.node /\ next = Frame.next
        /\ L \in DOMAIN work /\ DOMAIN work = 1..L /\ work[L].node = top /\ work[L].next = next
        /\ next <= Len(out[top])
  BY FrameFacts, Zenon DEF Glance, Neighbours
<1>2. PICK n \in Met : n = out[top][next]
  <2>1. out[top] \in Seq(Node)
    BY DEF GraphInput
  <2>2. out[top][next] \in Node
    BY <1>1, <2>1
  <2>3. index[out[top][next]] # None
    BY <1>1 DEF Glance, Neighbours
  <2> QED  BY <2>2, <2>3 DEF Met
<1>3. n \in Members(out[top]) /\ <<top, n>> \in Implied /\ n \in Node
  <2>1. out[top] \in Seq(Node)
    BY DEF GraphInput
  <2>2. n \in Members(out[top])
    BY <1>1, <1>2, <2>1 DEF Members
  <2> QED  BY <2>2, ImpliedFacts
<1>4. /\ low' = IF n \in Stacked THEN [low EXCEPT ![top] = Least(@, index[n])] ELSE low
      /\ UNCHANGED <<input, index, stack, components>> /\ work # <<>> /\ work' = Advanced
  BY <1>1, <1>2 DEF Glance, Neighbours, OnStack, Stacked
<1>5. Met' = Met /\ Stacked' = Stacked /\ Done' = Done /\ Counter' = Counter /\ out' = out
  BY <1>4, InputFixed DEF Met, Stacked, Done, Counter, Members
<1>6. /\ DOMAIN work' = 1..L /\ Len(work') = L
      /\ work' \in Seq([node : Node, next : Nat \ {0}])
      /\ \A i \in 1..L : work'[i].node = work[i].node
      /\ \A i \in 1..L : i # L => work'[i].next = work[i].next
      /\ work'[L].next = next + 1
  BY <1>1, <1>4, FrameFacts
<1>7. Framed' = Framed /\ Framed = {work[i].node : i \in 1..L}
  <2>1. Framed = {work[i].node : i \in 1..L}
    BY <1>1 DEF Framed
  <2>2. Framed' = {work'[i].node : i \in 1..L}
    BY <1>6 DEF Framed
  <2>3. \A i \in 1..L : work'[i].node = work[i].node
    BY <1>6
  <2> QED  BY <2>1, <2>2, <2>3
<1>8. top \in Stacked /\ top \in Met /\ Stacked \subseteq Met
  <2>1. top \in Framed
    BY <1>1 DEF Framed
  <2> QED  BY <2>1 DEF StackInv
<1>9. \A x \in Met : index[x] \in Nat /\ low[x] \in Nat
  BY DEF WalkTypes
<1>10. /\ low' \in [Node -> Nat \cup {None}]
       /\ \A x \in Node \ {top} : low'[x] = low[x]
       /\ low'[top] \in Nat /\ low'[top] <= low[top]
       /\ n \in Stacked => low'[top] <= index[n]
       /\ low'[top] = low[top] \/ (n \in Stacked /\ low'[top] = index[n])
  <2>1. low \in [Node -> Nat \cup {None}] /\ low[top] \in Nat /\ index[n] \in Nat
    BY <1>8, <1>9 DEF WalkTypes
  <2>2. Least(low[top], index[n]) \in Nat
    BY <2>1 DEF Least
  <2>3. CASE n \in Stacked
    <3>1. low' = [low EXCEPT ![top] = Least(low[top], index[n])]
      BY <1>4, <2>3
    <3>2. low'[top] = Least(low[top], index[n]) /\ \A x \in Node \ {top} : low'[x] = low[x]
      BY <2>1, <3>1
    <3>3. low' \in [Node -> Nat \cup {None}]
      BY <2>1, <2>2, <3>1
    <3> QED  BY <2>1, <2>2, <2>3, <3>2, <3>3 DEF Least
  <2>4. CASE n \notin Stacked
    BY <1>4, <2>1, <2>4
  <2> QED  BY <2>3, <2>4
<1>11. \A i \in 1..L : work[i].node \in Stacked /\ work[i].node \in Met /\ work[i].node \in Node
  BY <1>7, <1>8 DEF StackInv, Met
<1>12. \A i \in 1..L : low'[work[i].node] \in Nat /\ low'[work[i].node] <= low[work[i].node]
  BY <1>9, <1>10, <1>11
<1>13. ASSUME NEW x \in Met, NEW y \in Looked(x)'
       PROVE  y \in Looked(x) \/ (x = top /\ y = n)
  <2>1. /\ \A i \in DOMAIN work :
             /\ i \in DOMAIN work' /\ work'[i].node = work[i].node
             /\ i # Len(work) => work'[i].next = work[i].next
        /\ work'[Len(work)].next = Frame.next + 1
    BY <1>1, <1>6
  <2> QED  BY <1>1, <1>2, <1>4, <1>13, <2>1, NextLooked DEF Neighbours
<1>14. WalkTypes'
  <2>1. Node' = Node
    BY <1>4, InputFixed
  <2>2. \A x \in Met' : index'[x] \in Nat /\ index'[x] < Counter' /\ low'[x] \in Nat
    <3>1. Met \subseteq Node
      BY DEF Met
    <3> QED  BY <1>4, <1>5, <1>10, <3>1 DEF WalkTypes
  <2> QED  BY <1>4, <1>6, <1>10, <2>1, <2>2 DEF WalkTypes
<1>15. StackInv'
  <2>1. Stacked' \subseteq Met' /\ Framed' \subseteq Stacked'
    BY <1>5, <1>7 DEF StackInv
  <2>2. \A i, k \in DOMAIN stack' : i < k => index'[stack'[i]] < index'[stack'[k]]
    BY <1>4 DEF StackInv
  <2>3. \A i, k \in DOMAIN work' : i < k => index'[work'[i].node] < index'[work'[k].node]
    BY <1>1, <1>4, <1>6, SMTT(30) DEF StackInv
  <2>4. work' # <<>>
    BY <1>6
  <2>5. \A x \in Stacked' : index'[work'[1].node] <= index'[x]
    BY <1>4, <1>5, <1>6 DEF StackInv
  <2> QED  BY <2>1, <2>2, <2>3, <2>4, <2>5 DEF StackInv
<1>16. LookInv'
  <2>1. ASSUME NEW x \in Met', NEW y \in Looked(x)'
        PROVE  y \in Met'
    <3>1. y \in Looked(x) => y \in Met
      BY <1>5 DEF LookInv
    <3> QED  BY <1>5, <1>13, <2>1, <3>1
  <2>2. \A x \in Done' : Members(out[x])' \subseteq Done'
    BY <1>4, <1>5, InputFixed DEF LookInv
  <2>3. ASSUME NEW i \in DOMAIN work', NEW x \in Stacked', Owns(i, x)',
               NEW y \in Looked(x)', y \in Stacked'
        PROVE  low'[work'[i].node] <= index'[y]
    <3>1. x \in Stacked /\ x \in Met /\ y \in Stacked /\ y \in Met /\ i \in 1..L
      BY <1>5, <1>6, <1>8, <2>3
    <3>2. Owns(i, x)
      <4>1. index[work[i].node] <= index[x]
        BY <1>4, <1>6, <2>3, <3>1 DEF Owns
      <4>2. ASSUME i < L
            PROVE  index[x] < index[work[i + 1].node]
        <5>1. i + 1 \in 1..L /\ i < Len(work')
          BY <1>6, <3>1, <4>2
        <5>2. index'[x] < index'[work'[i + 1].node]
          BY <2>3, <5>1 DEF Owns
        <5> QED  BY <1>4, <1>6, <5>1, <5>2
      <4> QED  BY <1>1, <4>1, <4>2 DEF Owns
    <3>3. low'[work'[i].node] = low'[work[i].node]
      BY <1>6, <3>1
    <3>4. CASE y \in Looked(x)
      <4>1. low[work[i].node] <= index[y]
        BY <1>1, <3>1, <3>2, <3>4 DEF LookInv
      <4>2. low[work[i].node] \in Nat /\ index[y] \in Nat
        BY <1>9, <1>11, <3>1
      <4> QED  BY <1>4, <1>12, <3>1, <3>3, <4>1, <4>2
    <3>5. CASE x = top /\ y = n
      <4>1. i = L
        <5>1. ASSUME i < L
              PROVE  FALSE
          <6>1. i + 1 \in 1..L /\ index[top] < index[work[i + 1].node]
            BY <1>1, <3>1, <3>2, <3>5, <5>1 DEF Owns
          <6>2. i + 1 < L => index[work[i + 1].node] < index[work[L].node]
            BY <1>1, <6>1 DEF StackInv
          <6>3. index[work[i + 1].node] \in Nat /\ index[top] \in Nat
            BY <1>8, <1>9, <1>11, <6>1
          <6> QED  BY <1>1, <6>1, <6>2, <6>3
        <5> QED  BY <3>1, <5>1
      <4> QED  BY <1>1, <1>4, <1>10, <3>1, <3>3, <3>5, <4>1
    <3> QED  BY <1>13, <2>3, <3>1, <3>4, <3>5
  <2> QED  BY <2>1, <2>2, <2>3 DEF LookInv
<1>17. LowInv'
  <2> SUFFICES ASSUME NEW i \in DOMAIN work'
               PROVE  /\ low'[work'[i].node] <= index'[work'[i].node]
                      /\ \E y \in Stacked' : /\ index'[y] = low'[work'[i].node]
                                             /\ Reaches(Implied, work[i].node, y)'
    BY DEF LowInv
  <2>1. i \in 1..L /\ work'[i].node = work[i].node
    BY <1>6
  <2>2. low[work[i].node] <= index[work[i].node]
    BY <1>1, <2>1 DEF LowInv
  <2>3. low'[work[i].node] <= index[work[i].node]
    BY <1>9, <1>11, <1>12, <2>1, <2>2
  <2>4. CASE low'[work[i].node] = low[work[i].node]
    <3>1. PICK y \in Stacked : index[y] = low[work[i].node] /\ Reaches(Implied, work[i].node, y)
      BY <1>1, <2>1 DEF LowInv
    <3> QED  BY <1>4, <1>5, <2>1, <2>3, <2>4, <3>1, InputFixed
  <2>5. CASE low'[work[i].node] # low[work[i].node]
    <3>1. work[i].node = top /\ n \in Stacked /\ low'[top] = index[n]
      BY <1>10, <1>11, <2>1, <2>5
    <3>2. Reaches(Implied, top, n)
      BY <1>3, ImpliedFacts, ReachesFacts
    <3> QED  BY <1>4, <1>5, <2>1, <2>3, <3>1, <3>2, InputFixed
  <2> QED  BY <2>4, <2>5
<1>18. ReachInv'
  <2>1. \A x, y : Reaches(Implied, x, y)' <=> Reaches(Implied, x, y)
    BY <1>4, InputFixed
  <2>2. ASSUME NEW i \in DOMAIN work', NEW x \in Stacked', index'[work'[i].node] <= index'[x]
        PROVE  Reaches(Implied, work'[i].node, x)
    BY <1>1, <1>4, <1>5, <1>6, <2>2 DEF ReachInv
  <2>3. \A x \in Stacked' \ Framed' : \E y \in Stacked' : index'[y] < index'[x] /\ Reaches(Implied, x, y)
    BY <1>4, <1>5, <1>7 DEF ReachInv
  <2> QED  BY <2>1, <2>2, <2>3 DEF ReachInv
<1>19. ComponentInv'
  BY <1>4, <1>5, ComponentsFixed
<1> QED  BY <1>14, <1>15, <1>16, <1>17, <1>18, <1>19

\* A frame is left.  If its low is its own number, what is above it on the stack is its
\* class, and is done; otherwise the frame below takes over what it owned.
LEMMA RetreatStep ==
  ASSUME GraphInput, WalkInv, Retreat
  PROVE  WalkInv'
<1> USE DEF WalkInv
<1>1. PICK L \in Nat \ {0}, n \in Node :
        /\ L = Len(work) /\ n = Frame.node /\ n = work[L].node
        /\ L \in DOMAIN work /\ DOMAIN work = 1..L
        /\ work[L].next > Len(out[n]) /\ work[L].next \in Nat
  BY FrameFacts, Zenon DEF Retreat, Neighbours
<1>2. PICK bottom : bottom = CHOOSE i \in DOMAIN stack : stack[i] = n
  OBVIOUS
<1>3. PICK above, below :
        above = Reversed(SubSeq(stack, bottom, Len(stack))) /\ below = SubSeq(stack, 1, bottom - 1)
  OBVIOUS
<1>4. /\ UNCHANGED <<input, index>> /\ work # <<>> /\ work' = Front(work)
      /\ low' = IF L = 1 THEN low
                ELSE [low EXCEPT ![work[L - 1].node] = Least(@, low[n])]
      /\ IF low[n] = index[n]
           THEN /\ stack' = below
                /\ components' = IF Len(above) > 1 THEN Append(components, above) ELSE components
           ELSE UNCHANGED <<stack, components>>
  BY <1>1, <1>2, <1>3 DEF Retreat
<1>5. n \in Framed /\ n \in Stacked /\ n \in Met /\ Stacked \subseteq Met /\ Met \subseteq Node
  BY <1>1 DEF Framed, StackInv, Met
<1>6. \A x \in Met : index[x] \in Nat /\ low[x] \in Nat
  BY DEF WalkTypes
<1>7. /\ \A i \in 1..L : work[i].node \in Stacked /\ work[i].node \in Met /\ work[i].node \in Framed
      /\ Framed = {work[i].node : i \in 1..L}
  BY <1>1, <1>5 DEF StackInv, Framed
<1>8. /\ Len(work') = L - 1 /\ DOMAIN work' = 1..(L - 1)
      /\ \A i \in 1..(L - 1) : work'[i] = work[i]
      /\ work' \in Seq([node : Node, next : Nat \ {0}])
      /\ Framed' = {work[i].node : i \in 1..(L - 1)}
  <2>1. work \in Seq([node : Node, next : Nat \ {0}])
    BY DEF WalkTypes
  <2> DEFINE R == [node : Node, next : Nat \ {0}]
  <2> HIDE DEF R
  <2>2. /\ Len(work') = L - 1 /\ \A i \in 1..(L - 1) : work'[i] = work[i]
        /\ work' \in Seq(R)
    <3>1. work \in Seq(R)
      BY <2>1 DEF R
    <3>2. /\ Front(work) \in Seq(R) /\ Len(Front(work)) = Len(work) - 1
          /\ \A i \in 1..(Len(work) - 1) : Front(work)[i] = work[i]
      BY <1>4, <3>1, FrontFacts
    <3> QED  BY <1>1, <1>4, <3>2
  <2>3. DOMAIN work' = 1..(L - 1)
    BY <2>2
  <2> QED  BY <2>2, <2>3 DEF Framed, R
<1>9. /\ Node' = Node /\ Met' = Met /\ Counter' = Counter /\ index' = index
      /\ \A x, y : Reaches(Implied, x, y)' <=> Reaches(Implied, x, y)
      /\ \A x : Members(out[x])' = Members(out[x])
  BY <1>4, InputFixed DEF Met, Counter
<1>10. \A i \in 1..(L - 1) : index[work[i].node] < index[n] /\ work[i].node # n
  <2> SUFFICES ASSUME NEW i \in 1..(L - 1)
               PROVE  index[work[i].node] < index[n] /\ work[i].node # n
    OBVIOUS
  <2>1. index[work[i].node] < index[work[L].node]
    BY <1>1 DEF StackInv
  <2>2. index[n] \in Nat
    BY <1>5, <1>6
  <2> QED  BY <1>1, <2>1, <2>2
<1>11. Framed' = Framed \ {n}
  <2>1. \A i \in 1..L : i \in 1..(L - 1) \/ i = L
    OBVIOUS
  <2>2. \A i \in 1..(L - 1) : i \in 1..L
    OBVIOUS
  <2>3. Framed = {work[i].node : i \in 1..L} /\ Framed' = {work[i].node : i \in 1..(L - 1)} /\ n = work[L].node
    BY <1>1, <1>7, <1>8
  <2>4. ASSUME NEW x \in Framed
        PROVE  x # n => x \in Framed'
    <3>1. PICK i \in 1..L : x = work[i].node
      BY <2>3
    <3> QED  BY <2>1, <2>3, <3>1
  <2>5. ASSUME NEW x \in Framed'
        PROVE  x \in Framed /\ x # n
    <3>1. PICK i \in 1..(L - 1) : x = work[i].node
      BY <2>3
    <3>2. i \in 1..L
      BY <2>2
    <3> QED  BY <1>10, <2>3, <3>1, <3>2
  <2> QED  BY <2>4, <2>5
<1>12. /\ low' \in [Node -> Nat \cup {None}]
       /\ \A x \in Met : low'[x] \in Nat /\ low'[x] <= low[x]
       /\ \A i \in 1..(L - 1) : i # L - 1 => low'[work[i].node] = low[work[i].node]
       /\ L > 1 => \/ low'[work[L - 1].node] = low[work[L - 1].node]
                   \/ low'[work[L - 1].node] = low[n]
       /\ L > 1 => low'[work[L - 1].node] <= low[n]
  <2>1. low \in [Node -> Nat \cup {None}]
    BY DEF WalkTypes
  <2>2. CASE L = 1
    BY <1>4, <1>6, <2>1, <2>2
  <2>3. CASE L # 1
    <3>1. PICK p \in Met : p = work[L - 1].node
      BY <1>7, <2>3
    <3>2. low' = [low EXCEPT ![p] = Least(low[p], low[n])]
      BY <1>4, <2>3, <3>1
    <3>3. low[p] \in Nat /\ low[n] \in Nat /\ p \in Node
      BY <1>5, <1>6
    <3>4. Least(low[p], low[n]) \in Nat /\ Least(low[p], low[n]) <= low[p] /\ Least(low[p], low[n]) <= low[n]
      BY <3>3 DEF Least
    <3>5. Least(low[p], low[n]) = low[p] \/ Least(low[p], low[n]) = low[n]
      BY DEF Least
    <3>6. low'[p] = Least(low[p], low[n]) /\ \A x \in Node \ {p} : low'[x] = low[x]
      BY <2>1, <3>2, <3>3
    <3>7. low' \in [Node -> Nat \cup {None}]
      BY <2>1, <3>2, <3>4
    <3>8. \A x \in Met : low'[x] \in Nat /\ low'[x] <= low[x]
      BY <1>5, <1>6, <3>4, <3>6
    <3>9. ASSUME NEW i \in 1..(L - 1), i # L - 1
          PROVE  low'[work[i].node] = low[work[i].node]
      <4>1. i < L - 1 /\ i \in 1..L /\ L - 1 \in 1..L /\ work[i].node \in Node
        <5>1. i < L - 1 /\ i \in 1..L /\ L - 1 \in 1..L
          BY <1>1, <2>3, <3>9
        <5>2. work[i].node \in Met
          BY <1>7, <5>1
        <5> QED  BY <1>5, <5>1, <5>2
      <4>2. index[work[i].node] < index[p]
        BY <1>1, <3>1, <4>1 DEF StackInv
      <4>3. work[i].node # p
        BY <1>6, <4>2
      <4> QED  BY <3>6, <4>1, <4>3
    <3> QED  BY <3>1, <3>4, <3>5, <3>6, <3>7, <3>8, <3>9
  <2> QED  BY <2>2, <2>3
<1>13. ASSUME NEW x \in Met
       PROVE  Looked(x)' \subseteq Looked(x)
  <2> SUFFICES ASSUME NEW y \in Looked(x)'
               PROVE  y \in Looked(x)
    OBVIOUS
  <2>1. y \in Members(out[x])
    BY <1>9 DEF Looked
  <2>2. ASSUME NEW i \in DOMAIN work', work'[i].node = x
        PROVE  \E j \in 1..(work'[i].next - 1) : out[x][j] = y
    BY <1>4, <2>2, InputFixed DEF Looked
  <2>3. ASSUME NEW i \in DOMAIN work, work[i].node = x
        PROVE  \E j \in 1..(work[i].next - 1) : out[x][j] = y
    <3>1. CASE i = L
      <4>1. PICK j \in DOMAIN out[x] : out[x][j] = y
        BY <2>1 DEF Members
      <4>2. out[x] \in Seq(Node) /\ x = n
        BY <1>1, <1>5, <2>3, <3>1 DEF GraphInput
      <4>3. j \in 1..Len(out[n]) /\ Len(out[n]) \in Nat
        BY <4>1, <4>2
      <4>4. j \in 1..(work[i].next - 1)
        BY <1>1, <3>1, <4>3
      <4> QED  BY <4>1, <4>4
    <3>2. CASE i # L
      <4>1. i \in 1..(L - 1)
        BY <1>1, <3>2
      <4> QED  BY <1>8, <2>2, <2>3, <4>1
    <3> QED  BY <3>1, <3>2
  <2> QED  BY <2>1, <2>3 DEF Looked
<1>14. ASSUME NEW x \in Stacked, index[n] <= index[x]
       PROVE  Looked(x) = Members(out[x]) /\ Owns(L, x) /\ (x # n => x \notin Framed)
  <2>1. ASSUME NEW i \in DOMAIN work, work[i].node = x
        PROVE  i = L /\ x = n
    <3>1. i # L => i \in 1..(L - 1)
      BY <1>1
    <3>2. index[x] \in Nat /\ index[n] \in Nat
      BY <1>5, <1>6
    <3> QED  BY <1>1, <1>10, <1>14, <2>1, <3>1, <3>2
  <2>2. Owns(L, x)
    BY <1>1, <1>14 DEF Owns
  <2>3. Looked(x) = Members(out[x])
    <3>1. ASSUME NEW y \in Members(out[x]), NEW i \in DOMAIN work, work[i].node = x
          PROVE  \E j \in 1..(work[i].next - 1) : out[x][j] = y
      <4>1. i = L /\ x = n
        BY <2>1, <3>1
      <4>2. PICK j \in DOMAIN out[x] : out[x][j] = y
        BY DEF Members
      <4>3. out[x] \in Seq(Node)
        BY <1>5 DEF GraphInput
      <4>4. j \in 1..Len(out[n]) /\ Len(out[n]) \in Nat
        BY <4>1, <4>2, <4>3
      <4>5. j \in 1..(work[i].next - 1)
        BY <1>1, <4>1, <4>4
      <4> QED  BY <4>2, <4>5
    <3> QED  BY <3>1 DEF Looked
  <2> QED  BY <2>1, <2>2, <2>3 DEF Framed
\* Whether or not the stack is cut: what is owned afterwards.
<1>15. ASSUME NEW i \in 1..(L - 1), NEW x \in Stacked, Owns(i, x)'
       PROVE  Owns(i, x) \/ (i = L - 1 /\ Owns(L, x))
  <2>1. index[work[i].node] <= index[x] /\ (i < L - 1 => index[x] < index[work[i + 1].node])
    <3>1. i < L - 1 => i + 1 \in 1..(L - 1)
      OBVIOUS
    <3> QED  BY <1>8, <1>9, <1>15, <3>1 DEF Owns
  <2>2. CASE i < L - 1
    BY <1>1, <2>1, <2>2 DEF Owns
  <2>3. CASE i = L - 1 /\ index[x] < index[n]
    <3>1. i + 1 = L
      BY <2>3
    <3> QED  BY <1>1, <2>1, <2>3, <3>1 DEF Owns
  <2>4. CASE i = L - 1 /\ ~(index[x] < index[n])
    <3>1. index[n] <= index[x]
      BY <1>5, <1>6, <2>4
    <3> QED  BY <1>1, <2>4, <3>1 DEF Owns
  <2> QED  BY <2>2, <2>3, <2>4
<1>16. L > 1 => \E y \in Stacked : /\ index[y] = low'[work[L - 1].node]
                                             /\ index[y] <= index[work[L - 1].node]
                                             /\ Reaches(Implied, work[L - 1].node, y)
  <2> SUFFICES ASSUME L > 1
               PROVE  \E y \in Stacked : /\ index[y] = low'[work[L - 1].node]
                                         /\ index[y] <= index[work[L - 1].node]
                                         /\ Reaches(Implied, work[L - 1].node, y)
    OBVIOUS
  <2>1. PICK p \in Met : p = work[L - 1].node /\ L - 1 \in 1..(L - 1) /\ L - 1 \in 1..L
    BY <1>7
  <2>2. PICK y \in Stacked : index[y] = low[p] /\ Reaches(Implied, p, y)
    BY <1>1, <2>1 DEF LowInv
  <2>3. PICK z \in Stacked : index[z] = low[n] /\ Reaches(Implied, n, z)
    BY <1>1 DEF LowInv
  <2>4. low[p] <= index[p] /\ low'[p] <= low[p] /\ low'[p] \in Nat /\ low[p] \in Nat /\ index[p] \in Nat
    BY <1>1, <1>6, <1>12, <2>1 DEF LowInv
  <2>5. Reaches(Implied, p, n)
    <3>1. index[p] < index[n] /\ index[n] \in Nat
      BY <1>5, <1>6, <1>10, <2>1
    <3>2. index[work[L - 1].node] <= index[n]
      BY <2>1, <2>4, <3>1
    <3> QED  BY <1>1, <1>5, <2>1, <3>2 DEF ReachInv
  <2>6. Reaches(Implied, p, z)
    BY <1>5, <2>3, <2>5, ImpliedFacts, ReachesFacts
  <2> QED  BY <1>12, <2>1, <2>2, <2>3, <2>4, <2>6

<1>17. stack' \in Seq(Node) /\ Stacked' \subseteq Stacked => WalkTypes'
  <2>1. \A x \in Met' : index'[x] \in Nat /\ index'[x] < Counter' /\ low'[x] \in Nat
    BY <1>9, <1>12 DEF WalkTypes
  <2>2. index' \in [Node' -> Nat \cup {None}] /\ low' \in [Node' -> Nat \cup {None}]
    BY <1>9, <1>12 DEF WalkTypes
  <2> QED  BY <1>8, <1>9, <2>1, <2>2 DEF WalkTypes
<1>18. ASSUME NEW i \in DOMAIN work', NEW k \in DOMAIN work', i < k
       PROVE  index'[work'[i].node] < index'[work'[k].node]
  <2>1. i \in 1..L /\ k \in 1..L /\ work'[i] = work[i] /\ work'[k] = work[k]
    BY <1>8
  <2> QED  BY <1>1, <1>9, <1>18, <2>1 DEF StackInv
<1>19. ASSUME NEW i \in 1..(L - 1)
       PROVE  /\ i \in 1..L /\ i \in DOMAIN work /\ work'[i].node = work[i].node
              /\ work[i].node \in Met /\ low[work[i].node] \in Nat /\ low'[work[i].node] \in Nat
              /\ low'[work[i].node] <= low[work[i].node]
              /\ index[work[i].node] \in Nat /\ index[work[i].node] < index[n]
              /\ \A x \in Stacked : \A y \in Looked(x)' \cap Stacked :
                   Owns(i, x)' => low'[work[i].node] <= index[y]
  <2>1. /\ i \in 1..L /\ i \in DOMAIN work /\ work'[i].node = work[i].node
        /\ work[i].node \in Met /\ low[work[i].node] \in Nat /\ low'[work[i].node] \in Nat
        /\ low'[work[i].node] <= low[work[i].node]
        /\ index[work[i].node] \in Nat /\ index[work[i].node] < index[n]
    <3>1. i \in 1..L /\ i \in DOMAIN work /\ work'[i].node = work[i].node
      BY <1>1, <1>8
    <3> QED  BY <1>6, <1>7, <1>10, <1>12, <3>1
  <2>2. ASSUME NEW x \in Stacked, NEW y \in Looked(x)', y \in Stacked, Owns(i, x)'
        PROVE  low'[work[i].node] <= index[y]
    <3>1. x \in Met /\ y \in Looked(x) /\ index[y] \in Nat /\ low[n] \in Nat
      BY <1>5, <1>6, <1>13, <2>2
    <3>2. CASE Owns(i, x)
      <4>1. low[work[i].node] <= index[y]
        BY <2>1, <2>2, <3>1, <3>2 DEF LookInv
      <4> QED  BY <2>1, <3>1, <4>1
    <3>3. CASE i = L - 1 /\ Owns(L, x)
      <4>1. low[work[L].node] <= index[y]
        BY <1>1, <2>2, <3>1, <3>3 DEF LookInv
      <4>2. L > 1 /\ low'[work[i].node] <= low[n]
        BY <1>12, <3>3
      <4> QED  BY <1>1, <2>1, <3>1, <4>1, <4>2
    <3> QED  BY <1>15, <2>2, <3>2, <3>3
  <2> QED  BY <2>1, <2>2
<1>20. ASSUME NEW i \in DOMAIN work', NEW x \in Stacked, index'[work'[i].node] <= index'[x]
       PROVE  Reaches(Implied, work'[i].node, x)
  <2>1. i \in 1..(L - 1)
    BY <1>8
  <2> QED  BY <1>9, <1>19, <1>20, <2>1 DEF ReachInv
<1>21. ASSUME low[n] # index[n]
       PROVE  WalkInv'
  <2>1. stack' = stack /\ components' = components /\ Stacked' = Stacked /\ Done' = Done
    BY <1>4, <1>9, <1>21 DEF Stacked, Done, Members
  <2>2. PICK z \in Stacked : index[z] = low[n] /\ Reaches(Implied, n, z) /\ index[z] < index[n]
    <3>1. PICK z \in Stacked : index[z] = low[n] /\ Reaches(Implied, n, z)
      BY <1>1 DEF LowInv
    <3>2. low[n] <= index[n]
      BY <1>1 DEF LowInv
    <3> QED  BY <1>5, <1>6, <1>21, <3>1, <3>2
  <2>3. L > 1
    <3>1. index[work[1].node] <= index[z]
      BY <1>4 DEF StackInv
    <3>2. L = 1 => index[n] <= index[z]
      BY <1>1, <3>1
    <3> QED  BY <1>5, <1>6, <2>2, <3>2
  <2>4. WalkTypes'
    BY <1>17, <2>1 DEF WalkTypes
  <2>5. StackInv'
    <3>1. Stacked' \subseteq Met' /\ Framed' \subseteq Stacked'
      BY <1>5, <1>9, <1>11, <2>1 DEF StackInv
    <3>2. \A i, k \in DOMAIN stack' : i < k => index'[stack'[i]] < index'[stack'[k]]
      BY <1>9, <2>1 DEF StackInv
    <3>3. work' # <<>> /\ work'[1] = work[1]
      BY <1>8, <2>3
    <3>4. \A x \in Stacked' : index'[work'[1].node] <= index'[x]
      BY <1>4, <1>9, <2>1, <3>3 DEF StackInv
    <3> QED  BY <1>18, <3>1, <3>2, <3>3, <3>4 DEF StackInv
  <2>6. LookInv'
    <3>1. \A x \in Met' : Looked(x)' \subseteq Met'
      BY <1>9, <1>13 DEF LookInv
    <3>2. \A x \in Done' : Members(out[x])' \subseteq Done'
      BY <1>9, <2>1 DEF LookInv
    <3>3. ASSUME NEW i \in DOMAIN work', NEW x \in Stacked', Owns(i, x)', NEW y \in Looked(x)', y \in Stacked'
          PROVE  low'[work'[i].node] <= index'[y]
      <4>1. i \in 1..(L - 1) /\ x \in Stacked /\ y \in Looked(x)' \cap Stacked
        BY <1>8, <2>1, <3>3
      <4> QED  BY <1>9, <1>19, <3>3, <4>1
    <3> QED  BY <3>1, <3>2, <3>3 DEF LookInv
  <2>7. LowInv'
    <3> SUFFICES ASSUME NEW i \in DOMAIN work'
                 PROVE  /\ low'[work'[i].node] <= index'[work'[i].node]
                        /\ \E y \in Stacked' : /\ index'[y] = low'[work'[i].node]
                                               /\ Reaches(Implied, work[i].node, y)'
      BY DEF LowInv
    <3>1. i \in 1..(L - 1)
      BY <1>8
    <3>2. low[work[i].node] <= index[work[i].node]
      BY <1>19, <3>1 DEF LowInv
    <3>3. low'[work'[i].node] <= index'[work'[i].node]
      BY <1>9, <1>19, <3>1, <3>2
    <3>W. PICK w \in Node : w = work[i].node /\ w = work'[i].node
      BY <1>5, <1>19, <3>1
    <3>4. CASE i = L - 1
      <4>1. PICK y \in Stacked : index[y] = low'[w] /\ Reaches(Implied, w, y)
        BY <1>16, <2>3, <3>4, <3>W
      <4> QED  BY <1>9, <2>1, <3>3, <3>W, <4>1
    <3>5. CASE i # L - 1
      <4>1. PICK y \in Stacked : index[y] = low[w] /\ Reaches(Implied, w, y)
        BY <1>19, <3>1, <3>W DEF LowInv
      <4>2. low'[w] = low[w]
        BY <1>12, <3>1, <3>5, <3>W
      <4> QED  BY <1>9, <2>1, <3>3, <3>W, <4>1, <4>2
    <3> QED  BY <3>4, <3>5
  <2>8. ReachInv'
    <3>1. ASSUME NEW x \in Stacked', x \notin Framed'
          PROVE  \E y \in Stacked' : index'[y] < index'[x] /\ Reaches(Implied, x, y)'
      <4>1. CASE x = n
        BY <1>9, <2>1, <2>2, <4>1
      <4>2. CASE x # n
        BY <1>9, <1>11, <2>1, <3>1, <4>2 DEF ReachInv
      <4> QED  BY <4>1, <4>2
    <3> QED  BY <1>9, <1>20, <2>1, <3>1 DEF ReachInv
  <2>9. ComponentInv'
    BY <1>4, <2>1, ComponentsFixed
  <2> QED  BY <2>4, <2>5, <2>6, <2>7, <2>8, <2>9

<1>22. ASSUME low[n] = index[n]
       PROVE  WalkInv'
  <2>1. PICK C : C = Members(above)
    OBVIOUS
  <2>2. /\ below \in Seq(Node) /\ above \in Seq(Node)
        /\ Members(below) = {x \in Stacked : index[x] < index[n]}
        /\ C = {x \in Stacked : index[n] <= index[x]}
        /\ Len(above) > 1 <=> \E x \in C : x # n
        /\ \A i, k \in DOMAIN below : i < k => index[below[i]] < index[below[k]]
    BY <1>2, <1>3, <1>5, <2>1, CutFacts
  <2>3. /\ stack' = below
        /\ components' = IF Len(above) > 1 THEN Append(components, above) ELSE components
    BY <1>4, <1>22
  <2>4. /\ Stacked' = {x \in Stacked : index[x] < index[n]} /\ n \in C
        /\ C \subseteq Stacked /\ C \cap Done = {}
        /\ \A x \in Stacked : x \in C \/ x \in Stacked'
        /\ \A x \in Stacked' : x \notin C
    <3>1. Stacked' = Members(below)
      BY <2>3 DEF Stacked
    <3>2. \A x \in Stacked : index[x] \in Nat
      BY <1>5, <1>6
    <3> QED  BY <1>5, <2>2, <3>1, <3>2 DEF Done
  <2>5. Done' = Done \cup C
    BY <1>5, <1>9, <2>4 DEF Done
  <2>6. ASSUME NEW x \in C, NEW y \in Members(out[x])
        PROVE  y \in Done \cup C
    <3>1. x \in Stacked /\ x \in Met /\ Owns(L, x) /\ y \in Looked(x)
      BY <1>5, <1>14, <2>2, <2>6
    <3>2. y \in Met
      BY <3>1 DEF LookInv
    <3>3. y \in Stacked => low[n] <= index[y]
      BY <1>1, <3>1 DEF LookInv
    <3> QED  BY <1>22, <2>2, <3>2, <3>3 DEF Done
  <2>7. PICK D \in SUBSET Node : D = Done \cup C
    BY <1>5, <2>4 DEF Done
  <2>8. Closed(Implied, Done) /\ Closed(Implied, D)
    <3>1. ASSUME NEW e \in Implied
          PROVE  (e[1] \in Done => e[2] \in Done) /\ (e[1] \in D => e[2] \in D)
      <4>1. e[1] \in Node /\ e[2] \in Members(out[e[1]])
        BY ImpliedFacts
      <4> QED  BY <2>6, <2>7, <4>1 DEF LookInv
    <3> QED  BY <3>1 DEF Closed
  <2>9. \A x \in C : Reaches(Implied, n, x) /\ x \in Node
    <3>1. \A x \in C : x \in Stacked /\ index[work[L].node] <= index[x]
      BY <1>1, <2>2
    <3> QED  BY <1>1, <1>5, <3>1 DEF ReachInv
  <2>10. \A x \in C : Reaches(Implied, x, n)
    <3> DEFINE T == {x \in C : ~Reaches(Implied, x, n)}
               N == {index[x] : x \in T}
    <3> SUFFICES ASSUME T # {}
                 PROVE  FALSE
      OBVIOUS
    <3>1. N \in SUBSET Nat /\ N # {}
      BY <1>5, <1>6, <2>4
    <3>2. PICK x \in T : \A y \in T : index[x] <= index[y]
      <4>1. PICK k \in N : \A l \in N : k <= l
        BY <3>1, LeastExists
      <4> QED  BY <4>1
    <3>3. x # n
      BY <1>5, <3>2, ImpliedFacts, ReachesFacts
    <3>4. x \in Stacked /\ x \notin Framed
      BY <1>14, <2>2, <3>3
    <3>5. PICK y \in Stacked : index[y] < index[x] /\ Reaches(Implied, x, y)
      BY <3>4 DEF ReachInv
    <3>6. y \in D /\ y \notin Done
      BY <2>7, <2>8, <3>5 DEF Reaches, Done
    <3>7. y \in C /\ y \in Node /\ x \in Node /\ index[y] \in Nat /\ index[x] \in Nat
      BY <1>5, <1>6, <2>7, <2>9, <3>4, <3>5, <3>6
    <3>8. Reaches(Implied, y, n)
      BY <3>2, <3>5, <3>7
    <3>9. Reaches(Implied, x, n)
      BY <1>5, <3>5, <3>7, <3>8, ImpliedFacts, ReachesFacts
    <3> QED  BY <3>9
  <2>11. ClassOf(n) = C
    <3>1. ASSUME NEW m \in ClassOf(n)
          PROVE  m \in C
      <4>1. m \in D
        BY <2>4, <2>7, <2>8 DEF ClassOf, Reaches
      <4>2. m \in Done => n \in Done
        BY <1>5, <2>8 DEF ClassOf, Reaches, Done
      <4> QED  BY <2>4, <2>7, <4>1, <4>2
    <3> QED  BY <2>9, <2>10, <3>1 DEF ClassOf
  <2>12. \A m \in C : ClassOf(m) = C
    <3> SUFFICES ASSUME NEW m \in C
                 PROVE  ClassOf(m) = ClassOf(n)
      BY <2>11
    <3>1. m \in Node /\ Reaches(Implied, n, m) /\ Reaches(Implied, m, n)
      BY <2>9, <2>10
    <3>2. \A k \in Node : Reaches(Implied, n, k) <=> Reaches(Implied, m, k)
      BY <1>5, <3>1, ImpliedFacts, ReachesFacts
    <3>3. ASSUME NEW k \in Node
          PROVE  Reaches(Implied, k, n) <=> Reaches(Implied, k, m)
      BY <1>5, <3>1, ImpliedFacts, ReachesFacts
    <3> QED  BY <3>2, <3>3 DEF ClassOf
  <2>13. \A m \in C : Path(Implied, m, m) <=> Len(above) > 1
    <3> SUFFICES ASSUME NEW m \in C
                 PROVE  Path(Implied, m, m) <=> \E x \in C : x # n
      BY <2>2
    <3>1. Path(Implied, m, m) <=> \E k \in Node \ {m} : Reaches(Implied, m, k) /\ Reaches(Implied, k, m)
      BY <2>9, ImpliedFacts, PathFacts
    <3>2. Path(Implied, m, m) <=> \E k \in ClassOf(m) : k # m
      BY <3>1 DEF ClassOf
    <3> QED  BY <2>4, <2>12, <3>2
  <2>14. ComponentInv'
    <3> DEFINE cyclic(S) == {ClassOf(m) : m \in {m \in S : Path(Implied, m, m)}}
               classes(cs) == {Members(cs[i]) : i \in DOMAIN cs}
    <3>1. components \in Seq(Seq(Node)) /\ classes(components) = cyclic(Done)
      BY DEF ComponentInv
    <3>2. cyclic(D) = cyclic(Done) \cup cyclic(C)
      BY <2>7
    <3>3. cyclic(C) = IF Len(above) > 1 THEN {C} ELSE {}
      BY <2>4, <2>12, <2>13
    <3>4. classes(components') = cyclic(D) /\ components' \in Seq(Seq(Node))
      <4>1. CASE Len(above) > 1
        <5>1. components' = Append(components, above)
          BY <2>3, <4>1
        <5>2. /\ DOMAIN components' = 1..(Len(components) + 1) /\ Len(components) \in Nat
              /\ DOMAIN components = 1..Len(components)
              /\ components'[Len(components) + 1] = above
              /\ \A i \in 1..Len(components) : components'[i] = components[i]
          BY <3>1, <5>1, AppendFacts
        <5>3. DOMAIN components' = DOMAIN components \cup {Len(components) + 1}
          BY <5>2
        <5>4. classes(components') = classes(components) \cup {C}
          BY <2>1, <5>2, <5>3
        <5>5. components' \in Seq(Seq(Node))
          BY <2>2, <3>1, <5>1
        <5> QED  BY <3>1, <3>2, <3>3, <4>1, <5>4, <5>5
      <4>2. CASE ~(Len(above) > 1)
        <5>1. components' = components
          BY <2>3, <4>2
        <5> QED  BY <3>1, <3>2, <3>3, <4>2, <5>1
      <4> QED  BY <4>1, <4>2
    <3>5. {ClassOf(m)' : m \in {m \in Done' : Path(Implied, m, m)'}} = cyclic(D)
      BY <1>4, <2>5, <2>7, InputFixed
    <3>6. {Members(components'[i]) : i \in DOMAIN components'} = classes(components')
      OBVIOUS
    <3> QED  BY <1>9, <3>4, <3>5, <3>6 DEF ComponentInv, Members
  <2>15. WalkTypes'
    BY <1>17, <2>2, <2>3, <2>4
  <2>16. StackInv'
    <3>1. Stacked' \subseteq Met' /\ Framed' \subseteq Stacked'
      <4>1. \A i \in 1..(L - 1) : work[i].node \in Stacked'
        <5>1. \A i \in 1..(L - 1) : i \in 1..L
          OBVIOUS
        <5> QED  BY <1>7, <1>10, <2>4, <5>1
      <4> QED  BY <1>5, <1>8, <1>9, <2>4, <4>1
    <3>2. \A i, k \in DOMAIN stack' : i < k => index'[stack'[i]] < index'[stack'[k]]
      BY <1>9, <2>2, <2>3
    <3>3. ASSUME work' = <<>>
          PROVE  stack' = <<>>
      <4>1. L = 1
        BY <1>8, <3>3
      <4>2. \A x \in Stacked : index[n] <= index[x] /\ index[n] \in Nat /\ index[x] \in Nat
        BY <1>1, <1>4, <1>5, <1>6, <4>1 DEF StackInv
      <4>3. Members(below) = {}
        BY <2>2, <4>2
      <4> QED  BY <2>2, <2>3, <4>3, MembersFacts
    <3>4. ASSUME work' # <<>>
          PROVE  \A x \in Stacked' : index'[work'[1].node] <= index'[x]
      <4>1. 1 \in 1..(L - 1)
        BY <1>8, <3>4
      <4>2. work'[1] = work[1]
        BY <1>8, <4>1
      <4> QED  BY <1>4, <1>9, <2>4, <4>2 DEF StackInv
    <3> QED  BY <1>18, <3>1, <3>2, <3>3, <3>4 DEF StackInv
  <2>17. LookInv'
    <3>1. \A x \in Met' : Looked(x)' \subseteq Met'
      BY <1>9, <1>13 DEF LookInv
    <3>2. \A x \in Done' : Members(out[x])' \subseteq Done'
      BY <1>9, <2>5, <2>6 DEF LookInv
    <3>3. ASSUME NEW i \in DOMAIN work', NEW x \in Stacked', Owns(i, x)', NEW y \in Looked(x)', y \in Stacked'
          PROVE  low'[work'[i].node] <= index'[y]
      <4>1. i \in 1..(L - 1) /\ x \in Stacked /\ y \in Looked(x)' \cap Stacked
        BY <1>8, <2>4, <3>3
      <4> QED  BY <1>9, <1>19, <3>3, <4>1
    <3> QED  BY <3>1, <3>2, <3>3 DEF LookInv
  <2>18. LowInv'
    <3> SUFFICES ASSUME NEW i \in DOMAIN work'
                 PROVE  /\ low'[work'[i].node] <= index'[work'[i].node]
                        /\ \E y \in Stacked' : /\ index'[y] = low'[work'[i].node]
                                               /\ Reaches(Implied, work[i].node, y)'
      BY <1>8, <1>19 DEF LowInv
    <3>1. i \in 1..(L - 1)
      BY <1>8
    <3>2. PICK w \in Met : w = work[i].node /\ w = work'[i].node
      BY <1>19, <3>1
    <3>3. low[w] <= index[w]
      BY <1>19, <3>1, <3>2 DEF LowInv
    <3>4. low'[w] <= index[w]
      BY <1>6, <1>12, <3>3
    <3>5. PICK y \in Stacked : index[y] = low'[w] /\ Reaches(Implied, w, y)
      <4>1. CASE i = L - 1
        <5>1. L > 1
          BY <3>1
        <5> QED  BY <1>16, <3>2, <4>1, <5>1
      <4>2. CASE i # L - 1
        <5>1. low'[w] = low[w]
          BY <1>12, <3>1, <3>2, <4>2
        <5> QED  BY <1>19, <3>1, <3>2, <5>1 DEF LowInv
      <4> QED  BY <4>1, <4>2
    <3>6. y \in Stacked'
      <4>1. index[w] < index[n] /\ index[w] \in Nat /\ index[n] \in Nat /\ index[y] \in Nat
        BY <1>5, <1>6, <1>19, <3>1, <3>2
      <4> QED  BY <2>4, <3>4, <3>5, <4>1
    <3> QED  BY <1>9, <3>2, <3>4, <3>5, <3>6
  <2>19. ReachInv'
    <3>1. ASSUME NEW x \in Stacked', x \notin Framed'
          PROVE  \E y \in Stacked' : index'[y] < index'[x] /\ Reaches(Implied, x, y)'
      <4>1. x \in Stacked /\ x # n /\ index[x] < index[n] /\ index[x] \in Nat /\ index[n] \in Nat
        BY <1>5, <1>6, <2>4
      <4>2. PICK y \in Stacked : index[y] < index[x] /\ Reaches(Implied, x, y)
        BY <1>11, <3>1, <4>1 DEF ReachInv
      <4>3. index[y] \in Nat
        BY <1>5, <1>6
      <4>4. y \in Stacked'
        BY <2>4, <4>1, <4>2, <4>3
      <4> QED  BY <1>9, <4>2, <4>4
    <3> QED  BY <1>9, <1>20, <2>4, <3>1 DEF ReachInv
  <2> QED  BY <2>14, <2>15, <2>16, <2>17, <2>18, <2>19
<1> QED  BY <1>21, <1>22

-----------------------------------------------------------------------------
(* The graph: its components *)

\* The rest of build leaves the walk as it is.
LEMMA WalkRest ==
  ASSUME WalkInv, UNCHANGED <<input, tarjan>>
  PROVE  WalkInv'
<1> USE DEF WalkInv
<1>1. /\ UNCHANGED input /\ index' = index /\ low' = low /\ stack' = stack /\ work' = work
      /\ components' = components
  BY DEF tarjan
<1>2. /\ Met' = Met /\ Stacked' = Stacked /\ Done' = Done /\ Framed' = Framed /\ Counter' = Counter
      /\ (\A x : Looked(x)' = Looked(x)) /\ \A i, x : Owns(i, x)' <=> Owns(i, x)
      /\ \A x : Members(out[x])' = Members(out[x]) /\ Node' = Node
      /\ \A x, y : Reaches(Implied, x, y)' <=> Reaches(Implied, x, y)
  <2>1. Node' = Node /\ out' = out /\ \A x, y : Reaches(Implied, x, y)' <=> Reaches(Implied, x, y)
    BY <1>1, InputFixed
  <2>2. Met' = Met /\ Stacked' = Stacked /\ Done' = Done /\ Framed' = Framed /\ Counter' = Counter
    BY <1>1, <2>1 DEF Met, Stacked, Done, Framed, Counter, Members
  <2>3. \A x : Looked(x)' = Looked(x)
    BY <1>1, <2>1 DEF Looked, Members
  <2>4. \A i, x : Owns(i, x)' <=> Owns(i, x)
    BY <1>1 DEF Owns
  <2> QED  BY <1>1, <2>1, <2>2, <2>3, <2>4, InputFixed
<1>3. WalkTypes' /\ StackInv'
  BY <1>1, <1>2 DEF WalkTypes, StackInv
<1>4. LookInv'
  BY <1>1, <1>2 DEF LookInv
<1>5. LowInv' /\ ReachInv'
  BY <1>1, <1>2 DEF LowInv, ReachInv
<1>6. ComponentInv'
  BY <1>1, <1>2, ComponentsFixed
<1> QED  BY <1>3, <1>4, <1>5, <1>6

\* Every step of the graph keeps the invariant of the walk.
LEMMA WalkStep ==
  ASSUME GraphInput, WalkInv, [GraphNext]_graphVars
  PROVE  WalkInv'
<1>1. CASE Root
  BY <1>1, RootStep
<1>2. CASE Descend
  BY <1>2, DescendStep
<1>3. CASE Glance
  BY <1>3, GlanceStep
<1>4. CASE Retreat
  BY <1>4, RetreatStep
<1>5. CASE Reject \/ Keep \/ Dequeue \/ Sorted \/ Reduce \/ Built \/ UNCHANGED graphVars
  <2>1. UNCHANGED <<input, tarjan>>
    BY <1>5 DEF Reject, Keep, Dequeue, Sorted, Reduce, Built, graphVars
  <2> QED  BY <2>1, WalkRest
<1> QED  BY <1>1, <1>2, <1>3, <1>4, <1>5 DEF GraphNext

\* What is not begun is empty, and the walk has been everywhere when it ends.
PhaseInv ==
  /\ pc \in {"scanning", "rejected", "sorting", "reducing", "reduced"}
  /\ pc = "scanning" => order = <<>>
  /\ pc \in {"scanning", "sorting"} => reach = [n \in {} |-> {}] /\ reduced = [n \in Node |-> <<>>]
  /\ pc # "scanning" => work = <<>> /\ Met = Node

\* Nothing is sorted or reduced at the beginning.
LEMMA PhaseInit == GraphInit => PhaseInv
BY DEF GraphInit, PhaseInv

\* A walk that finds no node to begin at has met all of them.
LEMMA Everywhere ==
  ASSUME GraphInput, WalkInv, Unvisited = <<>>
  PROVE  Met = Node
<1>1. Members(Unvisited) = Members(nodes) \cap {x \in Node : index[x] = None} /\ Unvisited \in Seq(Node)
  BY ThoseFacts DEF Unvisited, GraphInput
<1>2. Members(Unvisited) = {}
  BY <1>1, MembersFacts
<1> QED  BY <1>1, <1>2 DEF Met, Node

\* Each phase begins when the one before has ended.
LEMMA PhaseStep ==
  ASSUME GraphInput, WalkInv, PhaseInv, [GraphNext]_graphVars
  PROVE  PhaseInv'
<1>1. Node' = Node
  BY InputStep
<1>2. CASE Root \/ Descend \/ Glance \/ Retreat
  <2>1. pc = "scanning" /\ pc' = pc /\ order' = order /\ reach' = reach /\ reduced' = reduced
    BY <1>2 DEF Root, Descend, Glance, Retreat, kahn, reduction
  <2> QED  BY <1>1, <2>1 DEF PhaseInv
<1>3. CASE Reject \/ Keep
  <2>1. /\ pc = "scanning" /\ pc' \in {"rejected", "sorting"} /\ work' = <<>> /\ Unvisited = <<>>
        /\ index' = index /\ order' = order /\ reach' = reach /\ reduced' = reduced
    BY <1>3 DEF Reject, Keep, kahn, reduction, tarjan
  <2>2. Met' = Node'
    BY <1>1, <2>1, Everywhere DEF Met
  <2> QED  BY <1>1, <2>1, <2>2 DEF PhaseInv
<1>4. CASE Dequeue \/ Sorted \/ Reduce \/ Built
  <2>1. /\ pc \in {"sorting", "reducing"} /\ pc' \in {"sorting", "reducing", "reduced"}
        /\ pc' = "sorting" => pc = "sorting" /\ reach' = reach /\ reduced' = reduced
        /\ index' = index /\ work' = work
    BY <1>4 DEF Dequeue, Sorted, Reduce, Built, tarjan, reduction
  <2>2. Met' = Met
    BY <1>1, <2>1 DEF Met
  <2> QED  BY <1>1, <2>1, <2>2 DEF PhaseInv
<1>5. CASE UNCHANGED graphVars
  <2>1. /\ pc' = pc /\ order' = order /\ reach' = reach /\ reduced' = reduced /\ index' = index
        /\ work' = work
    BY <1>5 DEF graphVars, tarjan, kahn, reduction
  <2> QED  BY <1>1, <2>1 DEF PhaseInv, Met
<1> QED  BY <1>2, <1>3, <1>4, <1>5 DEF GraphNext

GraphInv == GraphInput /\ WalkInv /\ PhaseInv

\* When the walk has ended, the components are the classes that are cycles.
LEMMA Classes ==
  ASSUME GraphInv, pc # "scanning"
  PROVE  /\ components \in Seq(Seq(Node)) /\ Done = Node
         /\ {Members(components[i]) : i \in DOMAIN components} =
              {ClassOf(n) : n \in {n \in Node : Path(Implied, n, n)}}
         /\ OnCycle = {n \in Node : Path(Implied, n, n)}
<1>1. Done = Node
  <2>1. Stacked = {}
    BY MembersFacts DEF GraphInv, PhaseInv, WalkInv, StackInv, WalkTypes, Stacked
  <2> QED  BY <2>1 DEF Done, GraphInv, PhaseInv
<1>2. components \in Seq(Seq(Node))
  BY DEF GraphInv, WalkInv, ComponentInv
<1>3. {Members(components[i]) : i \in DOMAIN components} =
        {ClassOf(n) : n \in {n \in Node : Path(Implied, n, n)}}
  BY <1>1 DEF GraphInv, WalkInv, ComponentInv
<1>4. \A n \in Node : n \in ClassOf(n)
  BY ImpliedFacts, ReachesFacts DEF GraphInv, ClassOf
<1>5. ASSUME NEW n \in Node, Path(Implied, n, n), NEW m \in ClassOf(n)
      PROVE  m \in Node /\ Path(Implied, m, m)
  <2>1. m \in Node /\ Reaches(Implied, n, m) /\ Reaches(Implied, m, n)
    BY DEF ClassOf
  <2>2. Path(Implied, m, n) \/ m = n
    BY <2>1, ImpliedFacts, PathFacts DEF GraphInv
  <2> QED  BY <1>5, <2>1, <2>2, ImpliedFacts, PathFacts DEF GraphInv
<1>6. OnCycle = {n \in Node : Path(Implied, n, n)}
  BY <1>3, <1>4, <1>5 DEF OnCycle
<1> QED  BY <1>1, <1>2, <1>3, <1>6

\* A function can be applied again and again.
Iterated(S, a, g, N) == \E f \in [0..N -> S] : f[0] = a /\ \A k \in 1..N : f[k] = g[f[k - 1]]

\* So it can, by induction on how often.
LEMMA Iterates ==
  ASSUME NEW S, NEW a \in S, NEW g \in [S -> S], NEW N \in Nat
  PROVE  Iterated(S, a, g, N)
<1> DEFINE Found(n) == \E f \in [0..n -> S] : f[0] = a /\ \A k \in 1..n : f[k] = g[f[k - 1]]
           T == {n \in Nat : ~Found(n)}
<1>1. Found(0)
  <2> DEFINE f == [k \in 0..0 |-> a]
  <2>1. f \in [0..0 -> S] /\ f[0] = a /\ 1..0 = {}
    OBVIOUS
  <2> QED  BY <2>1
<1>2. ASSUME NEW n \in Nat, Found(n)
      PROVE  Found(n + 1)
  <2>1. PICK f \in [0..n -> S] : f[0] = a /\ \A k \in 1..n : f[k] = g[f[k - 1]]
    BY <1>2
  <2> DEFINE h == [k \in 0..(n + 1) |-> IF k = n + 1 THEN g[f[n]] ELSE f[k]]
  <2>2. h \in [0..(n + 1) -> S] /\ h[0] = a
    BY <2>1
  <2>3. ASSUME NEW k \in 1..(n + 1)
        PROVE  h[k] = g[h[k - 1]]
    <3>1. CASE k = n + 1
      <4>1. k - 1 = n /\ n \in 0..(n + 1) /\ n # n + 1 /\ k \in 0..(n + 1)
        BY <3>1
      <4> QED  BY <3>1, <4>1
    <3>2. CASE k # n + 1
      <4>1. k \in 1..n /\ k - 1 \in 0..n /\ k - 1 # n + 1 /\ k \in 0..(n + 1) /\ k - 1 \in 0..(n + 1)
        BY <3>2
      <4> QED  BY <2>1, <3>2, <4>1
    <3> QED  BY <3>1, <3>2
  <2> HIDE DEF h
  <2> QED  BY <2>2, <2>3
<1> HIDE DEF Found
<1>3. T = {}
  <2> SUFFICES ASSUME T # {}
               PROVE  FALSE
    OBVIOUS
  <2>1. PICK n \in T : \A m \in T : n <= m
    BY LeastExists
  <2>2. n # 0
    BY <1>1, <2>1
  <2>3. n - 1 \in Nat /\ n - 1 \notin T /\ n = (n - 1) + 1
    BY <2>1, <2>2
  <2>4. Found(n)
    BY <1>2, <2>3
  <2> QED  BY <2>4
<1>4. Found(N)
  BY <1>3
<1> QED  BY <1>4 DEF Found, Iterated

\* The walk reported for a component of which every node has a neighbour in it.
LEMMA WalkFacts ==
  ASSUME GraphInput, NEW c \in Seq(Node), c # <<>>,
         \A x \in Members(c) : Members(out[x]) \cap Members(c) # {}
  PROVE  /\ \A k \in 1..(Len(Walk(c)) - 1) : <<Walk(c)[k], Walk(c)[k + 1]>> \in Implied
         /\ Last(Walk(c)) \in Members(Front(Walk(c)))
<1> DEFINE C == Members(c)
           N == Len(c)
           next(n) == Head(Those(out[n], C))
           path == CHOOSE q : q = [k \in 1..(N + 1) |-> IF k = 1 THEN Head(c) ELSE next(q[k - 1])]
           ends == {k \in 2..(N + 1) : \E i \in 1..(k - 1) : path[i] = path[k]}
           end  == CHOOSE k \in ends : \A l \in ends : k <= l
<1>1. Walk(c) = [k \in 1..end |-> path[k]]
  BY DEF Walk
<1>2. \A x \in C : next(x) \in C /\ next(x) \in Members(out[x])
  <2> SUFFICES ASSUME NEW x \in C
               PROVE  next(x) \in C /\ next(x) \in Members(out[x])
    OBVIOUS
  <2>1. x \in Node /\ out[x] \in Seq(Node)
    BY MembersFacts DEF GraphInput
  <2>2. /\ Those(out[x], C) \in Seq(Node)
        /\ Members(Those(out[x], C)) = Members(out[x]) \cap C
    BY <2>1, ThoseFacts
  <2> HIDE DEF C
  <2>3. Those(out[x], C) # <<>>
    BY <2>2, MembersFacts DEF C
  <2>4. Head(Those(out[x], C)) \in Members(out[x]) \cap C
    BY <2>2, <2>3, MembersFacts
  <2> QED  BY <2>4
<1>3. N \in Nat /\ Head(c) \in C /\ IsFiniteSet(C) /\ Cardinality(C) <= N /\ Cardinality(C) \in Nat
  BY MembersFacts, FS_CardinalityType
<1> HIDE DEF next, C, N
<1>4. path = [k \in 1..(N + 1) |-> IF k = 1 THEN Head(c) ELSE next(path[k - 1])]
  <2> DEFINE g == [x \in C |-> next(x)]
  <2>1. g \in [C -> C]
    BY <1>2
  <2>2. PICK f \in [0..N -> C] : f[0] = Head(c) /\ \A k \in 1..N : f[k] = g[f[k - 1]]
    <3> PICK a : a = Head(c)
      OBVIOUS
    <3> HIDE DEF g
    <3>1. a \in C /\ N \in Nat /\ g \in [C -> C]
      BY <1>3, <2>1
    <3>2. Iterated(C, a, g, N)
      BY <3>1, Iterates
    <3> QED  BY <3>2 DEF Iterated
  <2> DEFINE q == [k \in 1..(N + 1) |-> f[k - 1]]
  <2>3. \A k \in 1..(N + 1) : q[k] = IF k = 1 THEN Head(c) ELSE next(q[k - 1])
    <3> SUFFICES ASSUME NEW k \in 1..(N + 1), k # 1
                 PROVE  q[k] = next(q[k - 1])
      <4>1. 1 \in 1..(N + 1) /\ q[1] = f[0]
        BY <1>3
      <4> HIDE DEF q
      <4> QED  BY <2>2, <4>1
    <3>1. k - 1 \in 1..N /\ k - 1 \in 1..(N + 1) /\ k - 1 - 1 \in 0..N
      BY <1>3
    <3>2. f[k - 1] = next(f[k - 1 - 1])
      BY <2>2, <3>1
    <3> QED  BY <3>1, <3>2
  <2>4. q = [k \in 1..(N + 1) |-> IF k = 1 THEN Head(c) ELSE next(q[k - 1])]
    BY <2>3
  <2> HIDE DEF q
  <2> QED  BY <2>4
<1> HIDE DEF path
<1>5. path \in [1..(N + 1) -> C]
  <2> DEFINE T == {k \in 1..(N + 1) : path[k] \notin C}
  <2>1. T = {}
    <3> SUFFICES ASSUME T # {}
                 PROVE  FALSE
      OBVIOUS
    <3>1. T \in SUBSET Nat
      OBVIOUS
    <3>2. PICK k \in T : \A m \in T : k <= m
      BY <3>1, LeastExists
    <3>3. k # 1
      BY <1>3, <1>4
    <3>4. k - 1 \in 1..(N + 1) /\ ~(k <= k - 1)
      BY <1>3, <3>3
    <3>5. path[k - 1] \in C /\ path[k] = next(path[k - 1])
      BY <1>4, <3>2, <3>3, <3>4
    <3> QED  BY <1>2, <3>5
  <2>2. \A k \in 1..(N + 1) : path[k] \in C
    BY <2>1
  <2>3. path = [k \in 1..(N + 1) |-> path[k]]
    BY <1>4
  <2> QED  BY <2>2, <2>3
<1>6. end \in ends /\ end \in 2..(N + 1)
  <2>1. Cardinality(1..(N + 1)) = N + 1 /\ IsFiniteSet(1..(N + 1))
    BY <1>3, FS_Interval
  <2>2. PICK i \in 1..(N + 1), k \in 1..(N + 1) : i # k /\ path[i] = path[k]
    BY <1>3, <1>5, <2>1, FS_PigeonHole
  <2>3. i \in ends \/ k \in ends
    <3>1. CASE i < k
      <4>1. k \in 2..(N + 1) /\ i \in 1..(k - 1)
        BY <1>3, <3>1
      <4> QED  BY <2>2, <4>1
    <3>2. CASE k < i
      <4>1. i \in 2..(N + 1) /\ k \in 1..(i - 1)
        BY <1>3, <3>2
      <4> QED  BY <2>2, <4>1
    <3> QED  BY <1>3, <2>2, <3>1, <3>2
  <2>4. ends \in SUBSET Nat /\ ends # {}
    BY <2>3
  <2>5. \E e \in ends : \A l \in ends : e <= l
    BY <2>4, LeastExists
  <2>6. end \in ends
    BY <2>5
  <2> QED  BY <2>6
<1>7. PICK w : w = Walk(c)
  OBVIOUS
<1>8. PICK e \in 2..(N + 1) : e = end /\ \E i \in 1..(e - 1) : path[i] = path[e]
  BY <1>6
<1>9. w = [k \in 1..e |-> path[k]]
  BY <1>1, <1>7, <1>8
<1> HIDE DEF end, ends
<1>10. Len(w) = e /\ e \in Nat /\ w \in Seq(C) /\ w # <<>>
  <2>1. \A k \in 1..e : path[k] \in C
    BY <1>3, <1>5
  <2>2. w = [k \in 1..e |-> path[k]] /\ e \in Nat \ {0}
    BY <1>9, <1>3
  <2> QED  BY <2>1, <2>2
<1>11. ASSUME NEW k \in 1..(Len(w) - 1)
       PROVE  <<w[k], w[k + 1]>> \in Implied
  <2>1. k \in 1..e /\ k + 1 \in 1..e /\ k + 1 \in 1..(N + 1) /\ k + 1 # 1 /\ k + 1 - 1 = k /\ k \in 1..(N + 1)
    BY <1>3, <1>10
  <2>2. w[k] = path[k] /\ w[k + 1] = next(path[k])
    BY <1>4, <1>9, <2>1
  <2>3. w[k] \in C /\ w[k + 1] \in Members(out[w[k]])
    BY <1>2, <1>5, <2>1, <2>2
  <2>4. C \subseteq Node
    BY MembersFacts DEF C
  <2> QED  BY <2>3, <2>4, ImpliedFacts
<1>12. Last(w) \in Members(Front(w))
  <2>1. PICK i \in 1..(e - 1) : path[i] = path[e]
    BY <1>8
  <2>2. Last(w) = path[e] /\ w[i] = path[i]
    BY <1>9, <1>10 DEF Last
  <2>3. Front(w) \in Seq(C) /\ Len(Front(w)) = Len(w) - 1 /\ \A j \in 1..(Len(w) - 1) : Front(w)[j] = w[j]
    BY <1>10, FrontFacts
  <2>4. i \in DOMAIN Front(w) /\ Front(w)[i] = w[i]
    BY <1>10, <2>3
  <2> QED  BY <2>1, <2>2, <2>4 DEF Members
<1> QED  BY <1>7, <1>11, <1>12

\* What is reported of a component follows its members' edges, and comes back: there are
\* fewer members than steps.
LEMMA WalksAreCycles ==
  ASSUME GraphInv, pc # "scanning", NEW i \in DOMAIN components
  PROVE  LET walk == Walk(components[i]) IN
           /\ \A k \in 1..(Len(walk) - 1) : <<walk[k], walk[k + 1]>> \in Implied
           /\ Last(walk) \in Members(Front(walk))
<1>1. GraphInput
  BY DEF GraphInv
<1>2. PICK c \in Seq(Node) : c = components[i]
  BY Classes
<1>3. PICK n \in Node : Path(Implied, n, n) /\ Members(c) = ClassOf(n)
  <2>1. Members(components[i]) \in {Members(components[k]) : k \in DOMAIN components}
    OBVIOUS
  <2>2. Members(components[i]) \in {ClassOf(n) : n \in {n \in Node : Path(Implied, n, n)}}
    BY <2>1, Classes
  <2> QED  BY <1>2, <2>2
<1>4. n \in Members(c)
  BY <1>1, <1>3, ImpliedFacts, ReachesFacts DEF ClassOf
<1>5. c # <<>>
  BY <1>4, MembersFacts
<1>6. ASSUME NEW x \in Members(c)
      PROVE  Members(out[x]) \cap Members(c) # {}
  <2>1. x \in Node /\ Reaches(Implied, n, x) /\ Reaches(Implied, x, n)
    BY <1>3 DEF ClassOf
  <2>2. Path(Implied, x, n)
    <3>1. CASE x = n
      BY <1>3, <3>1
    <3>2. CASE x # n
      BY <1>1, <2>1, <3>2, ImpliedFacts, PathFacts
    <3> QED  BY <3>1, <3>2
  <2>3. PICK k \in Node : <<x, k>> \in Implied /\ Reaches(Implied, k, n)
    BY <1>1, <2>1, <2>2, ImpliedFacts, PathReaches
  <2>4. Reaches(Implied, n, k)
    BY <1>1, <2>1, <2>3, ImpliedFacts, ReachesFacts
  <2>5. k \in Members(c) /\ k \in Members(out[x])
    BY <1>1, <1>3, <2>1, <2>3, <2>4, ImpliedFacts DEF ClassOf
  <2> QED  BY <2>5
<1> HIDE DEF Walk
<1>7. /\ \A k \in 1..(Len(Walk(c)) - 1) : <<Walk(c)[k], Walk(c)[k + 1]>> \in Implied
      /\ Last(Walk(c)) \in Members(Front(Walk(c)))
  BY <1>1, <1>5, <1>6, WalkFacts
<1> QED  BY <1>2, <1>7

\* The components are the classes, and their walks are cycles.
LEMMA ClassesAreCycles == GraphInv => ComponentsAreCycles
<1> SUFFICES ASSUME GraphInv, pc \in {"rejected", "sorting"}
             PROVE  /\ {Members(components[i]) : i \in DOMAIN components} =
                         {{m \in Node : Path(Implied, n, m) /\ Path(Implied, m, n)} :
                            n \in {n \in Node : Path(Implied, n, n)}}
                    /\ \A i \in DOMAIN components :
                         LET walk == Walk(components[i]) IN
                           /\ \A k \in 1..(Len(walk) - 1) : <<walk[k], walk[k + 1]>> \in Implied
                           /\ Last(walk) \in Members(Front(walk))
  BY DEF ComponentsAreCycles, Implied
<1>1. ASSUME NEW n \in Node, Path(Implied, n, n)
      PROVE  ClassOf(n) = {m \in Node : Path(Implied, n, m) /\ Path(Implied, m, n)}
  <2>1. ASSUME NEW m \in Node
        PROVE  Reaches(Implied, n, m) /\ Reaches(Implied, m, n) <=> Path(Implied, n, m) /\ Path(Implied, m, n)
    BY <1>1, ImpliedFacts, PathFacts DEF GraphInv
  <2> QED  BY <2>1 DEF ClassOf
<1>2. {Members(components[i]) : i \in DOMAIN components} =
        {ClassOf(n) : n \in {n \in Node : Path(Implied, n, n)}}
  BY Classes
<1>3. \A i \in DOMAIN components :
        LET walk == Walk(components[i]) IN
          /\ \A k \in 1..(Len(walk) - 1) : <<walk[k], walk[k + 1]>> \in Implied
          /\ Last(walk) \in Members(Front(walk))
  BY WalksAreCycles
<1> QED  BY <1>1, <1>2, <1>3

-----------------------------------------------------------------------------
(* The graph: what is kept, and its order *)

\* The edges of the graph, without those that were dropped.
KeptEdges == Members(kept)

KeptInv ==
  pc \in {"sorting", "reducing", "reduced"} =>
    /\ kept \in Seq(Node \X Node) /\ KeptEdges = {e \in Implied : ~Dropped(e)}
    /\ acyclicOut \in [Node -> Seq(Node)]
    /\ \A n \in Node : Members(acyclicOut[n]) = {m \in Node : <<n, m>> \in KeptEdges}

\* Keep leaves what the components do not drop.
LEMMA Keeping ==
  ASSUME GraphInv, Keep
  PROVE  /\ KeptInv' /\ kept' \in Seq(Node \X Node)
<1>1. /\ kept' = Those(implies, {e \in Members(implies) : ~Dropped(e)})
      /\ acyclicOut' = [n \in Node |-> Adjacent(kept', n)]
      /\ UNCHANGED <<input, components>>
  BY DEF Keep, tarjan
<1>2. implies \in Seq(Node \X Node)
  BY DEF GraphInv, GraphInput
<1>3. /\ kept' \in Seq(Node \X Node)
      /\ Members(kept') = Members(implies) \cap {e \in Members(implies) : ~Dropped(e)}
  BY <1>1, <1>2, ThoseFacts
<1>4. PICK k : k = kept'
  OBVIOUS
<1>5. \A n \in Node : /\ Adjacent(k, n) \in Seq(Node)
                      /\ Members(Adjacent(k, n)) = {m \in Node : <<n, m>> \in Members(k)}
  BY <1>3, <1>4, AdjacentFacts
<1>6. acyclicOut' = [n \in Node |-> Adjacent(k, n)]
  BY <1>1, <1>4
<1>7. /\ acyclicOut' \in [Node -> Seq(Node)]
      /\ \A n \in Node : Members(acyclicOut'[n]) = {m \in Node : <<n, m>> \in Members(k)}
  BY <1>5, <1>6
<1>8. Node' = Node /\ Implied' = Implied
  BY <1>1, InputFixed
<1>9. \A e : Dropped(e)' <=> Dropped(e)
  BY <1>1 DEF Dropped, OnCycle, Members
<1>10. KeptEdges' = {e \in Implied : ~Dropped(e)} /\ KeptEdges' = Members(k)
  BY <1>3, <1>4 DEF KeptEdges, Implied, Members
<1>11. \A n : Members(acyclicOut[n])' = Members(acyclicOut'[n])
  BY DEF Members
<1> QED  BY <1>3, <1>4, <1>7, <1>8, <1>9, <1>10, <1>11 DEF KeptInv

\* After Keep nothing changes what is kept.
LEMMA KeptStep ==
  ASSUME GraphInv, KeptInv, [GraphNext]_graphVars
  PROVE  KeptInv'
<1>1. CASE Keep
  BY <1>1, Keeping
<1>2. CASE Root \/ Descend \/ Glance \/ Retreat \/ Reject
  <2>1. pc' \in {"scanning", "rejected"}
    BY <1>2 DEF Root, Descend, Glance, Retreat, Reject
  <2> QED  BY <2>1 DEF KeptInv
<1>3. CASE Dequeue \/ Sorted \/ Reduce \/ Built \/ UNCHANGED graphVars
  <2>1. /\ UNCHANGED <<input, components, kept, acyclicOut>>
        /\ pc' \in {"sorting", "reducing", "reduced"} => pc \in {"sorting", "reducing", "reduced"}
    BY <1>3 DEF Dequeue, Sorted, Reduce, Built, graphVars, tarjan, graph
  <2>2. Node' = Node /\ Implied' = Implied
    BY <2>1, InputFixed
  <2>3. \A e : Dropped(e)' <=> Dropped(e)
    BY <2>1 DEF Dropped, OnCycle, Members
  <2>4. KeptEdges' = KeptEdges /\ \A n : Members(acyclicOut[n])' = Members(acyclicOut[n])
    BY <2>1 DEF KeptEdges, Members
  <2> QED  BY <2>1, <2>2, <2>3, <2>4 DEF KeptInv
<1> QED  BY <1>1, <1>2, <1>3 DEF GraphNext

\* Without the edges between nodes that are on cycles there is no cycle left: among any
\* nodes there is one that no other of them leads to.
LEMMA KeptIsAcyclic ==
  ASSUME GraphInv, KeptInv, pc \in {"sorting", "reducing", "reduced"},
         NEW C \in SUBSET Node, C # {}
  PROVE  \E v \in C : \A u \in C : <<u, v>> \notin KeptEdges
<1> DEFINE From(x) == {y \in Node : Reaches(Implied, x, y)}
           f == [x \in C |-> Cardinality(Node) - Cardinality(From(x))]
<1>1. GraphInput /\ IsFiniteSet(Node) /\ IsFiniteSet(C) /\ Cardinality(Node) \in Nat
  BY NodeFinite, FS_Subset, FS_CardinalityType DEF GraphInv
<1>2. \A x : IsFiniteSet(From(x)) /\ Cardinality(From(x)) \in Nat
  BY <1>1, FS_Subset, FS_CardinalityType
<1>3. \A x \in C : f[x] \in Int
  <2> HIDE DEF From
  <2> QED  BY <1>1, <1>2
<1>4. PICK v \in C : \A y \in C : f[v] <= f[y]
  <2> HIDE DEF f
  <2> QED  BY <1>1, <1>3, MinimumExists
<1>5. ASSUME NEW u \in C, <<u, v>> \in KeptEdges
      PROVE  FALSE
  <2>1. <<u, v>> \in Implied /\ ~Dropped(<<u, v>>)
    BY <1>5 DEF KeptInv
  <2>2. From(v) \subseteq From(u)
    BY <1>1, <2>1, ImpliedFacts, ReachesFacts
  <2>3. Cardinality(From(u)) <= Cardinality(From(v))
    <3> HIDE DEF From
    <3> QED  BY <1>1, <1>2, <1>4
  <2>4. From(v) = From(u)
    <3> HIDE DEF From
    <3>1. Cardinality(From(v)) <= Cardinality(From(u))
      BY <1>2, <2>2, FS_Subset
    <3>2. Cardinality(From(v)) = Cardinality(From(u))
      BY <1>2, <2>3, <3>1
    <3> QED  BY <1>2, <2>2, <3>2, FS_Subset
  <2>5. Reaches(Implied, v, u)
    BY <1>1, <2>4, ImpliedFacts, ReachesFacts
  <2>6. Path(Implied, u, u)
    BY <1>1, <2>1, <2>5, ImpliedFacts, PathReaches
  <2>7. Path(Implied, v, v)
    <3>1. Reaches(Implied, u, v) /\ u # v
      BY <1>1, <2>1, ImpliedFacts, ReachesFacts
    <3> QED  BY <1>1, <2>5, <3>1, ImpliedFacts, PathFacts
  <2>8. u \in OnCycle /\ v \in OnCycle
    BY <2>6, <2>7, Classes
  <2> QED  BY <2>1, <2>8 DEF Dropped
<1> QED  BY <1>5

Placed == Members(order)
Waiting(m) == {i \in DOMAIN kept : kept[i][2] = m /\ kept[i][1] \notin Placed}

\* Kahn's: what is ready and not placed is what waits for nothing, and a node was placed
\* after all that lead to it.
SortInv ==
  pc \in {"sorting", "reducing", "reduced"} =>
    /\ order \in Seq(Node) /\ ready \in Seq(Node) /\ NoRepeat(order) /\ NoRepeat(ready)
    /\ indegree \in [Node -> Nat] /\ \A m \in Node : indegree[m] = Cardinality(Waiting(m))
    /\ Members(ready) = {m \in Node \ Placed : Waiting(m) = {}}
    /\ \A i \in DOMAIN order, e \in KeptEdges : e[2] = order[i] => \E k \in 1..(i - 1) : order[k] = e[1]
    /\ pc # "sorting" => ready = <<>>

\* The kept edges are finitely many pairs of nodes.
LEMMA KeptFinite ==
  ASSUME kept \in Seq(Node \X Node)
  PROVE  /\ IsFiniteSet(DOMAIN kept)
         /\ \A n, m \in Node : Times(n, m) \in Nat
         /\ \A i \in DOMAIN kept : kept[i] \in KeptEdges /\ kept[i] = <<kept[i][1], kept[i][2]>>
                                   /\ kept[i][1] \in Node /\ kept[i][2] \in Node
<1>1. DOMAIN kept = 1..Len(kept) /\ Len(kept) \in Nat
  OBVIOUS
<1>2. IsFiniteSet(DOMAIN kept)
  BY <1>1, FS_Interval
<1>3. \A n, m \in Node : Times(n, m) \in Nat
  BY <1>2, FS_Subset, FS_CardinalityType DEF Times
<1>4. \A i \in DOMAIN kept : kept[i] \in KeptEdges
  BY DEF KeptEdges, Members
<1>5. \A i \in DOMAIN kept : kept[i] \in Node \X Node
  OBVIOUS
<1>6. \A i \in DOMAIN kept : kept[i] = <<kept[i][1], kept[i][2]>> /\ kept[i][1] \in Node /\ kept[i][2] \in Node
  BY <1>5
<1> QED  BY <1>2, <1>3, <1>4, <1>6

\* Before the first node is placed those ready are those no kept edge leads to.
LEMMA SortBegun ==
  ASSUME GraphInv, Keep
  PROVE  SortInv'
<1>1. kept' \in Seq(Node \X Node) /\ Node' = Node /\ order' = <<>>
  <2>1. UNCHANGED <<input, order>> /\ order = <<>>
    BY DEF Keep, GraphInv, PhaseInv
  <2> QED  BY <2>1, Keeping, InputFixed
<1>2. PICK k : k = kept'
  OBVIOUS
<1>3. \A n \in Node : Into(k, n) \in Nat
  <2>1. DOMAIN k = 1..Len(k) /\ Len(k) \in Nat
    BY <1>1, <1>2
  <2>2. IsFiniteSet(DOMAIN k)
    BY <2>1, FS_Interval
  <2> QED  BY <2>2, FS_Subset, FS_CardinalityType DEF Into
<1>4. indegree' = [n \in Node |-> Into(k, n)]
  BY <1>2 DEF Keep
<1>5. Placed' = {}
  BY <1>1 DEF Placed, Members
<1>6. \A m : Waiting(m)' = {i \in DOMAIN k : k[i][2] = m}
  BY <1>2, <1>5 DEF Waiting
<1>7. \A m \in Node : indegree'[m] = Cardinality(Waiting(m)') /\ indegree'[m] \in Nat
  BY <1>3, <1>4, <1>6 DEF Into
<1>8. \A m \in Node : indegree'[m] = 0 <=> Waiting(m)' = {}
  <2>1. IsFiniteSet(DOMAIN k)
    <3>1. DOMAIN k = 1..Len(k) /\ Len(k) \in Nat
      BY <1>1, <1>2
    <3> QED  BY <3>1, FS_Interval
  <2>2. \A m \in Node : IsFiniteSet(Waiting(m)')
    BY <1>6, <2>1, FS_Subset
  <2> QED  BY <1>7, <2>2, FS_EmptySet
<1>9. ready' = Those(nodes, {n \in Node : indegree'[n] = 0})
  BY DEF Keep
<1>10. /\ ready' \in Seq(Node) /\ NoRepeat(ready')
       /\ Members(ready') = Members(nodes) \cap {n \in Node : indegree'[n] = 0}
  <2>1. nodes \in Seq(Node) /\ NoRepeat(nodes)
    BY DEF GraphInv, GraphInput
  <2> QED  BY <1>9, <2>1, ThoseFacts
<1>11. Members(ready)' = {m \in Node \ Placed' : Waiting(m)' = {}} /\ NoRepeat(ready)'
  <2>1. Members(ready)' = Members(ready') /\ NoRepeat(ready)' = NoRepeat(ready') /\ Members(nodes) = Node
    BY DEF Members, NoRepeat, Node
  <2> QED  BY <1>5, <1>8, <1>10, <2>1
<1>12. order' \in Seq(Node) /\ NoRepeat(order)' /\ DOMAIN order' = {}
  BY <1>1 DEF NoRepeat
<1>13. pc' = "sorting"
  BY DEF Keep
<1>14. indegree' \in [Node -> Nat]
  BY <1>3, <1>4
<1> QED  BY <1>1, <1>7, <1>10, <1>11, <1>12, <1>13, <1>14 DEF SortInv

\* A placed node is no longer waited for; a node is ready when it waits for none.
LEMMA DequeueSorts ==
  ASSUME GraphInv, KeptInv, SortInv, Dequeue
  PROVE  SortInv'
<1>1. /\ pc = "sorting" /\ kept \in Seq(Node \X Node) /\ KeptEdges = {e \in Implied : ~Dropped(e)}
      /\ acyclicOut \in [Node -> Seq(Node)]
      /\ \A m \in Node : Members(acyclicOut[m]) = {k \in Node : <<m, k>> \in KeptEdges}
      /\ order \in Seq(Node) /\ ready \in Seq(Node) /\ NoRepeat(order) /\ NoRepeat(ready)
      /\ indegree \in [Node -> Nat] /\ \A m \in Node : indegree[m] = Cardinality(Waiting(m))
      /\ Members(ready) = {m \in Node \ Placed : Waiting(m) = {}}
      /\ \A i \in DOMAIN order, e \in KeptEdges : e[2] = order[i] => \E k \in 1..(i - 1) : order[k] = e[1]
  BY DEF Dequeue, KeptInv, SortInv
<1>2. PICK n \in Node, free \in SUBSET Node :
        /\ n = Last(ready) /\ free = {m \in Node : indegree[m] = Times(n, m)}
        /\ order' = Append(order, n)
        /\ indegree' = [m \in Node |-> indegree[m] - Times(n, m)]
        /\ ready' = Front(ready) \o Reversed(Those(Distinct(Reversed(acyclicOut[n])), free))
        /\ UNCHANGED <<input, graph>> /\ pc' = "sorting" /\ ready # <<>>
  <2>1. ready # <<>> /\ Last(ready) \in Node
    BY <1>1, FrontFacts DEF Dequeue
  <2> QED  BY <2>1 DEF Dequeue
<1>3. /\ Front(ready) \in Seq(Node) /\ NoRepeat(Front(ready))
      /\ Members(Front(ready)) = Members(ready) \ {n} /\ n \in Members(ready)
  <2>1. /\ Front(ready) \in Seq(Node) /\ NoRepeat(Front(ready))
        /\ Members(ready) = Members(Front(ready)) \cup {Last(ready)}
        /\ Last(ready) \notin Members(Front(ready))
    <3>1. ready \in Seq(Node) /\ ready # <<>> /\ NoRepeat(ready)
      BY <1>1, <1>2
    <3> QED  BY <3>1, FrontFacts
  <2> QED  BY <1>2, <2>1
<1>4. n \notin Placed /\ Waiting(n) = {}
  BY <1>1, <1>3
<1>5. /\ order' \in Seq(Node) /\ NoRepeat(order') /\ Members(order') = Placed \cup {n}
      /\ Len(order) \in Nat /\ DOMAIN order' = 1..(Len(order) + 1) /\ order'[Len(order) + 1] = n
      /\ DOMAIN order = 1..Len(order)
      /\ \A i \in 1..Len(order) : order'[i] = order[i]
  <2>1. order' \in Seq(Node) /\ Len(order) \in Nat /\ DOMAIN order = 1..Len(order)
    BY <1>1, <1>2
  <2> QED  BY <1>1, <1>2, <1>4, <2>1, AppendFacts DEF Placed
<1>6. Node' = Node /\ KeptEdges' = KeptEdges /\ kept' = kept /\ Placed' = Placed \cup {n}
  <2>1. Node' = Node /\ kept' = kept
    BY <1>2, InputFixed DEF graph
  <2>2. Placed' = Members(order')
    BY DEF Placed, Members
  <2> QED  BY <1>5, <2>1, <2>2 DEF KeptEdges, Members
<1> DEFINE by(m) == {i \in DOMAIN kept : kept[i] = <<n, m>>}
           left(m) == Waiting(m) \ by(m)
<1>7. \A m \in Node : Waiting(m)' = left(m) /\ by(m) \subseteq Waiting(m) /\ Times(n, m) = Cardinality(by(m))
  <2>1. ASSUME NEW m \in Node, NEW i \in DOMAIN kept
        PROVE  kept[i] = <<n, m>> <=> kept[i][1] = n /\ kept[i][2] = m
    <3>1. kept[i] = <<kept[i][1], kept[i][2]>>
      BY <1>1, KeptFinite
    <3> QED  BY <3>1
  <2>2. \A m \in Node : Waiting(m)' = left(m)
    BY <1>6, <2>1 DEF Waiting
  <2>3. \A m \in Node : by(m) \subseteq Waiting(m)
    BY <1>4, <2>1 DEF Waiting
  <2> QED  BY <2>2, <2>3 DEF Times
<1>8. \A m \in Node : /\ IsFiniteSet(Waiting(m)) /\ IsFiniteSet(left(m)) /\ Times(n, m) \in Nat
                      /\ Cardinality(left(m)) = Cardinality(Waiting(m)) - Times(n, m)
                      /\ Cardinality(left(m)) \in Nat
  <2> SUFFICES ASSUME NEW m \in Node
               PROVE  /\ IsFiniteSet(Waiting(m)) /\ IsFiniteSet(left(m)) /\ Times(n, m) \in Nat
                      /\ Cardinality(left(m)) = Cardinality(Waiting(m)) - Times(n, m)
                      /\ Cardinality(left(m)) \in Nat
    OBVIOUS
  <2>1. IsFiniteSet(Waiting(m)) /\ Times(n, m) \in Nat
    BY <1>1, KeptFinite, FS_Subset DEF Waiting
  <2>2. IsFiniteSet(left(m)) /\ Cardinality(left(m)) = Cardinality(Waiting(m)) - Cardinality(Waiting(m) \cap by(m))
    <3> HIDE DEF by
    <3> QED  BY <2>1, FS_Difference
  <2>3. Waiting(m) \cap by(m) = by(m)
    BY <1>7
  <2> HIDE DEF by, left
  <2> QED  BY <1>7, <2>1, <2>2, <2>3, FS_CardinalityType
<1>9. \A m \in Node : m \in free <=> left(m) = {}
  <2>1. \A m \in Node : Cardinality(left(m)) = 0 <=> left(m) = {}
    BY <1>8, FS_EmptySet
  <2>2. \A m \in Node : Cardinality(Waiting(m)) \in Nat /\ indegree[m] = Cardinality(Waiting(m))
    BY <1>1, <1>8, FS_CardinalityType
  <2>3. \A m \in Node : m \in free <=> Cardinality(Waiting(m)) = Times(n, m)
    BY <1>2, <2>2
  <2>4. \A m \in Node : /\ Times(n, m) \in Nat
                        /\ Cardinality(left(m)) = Cardinality(Waiting(m)) - Times(n, m)
    BY <1>8
  <2> HIDE DEF left
  <2>5. \A m \in Node : Cardinality(left(m)) = 0 <=> Cardinality(Waiting(m)) = Times(n, m)
    BY <2>2, <2>4
  <2> QED  BY <2>1, <2>3, <2>5
<1>10. /\ indegree' \in [Node -> Nat]
       /\ \A m \in Node : indegree'[m] = Cardinality(left(m))
  <2> HIDE DEF left
  <2>1. \A m \in Node : indegree[m] - Times(n, m) = Cardinality(left(m))
    BY <1>1, <1>8
  <2> QED  BY <1>2, <1>8, <2>1
<1>11. PICK fresh : fresh = Reversed(Those(Distinct(Reversed(acyclicOut[n])), free))
  OBVIOUS
<1>12. fresh \in Seq(Node) /\ NoRepeat(fresh) /\ Members(fresh) = {m \in free : <<n, m>> \in KeptEdges}
  <2>1. acyclicOut[n] \in Seq(Node)
    BY <1>1
  <2>2. Reversed(acyclicOut[n]) \in Seq(Node) /\ Members(Reversed(acyclicOut[n])) = Members(acyclicOut[n])
    BY <2>1, ReversedFacts
  <2>3. PICK d \in Seq(Node) : /\ d = Distinct(Reversed(acyclicOut[n])) /\ NoRepeat(d)
                               /\ Members(d) = Members(acyclicOut[n])
    BY <2>2, DistinctFacts
  <2>4. PICK t \in Seq(Node) : t = Those(d, free) /\ NoRepeat(t) /\ Members(t) = Members(d) \cap free
    BY <2>3, ThoseFacts
  <2>5. fresh \in Seq(Node) /\ NoRepeat(fresh) /\ Members(fresh) = Members(t)
    BY <1>11, <2>3, <2>4, ReversedFacts
  <2> QED  BY <1>1, <2>3, <2>4, <2>5
<1>13. ASSUME NEW m \in Members(fresh)
       PROVE  m \in Node /\ m # n /\ m \notin Placed /\ m \notin Members(ready)
  <2>1. m \in Node /\ <<n, m>> \in KeptEdges
    BY <1>12
  <2>2. m # n
    <3>1. <<n, m>> \in Implied /\ <<n, m>>[1] = n /\ <<n, m>>[2] = m
      BY <1>1, <2>1
    <3> QED  BY <3>1, ImpliedFacts DEF GraphInv
  <2>3. m \notin Placed
    <3> SUFFICES ASSUME NEW i \in DOMAIN order, order[i] = m
                 PROVE  FALSE
      BY DEF Placed, Members
    <3>1. PICK k \in 1..(i - 1) : order[k] = n
      BY <1>1, <2>1
    <3>2. k \in DOMAIN order
      BY <1>5
    <3> QED  BY <1>4, <3>1, <3>2 DEF Placed, Members
  <2>4. Waiting(m) # {}
    <3>1. PICK i \in DOMAIN kept : kept[i] = <<n, m>>
      BY <2>1 DEF KeptEdges, Members
    <3>2. i \in Waiting(m)
      BY <1>4, <3>1 DEF Waiting
    <3> QED  BY <3>2
  <2> QED  BY <1>1, <2>1, <2>2, <2>3, <2>4
<1>14. /\ ready' \in Seq(Node) /\ NoRepeat(ready')
       /\ Members(ready') = (Members(ready) \ {n}) \cup Members(fresh)
  <2>1. PICK f \in Seq(Node) : f = Front(ready)
    BY <1>3
  <2>2. NoRepeat(f) /\ Members(f) = Members(ready) \ {n} /\ Members(f) \cap Members(fresh) = {}
    BY <1>3, <1>13, <2>1
  <2>3. f \o fresh \in Seq(Node) /\ NoRepeat(f \o fresh) /\ Members(f \o fresh) = Members(f) \cup Members(fresh)
    <3>1. f \in Seq(Node) /\ fresh \in Seq(Node)
      BY <1>12
    <3>2. f \o fresh \in Seq(Node) /\ Members(f \o fresh) = Members(f) \cup Members(fresh)
      BY <3>1, ConcatFacts
    <3>3. NoRepeat(f) /\ NoRepeat(fresh) /\ Members(f) \cap Members(fresh) = {}
      BY <1>12, <2>2
    <3>4. NoRepeat(f \o fresh)
      BY <3>1, <3>3, ConcatFacts
    <3> QED  BY <3>2, <3>4
  <2> QED  BY <1>2, <1>11, <2>1, <2>2, <2>3
<1>15. ASSUME NEW m \in Node
       PROVE  m \in Members(ready') <=> m \notin Placed \cup {n} /\ left(m) = {}
  <2>1. CASE m \in Members(ready) /\ m # n
    <3>1. m \notin Placed /\ Waiting(m) = {}
      BY <1>1, <2>1
    <3> QED  BY <1>14, <2>1, <3>1
  <2>2. CASE m \in Members(fresh)
    <3>1. m \in free
      BY <1>12, <2>2
    <3> QED  BY <1>9, <1>13, <1>14, <2>2, <3>1
  <2>3. CASE m = n
    BY <1>13, <1>14, <2>3
  <2>4. CASE m # n /\ m \notin Members(ready) /\ m \notin Members(fresh)
    <3> SUFFICES ASSUME m \notin Placed, left(m) = {}
                 PROVE  FALSE
      BY <1>14, <2>4
    <3>1. Waiting(m) # {}
      BY <1>1, <2>4
    <3>2. PICK i \in DOMAIN kept : kept[i] = <<n, m>>
      BY <3>1 DEF Waiting
    <3>3. <<n, m>> \in KeptEdges
      BY <3>2 DEF KeptEdges, Members
    <3> QED  BY <1>9, <1>12, <2>4, <3>3
  <2> QED  BY <2>1, <2>2, <2>3, <2>4
<1>16. ASSUME NEW i \in DOMAIN order', NEW e \in KeptEdges, e[2] = order'[i]
       PROVE  \E k \in 1..(i - 1) : order'[k] = e[1]
  <2>1. CASE i \in 1..Len(order)
    <3>1. PICK k \in 1..(i - 1) : order[k] = e[1]
      BY <1>1, <1>5, <1>16, <2>1, ZenonT(40)
    <3>2. k \in 1..Len(order)
      BY <1>5, <2>1
    <3> QED  BY <1>5, <3>1, <3>2
  <2>2. CASE i \notin 1..Len(order)
    <3>1. i = Len(order) + 1 /\ i - 1 = Len(order) /\ e[2] = n
      BY <1>5, <1>16, <2>2
    <3>2. PICK h \in DOMAIN kept : kept[h] = e
      BY DEF KeptEdges, Members
    <3>3. e[1] \in Placed
      BY <1>4, <3>1, <3>2 DEF Waiting
    <3>4. PICK k \in DOMAIN order : order[k] = e[1]
      BY <3>3 DEF Placed, Members
    <3> QED  BY <1>5, <3>1, <3>4
  <2> QED  BY <2>1, <2>2
<1>17. /\ NoRepeat(order)' /\ NoRepeat(ready)'
       /\ Members(ready)' = {m \in Node : m \notin Placed \cup {n} /\ left(m) = {}}
  <2>1. Members(ready)' = Members(ready') /\ Members(ready') \subseteq Node
    BY <1>14, MembersFacts DEF Members
  <2>2. NoRepeat(order)' /\ NoRepeat(ready)'
    BY <1>5, <1>14 DEF NoRepeat
  <2> QED  BY <1>15, <2>1, <2>2
<1>18. Members(ready)' = {m \in Node' \ Placed' : Waiting(m)' = {}}
  BY <1>6, <1>7, <1>17
<1>19. \A m \in Node' : indegree'[m] = Cardinality(Waiting(m)')
  BY <1>6, <1>7, <1>10
<1> HIDE DEF by, left
<1> QED  BY <1>2, <1>5, <1>6, <1>10, <1>14, <1>16, <1>17, <1>18, <1>19 DEF SortInv

\* Every step of the graph keeps the invariant of the order.
LEMMA SortStep ==
  ASSUME GraphInv, KeptInv, SortInv, [GraphNext]_graphVars
  PROVE  SortInv'
<1>1. CASE Keep
  BY <1>1, SortBegun
<1>2. CASE Dequeue
  BY <1>2, DequeueSorts
<1>3. CASE Root \/ Descend \/ Glance \/ Retreat \/ Reject
  <2>1. pc' \in {"scanning", "rejected"}
    BY <1>3 DEF Root, Descend, Glance, Retreat, Reject
  <2> QED  BY <2>1 DEF SortInv
<1>4. CASE Sorted \/ Reduce \/ Built \/ UNCHANGED graphVars
  <2>1. /\ UNCHANGED <<input, kept, order, ready, indegree>>
        /\ pc' \in {"sorting", "reducing", "reduced"} => pc \in {"sorting", "reducing", "reduced"}
        /\ pc' # "sorting" => pc # "sorting" \/ ready = <<>>
    BY <1>4 DEF Sorted, Reduce, Built, graphVars, kahn, graph
  <2>2. Node' = Node
    BY <2>1, InputFixed
  <2>3. /\ KeptEdges' = KeptEdges /\ Placed' = Placed /\ Members(ready)' = Members(ready)
        /\ NoRepeat(order)' = NoRepeat(order) /\ NoRepeat(ready)' = NoRepeat(ready)
    BY <2>1 DEF KeptEdges, Placed, Members, NoRepeat
  <2>4. \A m : Waiting(m)' = Waiting(m)
    BY <2>1, <2>3 DEF Waiting
  <2> QED  BY <2>1, <2>2, <2>3, <2>4 DEF SortInv
<1> QED  BY <1>1, <1>2, <1>3, <1>4 DEF GraphNext

SortedInv == GraphInv /\ KeptInv /\ SortInv

\* When nothing is ready, everything is placed.
LEMMA AllPlaced ==
  ASSUME SortedInv, pc \in {"sorting", "reducing", "reduced"}, ready = <<>>
  PROVE  Placed = Node /\ order \in Seq(Node) /\ NoRepeat(order) /\ Len(order) = Len(nodes)
<1> DEFINE U == Node \ Placed
<1>1. order \in Seq(Node) /\ NoRepeat(order) /\ Members(ready) = {m \in U : Waiting(m) = {}}
  BY DEF SortedInv, SortInv
<1>2. \A m \in U : Waiting(m) # {}
  BY <1>1 DEF Members
<1>3. ASSUME NEW m \in U
      PROVE  \E u \in U : <<u, m>> \in KeptEdges
  <2>1. kept \in Seq(Node \X Node)
    BY DEF SortedInv, KeptInv
  <2>2. PICK i \in Waiting(m) : TRUE
    BY <1>2
  <2>3. i \in DOMAIN kept /\ kept[i][2] = m /\ kept[i][1] \notin Placed
    BY <2>2 DEF Waiting
  <2>4. kept[i] \in KeptEdges /\ kept[i] = <<kept[i][1], m>> /\ kept[i][1] \in Node
    BY <2>1, <2>3, KeptFinite
  <2> QED  BY <2>3, <2>4
<1>4. U = {}
  BY <1>3, KeptIsAcyclic DEF SortedInv
<1>5. Placed = Node
  BY <1>1, <1>4, MembersFacts DEF Placed
<1>6. Len(order) = Cardinality(Node)
  BY <1>1, <1>5, MembersFacts DEF Placed
<1>7. Cardinality(Node) = Len(nodes)
  BY NodeFinite DEF SortedInv, GraphInv
<1> QED  BY <1>1, <1>5, <1>6, <1>7

\* A kept edge leads forward in the order.
LEMMA OrderIsTopological ==
  ASSUME SortedInv, pc \in {"sorting", "reducing", "reduced"},
         NEW i \in DOMAIN order, NEW k \in DOMAIN order, <<order[i], order[k]>> \in KeptEdges
  PROVE  i < k
<1>1. PICK h \in 1..(k - 1) : order[h] = order[i]
  BY DEF SortedInv, SortInv
<1>2. order \in Seq(Node) /\ NoRepeat(order)
  BY DEF SortedInv, SortInv
<1>3. h \in DOMAIN order /\ h < k
  BY <1>2
<1>4. h = i
  BY <1>1, <1>2, <1>3 DEF NoRepeat
<1> QED  BY <1>3, <1>4

\* So the order is a topological one of all nodes.
LEMMA SortedIsSorted == SortedInv => SortedGraph
<1> SUFFICES ASSUME SortedInv, pc = "reduced"
             PROVE  /\ Members(order) = Node /\ Len(order) = Len(nodes)
                    /\ \A i, k \in DOMAIN order : <<order[i], order[k]>> \in Members(kept) => i < k
  BY DEF SortedGraph
<1>1. ready = <<>>
  BY DEF SortedInv, SortInv
<1> QED  BY <1>1, AllPlaced, OrderIsTopological DEF Placed, KeptEdges

-----------------------------------------------------------------------------
(* The graph: its reduction *)

\* Paths are of edges, are put together, and stay when edges are added.
LEMMA PathOfEdges ==
  ASSUME NEW arcs, NEW n, NEW m \in Node
  PROVE  /\ <<n, m>> \in arcs => Path(arcs, n, m)
         /\ \A k : Path(arcs, n, m) /\ Path(arcs, m, k) => Path(arcs, n, k)
         /\ \A more : arcs \subseteq more /\ Path(arcs, n, m) => Path(more, n, m)
<1>1. <<n, m>> \in arcs => Path(arcs, n, m)
  BY DEF Path
<1>2. ASSUME NEW k, Path(arcs, n, m), Path(arcs, m, k)
      PROVE  Path(arcs, n, k)
  <2> SUFFICES ASSUME NEW S \in SUBSET Node, Closed(arcs, S), {x \in Node : <<n, x>> \in arcs} \subseteq S
               PROVE  k \in S
    BY DEF Path
  <2>1. m \in S
    BY <1>2 DEF Path
  <2>2. \A x \in Node : <<m, x>> \in arcs => x \in S
    <3> SUFFICES ASSUME NEW x \in Node, <<m, x>> \in arcs
                 PROVE  x \in S
      OBVIOUS
    <3>1. <<m, x>>[1] = m /\ <<m, x>>[2] = x
      OBVIOUS
    <3> QED  BY <2>1, <3>1 DEF Closed
  <2> QED  BY <1>2, <2>2 DEF Path
<1>3. ASSUME NEW more, arcs \subseteq more, Path(arcs, n, m)
      PROVE  Path(more, n, m)
  BY <1>3 DEF Path, Closed
<1> QED  BY <1>1, <1>2, <1>3

Before(n, m) == \E i, k \in DOMAIN order : order[i] = n /\ order[k] = m /\ i < k

\* A path leads to a later node.
LEMMA PathsAreForward ==
  ASSUME SortedInv, pc \in {"sorting", "reducing", "reduced"}, ready = <<>>,
         NEW arcs, arcs \subseteq KeptEdges, NEW n \in Node, NEW m \in Node, Path(arcs, n, m)
  PROVE  Before(n, m)
<1> DEFINE S == {x \in Node : Before(n, x)}
<1>1. \A x \in Node : \E i \in DOMAIN order : order[i] = x
  BY AllPlaced DEF Placed, Members
<1>2. order \in Seq(Node) /\ \A i \in DOMAIN order : i \in Nat
  BY AllPlaced
<1>3. ASSUME NEW x \in Node, NEW y \in Node, <<x, y>> \in arcs
      PROVE  Before(x, y) /\ (x \in S => y \in S)
  <2>1. PICK l \in DOMAIN order : order[l] = y
    BY <1>1
  <2>2. \A k \in DOMAIN order : order[k] = x => k < l
    BY <1>3, <2>1, OrderIsTopological
  <2>3. Before(x, y)
    BY <1>1, <2>1, <2>2 DEF Before
  <2>4. ASSUME x \in S
        PROVE  y \in S
    <3>1. PICK i \in DOMAIN order, k \in DOMAIN order : order[i] = n /\ order[k] = x /\ i < k
      BY <2>4 DEF Before
    <3>2. k < l
      BY <2>2, <3>1
    <3>3. i < l
      BY <1>2, <2>1, <3>1, <3>2
    <3> QED  BY <2>1, <3>1, <3>3 DEF Before
  <2> QED  BY <2>3, <2>4
<1>4. \A e \in arcs : e = <<e[1], e[2]>> /\ e[1] \in Node /\ e[2] \in Node
  <2>1. KeptEdges \subseteq Node \X Node
    BY MembersFacts DEF SortedInv, KeptInv, KeptEdges
  <2> QED  BY <2>1
<1>5. Closed(arcs, S)
  BY <1>3, <1>4 DEF Closed
<1>6. {x \in Node : <<n, x>> \in arcs} \subseteq S
  BY <1>3
<1> HIDE DEF S
<1>7. S \in SUBSET Node
  BY DEF S
<1>8. m \in S
  BY <1>5, <1>6, <1>7 DEF Path
<1> QED  BY <1>8 DEF S

\* The nodes to be reduced, and the kept edges to a node from one of them.
Remaining == Members(todo)
Needing(m) == {i \in DOMAIN kept : kept[i][2] = m /\ kept[i][1] \in Remaining}

\* The nodes are taken from the last to the first.  The set of a node that is still needed
\* is there, whatever a set has is reachable by what is kept of the edges, and of the nodes
\* that are done no edge is missing.
ReduceInv ==
  /\ pc \in {"reducing", "reduced"} =>
       /\ todo \in Seq(Node) /\ Len(todo) <= Len(order)
       /\ \A i \in 1..Len(todo) : todo[i] = order[i]
       /\ consumers \in [Node -> Nat] /\ \A m \in Node : consumers[m] = Cardinality(Needing(m))
       /\ DOMAIN reach \subseteq Node \ Remaining
       /\ \A m \in Node \ Remaining : Needing(m) # {} => m \in DOMAIN reach
       /\ \A m \in DOMAIN reach : reach[m] \subseteq {x \in Node : Path(Reduced, m, x)}
       /\ reduced \in [Node -> Seq(Node)]
       /\ \A n \in Node : Members(reduced[n]) \subseteq Members(acyclicOut[n])
       /\ \A n \in Remaining : reduced[n] = <<>>
       /\ \A n \in Node \ Remaining, m \in Node : <<n, m>> \in KeptEdges => Path(Reduced, n, m)
  /\ pc = "reduced" => todo = <<>>

\* Before the first node is reduced every kept edge is needed.
LEMMA ReduceBegun ==
  ASSUME SortedInv, Sorted
  PROVE  ReduceInv'
<1>1. /\ pc = "sorting" /\ ready = <<>> /\ pc' = "reducing"
      /\ consumers' = [n \in Node |-> Into(kept, n)] /\ todo' = order
      /\ UNCHANGED <<input, graph, order, reach, reduced>>
  BY DEF Sorted, kahn
<1>2. /\ Placed = Node /\ order \in Seq(Node)
      /\ kept \in Seq(Node \X Node) /\ reach = [n \in {} |-> {}] /\ reduced = [n \in Node |-> <<>>]
  BY <1>1, AllPlaced DEF SortedInv, KeptInv, GraphInv, PhaseInv
<1>3. Node' = Node /\ kept' = kept /\ Remaining' = Node /\ acyclicOut' = acyclicOut
  <2>1. Node' = Node /\ kept' = kept /\ acyclicOut' = acyclicOut
    BY <1>1, InputFixed DEF graph
  <2>2. Remaining' = Placed
    BY <1>1 DEF Remaining, Placed, Members
  <2> QED  BY <1>2, <2>1, <2>2
<1>4. \A m \in Node : Needing(m)' = {i \in DOMAIN kept : kept[i][2] = m}
  BY <1>2, <1>3, KeptFinite DEF Needing
<1>5. \A m \in Node : Into(kept, m) \in Nat
  BY <1>2, KeptFinite, FS_Subset, FS_CardinalityType DEF Into
<1>6. consumers' \in [Node' -> Nat] /\ \A m \in Node' : consumers'[m] = Cardinality(Needing(m)')
  BY <1>1, <1>3, <1>4, <1>5 DEF Into
<1>7. /\ todo' \in Seq(Node') /\ Len(todo') <= Len(order') /\ \A i \in 1..Len(todo') : todo'[i] = order'[i]
  BY <1>1, <1>2, <1>3
<1>8. DOMAIN reach' = {} /\ reduced' = [n \in Node' |-> <<>>]
  BY <1>1, <1>2, <1>3
<1>9. \A n \in Node' : Members(reduced[n])' = {}
  BY <1>8 DEF Members
<1> QED  BY <1>1, <1>3, <1>6, <1>7, <1>8, <1>9 DEF ReduceInv

\* The set that is taken over is one of those that nobody else needs.
LEMMA OwnedFacts ==
  ASSUME NEW n, LastOf(n) \in Seq(Node), LastOf(n) # <<>>,
         \A m \in Members(LastOf(n)) : Cardinality(reach[m]) \in Nat
  PROVE  Owned(n) \in Members(LastOf(n))
<1>1. PICK s \in Seq(Node) : s = LastOf(n)
  OBVIOUS
<1> DEFINE D == DOMAIN s
           size(i) == Cardinality(reach[s[i]])
           f == [i \in D |-> 0 - size(i)]
<1>2. D = 1..Len(s) /\ Len(s) \in Nat /\ IsFiniteSet(D) /\ D # {}
  <2>1. D = 1..Len(s) /\ Len(s) \in Nat
    OBVIOUS
  <2>2. D # {}
    BY <1>1, <2>1
  <2> QED  BY <2>1, <2>2, FS_Interval
<1>3. \A i \in D : size(i) \in Nat
  BY <1>1 DEF Members
<1> HIDE DEF size
<1>4. \A i \in D : f[i] \in Int
  BY <1>3
<1>5. PICK v \in D : \A k \in D : f[v] <= f[k]
  <2> HIDE DEF f, D
  <2> QED  BY <1>2, <1>4, MinimumExists
<1>6. \A k \in D : size(v) >= size(k)
  BY <1>3, <1>5
<1>7. PICK i \in D : size(i) = size(v) /\ \A k \in D : size(k) = size(v) => i <= k
  <2> DEFINE T == {k \in D : size(k) = size(v)}
  <2>1. T \in SUBSET Nat /\ T # {}
    BY <1>2
  <2>2. PICK i \in T : \A k \in T : i <= k
    BY <2>1, LeastExists
  <2> QED  BY <2>2
<1>8. \A k \in D : size(i) > size(k) \/ (size(i) = size(k) /\ i <= k)
  BY <1>3, <1>6, <1>7
<1> DEFINE chosen == CHOOSE j \in D : \A k \in D : size(j) > size(k) \/ (size(j) = size(k) /\ j <= k)
<1>9. chosen \in D
  BY <1>8
<1>10. Owned(n) = s[chosen]
  BY <1>1 DEF Owned, size
<1> HIDE DEF chosen
<1> QED  BY <1>1, <1>9, <1>10 DEF Members

\* A reduced node keeps an edge or has another way to where it leads; its set is kept if
\* it is needed, in the place of the set of a node that is no longer.
LEMMA ReduceReduces ==
  ASSUME SortedInv, ReduceInv, Reduce
  PROVE  ReduceInv'
<1>1. /\ pc = "reducing" /\ todo \in Seq(Node) /\ todo # <<>> /\ Len(todo) <= Len(order)
      /\ \A i \in 1..Len(todo) : todo[i] = order[i]
      /\ consumers \in [Node -> Nat] /\ \A m \in Node : consumers[m] = Cardinality(Needing(m))
      /\ DOMAIN reach \subseteq Node \ Remaining
      /\ \A m \in Node \ Remaining : Needing(m) # {} => m \in DOMAIN reach
      /\ \A m \in DOMAIN reach : reach[m] \subseteq {x \in Node : Path(Reduced, m, x)}
      /\ reduced \in [Node -> Seq(Node)]
      /\ \A x \in Node : Members(reduced[x]) \subseteq Members(acyclicOut[x])
      /\ \A x \in Remaining : reduced[x] = <<>>
      /\ \A x \in Node \ Remaining, m \in Node : <<x, m>> \in KeptEdges => Path(Reduced, x, m)
  BY DEF Reduce, ReduceInv
<1>2. /\ kept \in Seq(Node \X Node) /\ acyclicOut \in [Node -> Seq(Node)]
      /\ \A x \in Node : Members(acyclicOut[x]) = {m \in Node : <<x, m>> \in KeptEdges}
      /\ ready = <<>> /\ order \in Seq(Node) /\ NoRepeat(order) /\ Placed = Node
      /\ IsFiniteSet(Node)
  <2>1. ready = <<>>
    BY <1>1 DEF SortedInv, SortInv
  <2> QED  BY <1>1, <2>1, AllPlaced, NodeFinite DEF SortedInv, KeptInv, GraphInv
<1>3. PICK n \in Node, nbs \in SUBSET Node, last \in SUBSET Node :
        /\ n = Last(todo)
        /\ nbs = Members(acyclicOut[n]) /\ last = Members(LastOf(n))
  <2>1. Last(todo) \in Node
    BY <1>1, FrontFacts
  <2>2. PICK n \in Node : n = Last(todo)
    BY <2>1
  <2>3. PICK r \in Seq(Node) : r = Reversed(acyclicOut[n])
    BY <1>2, ReversedFacts
  <2>4. PICK d \in Seq(Node) : d = Distinct(r)
    BY DistinctFacts
  <2>5. PICK t \in Seq(Node) : t = Those(d, {m \in Node : consumers[m] = Times(n, m)})
    BY ThoseFacts
  <2>6. LastOf(n) \in Seq(Node)
    BY <2>3, <2>4, <2>5, ReversedFacts DEF LastOf
  <2>7. Members(LastOf(n)) \in SUBSET Node
    BY <2>6, MembersFacts
  <2>8. Members(acyclicOut[n]) \in SUBSET Node
    BY <1>2
  <2> QED  BY <2>2, <2>7, <2>8
<1>F. PICK far : far = Inherited(n)
  OBVIOUS
<1>T. todo \in Seq(Node) /\ todo # <<>> /\ order \in Seq(Node) /\ Len(todo) <= Len(order)
  BY <1>1, <1>2
<1>4. LastOf(n) \in Seq(Node) /\ last = {m \in nbs : consumers[m] = Times(n, m)}
  <2>1. PICK r \in Seq(Node) : r = Reversed(acyclicOut[n]) /\ Members(r) = nbs
    BY <1>2, <1>3, ReversedFacts
  <2>2. PICK d \in Seq(Node) : d = Distinct(r) /\ Members(d) = nbs
    BY <2>1, DistinctFacts
  <2>3. PICK t \in Seq(Node) : /\ t = Those(d, {m \in Node : consumers[m] = Times(n, m)})
                               /\ Members(t) = nbs \cap {m \in Node : consumers[m] = Times(n, m)}
    BY <2>2, ThoseFacts
  <2>4. LastOf(n) \in Seq(Node) /\ Members(LastOf(n)) = Members(t)
    BY <2>1, <2>2, <2>3, ReversedFacts DEF LastOf
  <2> QED  BY <1>3, <2>3, <2>4
<1>5. /\ reduced' = [reduced EXCEPT ![n] = Those(acyclicOut[n], Node \ far)]
      /\ reach' = [m \in (DOMAIN reach \ last) \cup {n} |-> IF m = n THEN far \cup nbs ELSE reach[m]]
      /\ consumers' = [m \in Node |-> consumers[m] - Times(n, m)]
      /\ todo' = Front(todo) /\ pc' = "reducing" /\ UNCHANGED <<input, graph, order>>
  BY <1>1, <1>3, <1>F DEF Reduce, kahn
<1>6. PICK l \in DOMAIN order : l = Len(todo) /\ order[l] = n /\ \A i \in DOMAIN order : i \in Nat
  <2>1. Len(todo) \in Nat \ {0} /\ Len(order) \in Nat /\ DOMAIN order = 1..Len(order)
    BY <1>T
  <2>2. Len(todo) \in DOMAIN order /\ Len(todo) \in 1..Len(todo)
    BY <1>T, <2>1
  <2>3. order[Len(todo)] = n
    BY <1>1, <1>3, <2>2 DEF Last
  <2> QED  BY <2>1, <2>2, <2>3
<1>7. /\ todo' \in Seq(Node) /\ Len(todo') = l - 1 /\ \A i \in 1..(l - 1) : todo'[i] = order[i]
      /\ n \in Remaining /\ Members(todo') = Remaining \ {n}
      /\ \A m \in Node : m \in Remaining <=> \E i \in 1..l : order[i] = m
  <2>1. Front(todo) \in Seq(Node) /\ Len(Front(todo)) = l - 1
        /\ \A i \in 1..(l - 1) : Front(todo)[i] = todo[i]
    <3>1. Front(todo) \in Seq(Node) /\ Len(Front(todo)) = Len(todo) - 1
          /\ \A i \in 1..(Len(todo) - 1) : Front(todo)[i] = todo[i]
      BY <1>T, FrontFacts
    <3> QED  BY <1>6, <3>1
  <2>2. \A i \in 1..(l - 1) : i \in 1..Len(todo)
    BY <1>6
  <2>3. NoRepeat(todo)
    <3>1. DOMAIN todo = 1..Len(todo) /\ DOMAIN todo \subseteq DOMAIN order
      BY <1>1, <1>2
    <3> QED  BY <1>1, <1>2, <3>1 DEF NoRepeat
  <2>4. Remaining = Members(Front(todo)) \cup {n} /\ n \notin Members(Front(todo))
    BY <1>1, <1>3, <2>3, FrontFacts DEF Remaining
  <2>5. DOMAIN todo = 1..l
    BY <1>1, <1>6
  <2>6. \A m \in Node : m \in Remaining <=> \E i \in 1..l : order[i] = m
    BY <1>1, <1>6, <2>5 DEF Remaining, Members
  <2>7. todo' = Front(todo)
    BY <1>5
  <2>8. \A i \in 1..(l - 1) : Front(todo)[i] = order[i]
    BY <1>1, <2>1, <2>2
  <2>9. n \in Remaining /\ Members(Front(todo)) = Remaining \ {n}
    BY <2>4
  <2> QED  BY <2>1, <2>6, <2>7, <2>8, <2>9
<1>8. Node' = Node /\ KeptEdges' = KeptEdges /\ kept' = kept /\ acyclicOut' = acyclicOut /\ Remaining' = Remaining \ {n}
  <2>1. Node' = Node /\ kept' = kept /\ acyclicOut' = acyclicOut
    BY <1>5, InputFixed DEF graph
  <2>2. Remaining' = Members(todo')
    BY DEF Remaining, Members
  <2> QED  BY <1>7, <2>1, <2>2 DEF KeptEdges, Members
<1> DEFINE by(m) == {i \in DOMAIN kept : kept[i] = <<n, m>>}
<1>9. \A m \in Node : /\ Needing(m)' = Needing(m) \ by(m) /\ by(m) \subseteq Needing(m)
                      /\ Times(n, m) = Cardinality(by(m)) /\ Times(n, m) \in Nat
                      /\ IsFiniteSet(Needing(m)) /\ IsFiniteSet(by(m))
  <2>1. ASSUME NEW m \in Node, NEW i \in DOMAIN kept
        PROVE  kept[i] = <<n, m>> <=> kept[i][1] = n /\ kept[i][2] = m
    <3>1. kept[i] = <<kept[i][1], kept[i][2]>>
      BY <1>2, KeptFinite
    <3> QED  BY <3>1
  <2>2. \A m \in Node : Needing(m)' = Needing(m) \ by(m)
    BY <1>8, <2>1 DEF Needing
  <2>3. \A m \in Node : by(m) \subseteq Needing(m)
    BY <1>7, <2>1 DEF Needing
  <2>4. \A m \in Node : IsFiniteSet(Needing(m)) /\ IsFiniteSet(by(m)) /\ Times(n, m) \in Nat
    BY <1>2, KeptFinite, FS_Subset DEF Needing
  <2> QED  BY <2>2, <2>3, <2>4 DEF Times
<1>10. \A m \in Node : /\ Cardinality(Needing(m) \ by(m)) = Cardinality(Needing(m)) - Times(n, m)
                       /\ Cardinality(Needing(m) \ by(m)) \in Nat
                       /\ consumers[m] = Times(n, m) => Needing(m) \ by(m) = {}
  <2> SUFFICES ASSUME NEW m \in Node
               PROVE  /\ Cardinality(Needing(m) \ by(m)) = Cardinality(Needing(m)) - Times(n, m)
                      /\ Cardinality(Needing(m) \ by(m)) \in Nat
                      /\ consumers[m] = Times(n, m) => Needing(m) \ by(m) = {}
    OBVIOUS
  <2>1. PICK N, B : N = Needing(m) /\ B = by(m)
    OBVIOUS
  <2>2. IsFiniteSet(N) /\ N \cap B = B /\ Cardinality(B) = Times(n, m) /\ Times(n, m) \in Nat
        /\ consumers[m] = Cardinality(N)
    BY <1>1, <1>9, <2>1
  <2>3. IsFiniteSet(N \ B) /\ Cardinality(N \ B) = Cardinality(N) - Cardinality(B)
        /\ Cardinality(N) \in Nat /\ Cardinality(N \ B) \in Nat
        /\ (Cardinality(N \ B) = 0 => N \ B = {})
    <3>1. IsFiniteSet(N \ B) /\ Cardinality(N \ B) = Cardinality(N) - Cardinality(N \cap B)
      BY <2>2, FS_Difference
    <3>2. Cardinality(N) \in Nat /\ Cardinality(N \ B) \in Nat
      BY <2>2, <3>1, FS_CardinalityType
    <3>3. Cardinality(N \ B) = 0 => N \ B = {}
      BY <3>1, FS_EmptySet
    <3> QED  BY <2>2, <3>1, <3>2, <3>3
  <2> HIDE DEF by
  <2> QED  BY <2>1, <2>2, <2>3
<1>11. ASSUME NEW m \in nbs
       PROVE  /\ m \in Node /\ <<n, m>> \in KeptEdges /\ m \in DOMAIN reach
              /\ reach[m] \subseteq {x \in Node : Path(Reduced, m, x)}
  <2>1. m \in Node /\ <<n, m>> \in KeptEdges
    BY <1>2, <1>3
  <2>2. m \notin Remaining
    <3> SUFFICES ASSUME NEW i \in 1..l, order[i] = m
                 PROVE  FALSE
      BY <1>7, <2>1
    <3>1. i \in DOMAIN order
      BY <1>2, <1>6
    <3>2. l < i
      BY <1>1, <1>6, <2>1, <3>1, OrderIsTopological
    <3> QED  BY <1>6, <3>1, <3>2
  <2>3. Needing(m) # {}
    <3>1. PICK i \in DOMAIN kept : kept[i] = <<n, m>>
      BY <2>1 DEF KeptEdges, Members
    <3>2. i \in by(m)
      BY <3>1
    <3> QED  BY <1>9, <2>1, <3>2
  <2>4. m \in DOMAIN reach
    BY <1>1, <2>1, <2>2, <2>3
  <2> QED  BY <1>1, <2>1, <2>4
<1>12. \A x \in far : x \in Node /\ \E m \in nbs : x \in reach[m] /\ Path(Reduced, m, x)
  <2>1. ASSUME LastOf(n) # <<>>
        PROVE  Owned(n) \in nbs
    <3>1. \A m \in Members(LastOf(n)) : m \in nbs
      BY <1>3, <1>4
    <3>2. ASSUME NEW m \in nbs
          PROVE  Cardinality(reach[m]) \in Nat
      <4>1. reach[m] \subseteq Node
        BY <1>11
      <4> QED  BY <1>2, <4>1, FS_Subset, FS_CardinalityType
    <3>3. Owned(n) \in Members(LastOf(n))
      BY <1>4, <2>1, <3>1, <3>2, OwnedFacts
    <3> QED  BY <3>1, <3>3
  <2>2. ASSUME NEW x \in far
        PROVE  \E m \in nbs : x \in reach[m]
    <3> DEFINE kin == UNION {reach[m] : m \in Members(acyclicOut[n]) \ Members(LastOf(n))}
               own == IF LastOf(n) = <<>> THEN {} ELSE reach[Owned(n)]
    <3>1. far = kin \cup own
      BY <1>F DEF Inherited
    <3>2. CASE x \in kin
      BY <1>3, <3>2
    <3>3. CASE x \in own
      <4>1. LastOf(n) # <<>> /\ x \in reach[Owned(n)]
        BY <3>3
      <4> QED  BY <2>1, <4>1
    <3> HIDE DEF kin, own
    <3> QED  BY <3>1, <3>2, <3>3
  <2> QED  BY <1>11, <2>2
<1>13. PICK old, new :
        /\ old = Reduced /\ new = Reduced' /\ old \subseteq new /\ old \subseteq KeptEdges /\ new \subseteq KeptEdges
        /\ \A m \in nbs : m \notin far => <<n, m>> \in new
  <2>1. /\ Those(acyclicOut[n], Node \ far) \in Seq(Node)
        /\ Members(Those(acyclicOut[n], Node \ far)) = nbs \cap (Node \ far)
    <3>1. PICK a \in Seq(Node) : a = acyclicOut[n] /\ Members(a) = nbs
      BY <1>2, <1>3
    <3>2. PICK T : T = Node \ far
      OBVIOUS
    <3>3. Those(a, T) \in Seq(Node) /\ Members(Those(a, T)) = Members(a) \cap T
      BY ThoseFacts
    <3> QED  BY <3>1, <3>2, <3>3
  <2>2. \A x \in Node : Members(reduced[x])' = IF x = n THEN nbs \cap (Node \ far) ELSE Members(reduced[x])
    <3>1. \A x \in Node : reduced'[x] = IF x = n THEN Those(acyclicOut[n], Node \ far) ELSE reduced[x]
      BY <1>1, <1>5
    <3>2. \A x : Members(reduced[x])' = Members(reduced'[x])
      BY DEF Members
    <3> QED  BY <2>1, <3>1, <3>2
  <2>3. Members(reduced[n]) = {}
    BY <1>1, <1>7 DEF Members
  <2>4. \A x \in Node : \A m : <<x, m>> \in Reduced <=> m \in Members(reduced[x])
    BY DEF Reduced
  <2>5. \A x \in Node : \A m : <<x, m>> \in Reduced' <=> m \in Members(reduced[x])'
    BY <1>8 DEF Reduced
  <2>6. \A e \in Reduced : e = <<e[1], e[2]>> /\ e[1] \in Node
    BY DEF Reduced
  <2>7. \A e \in Reduced' : e = <<e[1], e[2]>> /\ e[1] \in Node
    BY <1>8 DEF Reduced
  <2>8. Reduced \subseteq Reduced'
    <3>1. \A x \in Node : Members(reduced[x]) \subseteq Members(reduced[x])'
      BY <2>2, <2>3
    <3> QED  BY <2>4, <2>5, <2>6, <3>1
  <2>9. Reduced \subseteq KeptEdges
    <3>1. \A x \in Node : Members(reduced[x]) \subseteq {m \in Node : <<x, m>> \in KeptEdges}
      BY <1>1, <1>2
    <3> QED  BY <2>4, <2>6, <3>1
  <2>10. Reduced' \subseteq KeptEdges
    <3>1. \A x \in Node : Members(reduced[x])' \subseteq {m \in Node : <<x, m>> \in KeptEdges}
      BY <1>1, <1>2, <1>3, <2>2
    <3> QED  BY <2>5, <2>7, <3>1
  <2>11. \A m \in nbs : m \notin far => <<n, m>> \in Reduced'
    BY <2>2, <2>5
  <2> QED  BY <2>8, <2>9, <2>10, <2>11
<1>14. \A x, y : Path(Reduced, x, y)' <=> Path(new, x, y)
  BY <1>8, <1>13 DEF Path, Closed
<1>15. \A x, y \in Node : Path(old, x, y) => Path(new, x, y)
  BY <1>13, PathOfEdges
\* By the positions of the neighbours: what is left out is reachable through an earlier one.
<1>16. \A m \in nbs : Path(new, n, m)
  <2> DEFINE T == {k \in DOMAIN order : order[k] \in nbs /\ ~Path(new, n, order[k])}
  <2>1. T = {}
    <3> SUFFICES ASSUME T # {}
                 PROVE  FALSE
      OBVIOUS
    <3>1. T \in SUBSET Nat
      BY <1>6
    <3>2. PICK k \in T : \A j \in T : k <= j
      BY <3>1, LeastExists
    <3>3. PICK m \in nbs : m = order[k] /\ ~Path(new, n, m)
      BY <3>2
    <3>4. m \in far
      BY <1>13, <3>3, PathOfEdges
    <3>5. PICK h \in nbs : Path(Reduced, h, m)
      BY <1>12, <3>4
    <3>6. Before(h, m)
      BY <1>1, <1>2, <1>13, <3>5, PathsAreForward
    <3>7. PICK i \in DOMAIN order, j \in DOMAIN order : order[i] = h /\ order[j] = m /\ i < j
      BY <3>6 DEF Before
    <3>8. j = k
      BY <1>2, <3>2, <3>3, <3>7 DEF NoRepeat
    <3>9. i \notin T
      BY <1>6, <3>2, <3>7, <3>8
    <3>10. Path(new, n, h)
      BY <3>7, <3>9
    <3>11. Path(new, h, m)
      BY <1>13, <1>15, <3>5
    <3> QED  BY <3>3, <3>10, <3>11, PathOfEdges
  <2>2. ASSUME NEW m \in nbs
        PROVE  \E k \in DOMAIN order : order[k] = m
    BY <1>2 DEF Placed, Members
  <2> QED  BY <2>1, <2>2
<1>17. \A x \in far \cup nbs : x \in Node /\ Path(new, n, x)
  <2>1. ASSUME NEW x \in far
        PROVE  x \in Node /\ Path(new, n, x)
    <3>1. PICK m \in nbs : Path(Reduced, m, x) /\ x \in Node
      BY <1>12
    <3>2. Path(new, n, m) /\ Path(new, m, x)
      BY <1>13, <1>15, <1>16, <3>1
    <3> QED  BY <3>1, <3>2, PathOfEdges
  <2> QED  BY <1>16, <2>1
<1>18. /\ consumers' \in [Node -> Nat] /\ \A m \in Node : consumers'[m] = Cardinality(Needing(m) \ by(m))
  <2>1. \A m \in Node : consumers[m] - Times(n, m) = Cardinality(Needing(m) \ by(m))
    BY <1>1, <1>10
  <2> HIDE DEF by
  <2> QED  BY <1>5, <1>10, <2>1
<1>19. DOMAIN reach' = (DOMAIN reach \ last) \cup {n} /\ DOMAIN reach' \subseteq Node \ Remaining'
  BY <1>1, <1>5, <1>8
<1>20. ASSUME NEW m \in Node \ Remaining', Needing(m)' # {}
       PROVE  m \in DOMAIN reach'
  <2>1. CASE m = n
    BY <1>19, <2>1
  <2>2. CASE m # n
    <3>1. m \in Node \ Remaining /\ Needing(m) \ by(m) # {}
      BY <1>8, <1>9, <1>20, <2>2
    <3>2. m \in DOMAIN reach
      BY <1>1, <3>1
    <3>3. m \notin last
      BY <1>4, <1>10, <3>1
    <3> QED  BY <1>19, <3>2, <3>3
  <2> QED  BY <2>1, <2>2
<1>21. ASSUME NEW m \in DOMAIN reach'
       PROVE  reach'[m] \subseteq {x \in Node : Path(new, m, x)}
  <2>1. CASE m = n
    BY <1>5, <1>17, <1>19, <2>1
  <2>2. CASE m # n
    <3>1. m \in DOMAIN reach /\ reach'[m] = reach[m] /\ m \in Node
      BY <1>1, <1>5, <1>19, <2>2
    <3> QED  BY <1>1, <1>13, <1>15, <3>1
  <2> QED  BY <2>1, <2>2
<1>22. /\ reduced' \in [Node -> Seq(Node)]
       /\ \A x \in Node : Members(reduced'[x]) \subseteq Members(acyclicOut[x])
       /\ \A x \in Remaining' : reduced'[x] = <<>>
  <2>1. /\ Those(acyclicOut[n], Node \ far) \in Seq(Node)
        /\ Members(Those(acyclicOut[n], Node \ far)) \subseteq Members(acyclicOut[n])
    <3>1. PICK a \in Seq(Node) : a = acyclicOut[n]
      BY <1>2
    <3>2. PICK T : T = Node \ far
      OBVIOUS
    <3>3. Those(a, T) \in Seq(Node) /\ Members(Those(a, T)) = Members(a) \cap T
      BY ThoseFacts
    <3> QED  BY <3>1, <3>2, <3>3
  <2>2. \A x \in Node : reduced'[x] = IF x = n THEN Those(acyclicOut[n], Node \ far) ELSE reduced[x]
    BY <1>1, <1>5
  <2>3. reduced' \in [Node -> Seq(Node)]
    BY <1>1, <1>5, <2>1
  <2>4. \A x \in Remaining' : x \in Remaining /\ x # n /\ x \in Node
    BY <1>1, <1>8, MembersFacts DEF Remaining
  <2> QED  BY <1>1, <2>1, <2>2, <2>3, <2>4
<1>23. \A x \in Node \ Remaining', m \in Node : <<x, m>> \in KeptEdges => Path(new, x, m)
  <2> SUFFICES ASSUME NEW x \in Node \ Remaining', NEW m \in Node, <<x, m>> \in KeptEdges
               PROVE  Path(new, x, m)
    OBVIOUS
  <2>1. CASE x = n
    BY <1>2, <1>3, <1>16, <2>1
  <2>2. CASE x # n
    BY <1>1, <1>8, <1>13, <1>15, <2>2
  <2> QED  BY <2>1, <2>2
<1>24. /\ Len(todo') <= Len(order') /\ \A i \in 1..Len(todo') : todo'[i] = order'[i]
       /\ order' = order
  BY <1>1, <1>5, <1>6, <1>7
<1>25. \A x : Members(reduced[x])' = Members(reduced'[x]) /\ Members(acyclicOut[x])' = Members(acyclicOut[x])
  BY <1>8 DEF Members
<1> HIDE DEF by
<1>26. \A m \in Node' : consumers'[m] = Cardinality(Needing(m)')
  BY <1>8, <1>9, <1>18
<1> QED  BY <1>5, <1>7, <1>8, <1>14, <1>18, <1>19, <1>20, <1>21, <1>22, <1>23, <1>24, <1>25, <1>26 DEF ReduceInv

\* Every step of the graph keeps the invariant of the reduction.
LEMMA ReduceStep ==
  ASSUME SortedInv, ReduceInv, [GraphNext]_graphVars
  PROVE  ReduceInv'
<1>1. CASE Sorted
  BY <1>1, ReduceBegun
<1>2. CASE Reduce
  BY <1>2, ReduceReduces
<1>3. CASE Root \/ Descend \/ Glance \/ Retreat \/ Reject \/ Keep \/ Dequeue
  <2>1. pc' \in {"scanning", "rejected", "sorting"}
    BY <1>3 DEF Root, Descend, Glance, Retreat, Reject, Keep, Dequeue
  <2> QED  BY <2>1 DEF ReduceInv
<1>4. CASE Built \/ UNCHANGED graphVars
  <2>1. /\ UNCHANGED <<input, kept, acyclicOut, order, consumers, reach, todo, reduced>>
        /\ pc' \in {"reducing", "reduced"} => pc \in {"reducing", "reduced"}
        /\ pc' = "reduced" => pc = "reduced" \/ todo = <<>>
    BY <1>4 DEF Built, graphVars, kahn, graph, reduction
  <2>2. Node' = Node
    BY <2>1, InputFixed
  <2>3. /\ KeptEdges' = KeptEdges /\ Remaining' = Remaining /\ \A x : Members(reduced[x])' = Members(reduced[x])
        /\ \A x : Members(acyclicOut[x])' = Members(acyclicOut[x])
    BY <2>1 DEF KeptEdges, Remaining, Members
  <2>4. Reduced' = Reduced
    BY <2>2, <2>3 DEF Reduced
  <2>5. \A x, y : Path(Reduced, x, y)' <=> Path(Reduced, x, y)
    BY <2>2, <2>4 DEF Path, Closed
  <2>6. \A m : Needing(m)' = Needing(m)
    BY <2>1, <2>3 DEF Needing
  <2> QED  BY <2>1, <2>2, <2>3, <2>5, <2>6 DEF ReduceInv
<1> QED  BY <1>1, <1>2, <1>3, <1>4 DEF GraphNext

\* Following the edges as often as there are nodes finds all that can be reached.
LEMMA DescendantsFacts ==
  ASSUME SortedInv, pc \in {"sorting", "reducing", "reduced"}, NEW n \in Node
  PROVE  Descendants(n) = {m \in Node : Path(KeptEdges, n, m)} \ {n}
<1>1. /\ acyclicOut \in [Node -> Seq(Node)]
      /\ \A x \in Node : Members(acyclicOut[x]) = {m \in Node : <<x, m>> \in KeptEdges}
      /\ IsFiniteSet(Node) /\ Cardinality(Node) = Len(nodes) /\ Len(nodes) \in Nat
      /\ KeptEdges \subseteq Node \X Node
  <2>1. IsFiniteSet(Node) /\ Cardinality(Node) = Len(nodes)
    BY NodeFinite DEF SortedInv, GraphInv
  <2>2. KeptEdges \subseteq Node \X Node
    BY MembersFacts DEF SortedInv, KeptInv, KeptEdges
  <2> QED  BY <2>1, <2>2, FS_CardinalityType DEF SortedInv, KeptInv
<1> DEFINE N == Len(nodes)
           A == Members(acyclicOut[n])
           grown(X) == X \cup UNION {Members(acyclicOut[m]) : m \in X}
           seen == CHOOSE q : q = [k \in 0..N |-> IF k = 0 THEN A ELSE grown(q[k - 1])]
           R == {m \in Node : Path(KeptEdges, n, m)}
<1>2. Descendants(n) = seen[N] \ {n}
  BY DEF Descendants
<1>3. A \in SUBSET Node /\ A = {m \in Node : <<n, m>> \in KeptEdges}
  BY <1>1
<1>4. \A X \in SUBSET Node : grown(X) = X \cup {y \in Node : \E m \in X : <<m, y>> \in KeptEdges}
  <2> SUFFICES ASSUME NEW X \in SUBSET Node
               PROVE  UNION {Members(acyclicOut[m]) : m \in X} = {y \in Node : \E m \in X : <<m, y>> \in KeptEdges}
    OBVIOUS
  <2>1. \A y : y \in UNION {Members(acyclicOut[m]) : m \in X} <=> \E m \in X : y \in Members(acyclicOut[m])
    OBVIOUS
  <2>2. \A y : \A m \in X : y \in Members(acyclicOut[m]) <=> y \in Node /\ <<m, y>> \in KeptEdges
    BY <1>1
  <2>3. \A y : y \in UNION {Members(acyclicOut[m]) : m \in X} <=> y \in Node /\ \E m \in X : <<m, y>> \in KeptEdges
    BY <2>1, <2>2
  <2> QED  BY <2>3
<1>5. N \in Nat /\ N = Cardinality(Node)
  BY <1>1
<1> HIDE DEF N, A, grown
<1>6. seen = [k \in 0..N |-> IF k = 0 THEN A ELSE grown(seen[k - 1])]
  <2> DEFINE g == [X \in SUBSET Node |-> grown(X)]
  <2>1. g \in [SUBSET Node -> SUBSET Node]
    BY <1>4
  <2>2. Iterated(SUBSET Node, A, g, N)
    <3> HIDE DEF g
    <3> QED  BY <1>3, <1>5, <2>1, Iterates
  <2>3. PICK f \in [0..N -> SUBSET Node] : f[0] = A /\ \A k \in 1..N : f[k] = g[f[k - 1]]
    BY <2>2 DEF Iterated
  <2>4. \A k \in 0..N : f[k] = IF k = 0 THEN A ELSE grown(f[k - 1])
    <3> SUFFICES ASSUME NEW k \in 0..N, k # 0
                 PROVE  f[k] = grown(f[k - 1])
      BY <2>3
    <3>1. k \in 1..N /\ k - 1 \in 0..N
      BY <1>5
    <3>2. f[k - 1] \in SUBSET Node
      BY <2>3, <3>1
    <3> QED  BY <2>3, <3>1, <3>2
  <2>5. f = [k \in 0..N |-> IF k = 0 THEN A ELSE grown(f[k - 1])]
    BY <2>3, <2>4
  <2> QED  BY <2>5
<1> HIDE DEF seen
<1>7. seen[0] = A /\ \A k \in 1..N : seen[k] = grown(seen[k - 1])
  <2>1. 0 \in 0..N /\ \A k \in 1..N : k \in 0..N /\ k # 0
    BY <1>5
  <2> QED  BY <1>6, <2>1
<1>8. A \subseteq R /\ R \in SUBSET Node
  BY <1>3, PathOfEdges
<1>9. ASSUME NEW x \in R, NEW y \in Node, <<x, y>> \in KeptEdges
      PROVE  y \in R
  <2>1. Path(KeptEdges, n, x) /\ x \in Node /\ Path(KeptEdges, x, y)
    BY <1>9, PathOfEdges
  <2> QED  BY <2>1, PathOfEdges
<1>10. ASSUME NEW X \in SUBSET Node, A \subseteq X, Closed(KeptEdges, X)
       PROVE  R \subseteq X
  BY <1>3, <1>10 DEF Path
<1>11. ASSUME NEW X \in SUBSET Node
       PROVE  Closed(KeptEdges, X) <=> grown(X) = X
  <2>1. ASSUME Closed(KeptEdges, X), NEW m \in X, NEW y \in Node, <<m, y>> \in KeptEdges
        PROVE  y \in X
    <3>1. <<m, y>>[1] = m /\ <<m, y>>[2] = y
      OBVIOUS
    <3> QED  BY <2>1, <3>1 DEF Closed
  <2>2. ASSUME grown(X) = X, NEW e \in KeptEdges, e[1] \in X
        PROVE  e[2] \in X
    <3>1. e = <<e[1], e[2]>> /\ e[2] \in Node
      BY <1>1
    <3> QED  BY <1>4, <2>2, <3>1
  <2> QED  BY <1>4, <2>1, <2>2 DEF Closed
<1> HIDE DEF R
\* By the number of rounds: what is seen grows until nothing leads out of it.
<1> DEFINE Good(k) == /\ A \subseteq seen[k] /\ seen[k] \subseteq R
                      /\ Closed(KeptEdges, seen[k]) \/ k <= Cardinality(seen[k])
           T == {k \in 0..N : ~Good(k)}
<1>12. \A X : X \subseteq R => X \in SUBSET Node /\ IsFiniteSet(X) /\ Cardinality(X) \in Nat
  BY <1>1, <1>8, FS_Subset, FS_CardinalityType
<1>13. Good(0)
  BY <1>7, <1>8, <1>12
<1>14. ASSUME NEW k \in 1..N, Good(k - 1)
       PROVE  Good(k)
  <2>1. PICK X, Y : X = seen[k - 1] /\ Y = seen[k] /\ Y = grown(X)
    BY <1>7
  <2>2. X \in SUBSET Node /\ X \subseteq R /\ A \subseteq X /\ (Closed(KeptEdges, X) \/ k - 1 <= Cardinality(X))
    BY <1>12, <1>14, <2>1
  <2>3. X \subseteq Y /\ Y \subseteq R
    BY <1>4, <1>9, <2>1, <2>2
  <2>4. CASE Closed(KeptEdges, X)
    BY <1>11, <2>1, <2>2, <2>4
  <2>5. CASE ~Closed(KeptEdges, X)
    <3>1. Y # X
      BY <1>11, <2>1, <2>2, <2>5
    <3>2. Cardinality(X) <= Cardinality(Y) /\ Cardinality(X) # Cardinality(Y)
      BY <1>12, <2>2, <2>3, <3>1, FS_Subset
    <3>3. Cardinality(X) \in Nat /\ Cardinality(Y) \in Nat /\ k - 1 <= Cardinality(X)
      BY <1>12, <2>2, <2>3, <2>5
    <3>4. k <= Cardinality(Y)
      BY <3>2, <3>3
    <3> QED  BY <2>1, <2>2, <2>3, <3>4
  <2> QED  BY <2>4, <2>5
<1> HIDE DEF Good
<1>15. Good(N)
  <2>1. T = {}
    <3> SUFFICES ASSUME T # {}
                 PROVE  FALSE
      OBVIOUS
    <3>1. T \in SUBSET Nat
      OBVIOUS
    <3>2. PICK k \in T : \A j \in T : k <= j
      BY <3>1, LeastExists
    <3>3. k # 0
      BY <1>13, <3>2
    <3>4. k \in 1..N /\ k - 1 \in 0..N /\ ~(k <= k - 1)
      BY <1>5, <3>3
    <3>5. Good(k - 1)
      BY <3>2, <3>4
    <3> QED  BY <1>14, <3>2, <3>4, <3>5
  <2> QED  BY <1>5, <2>1
<1>16. A \subseteq seen[N] /\ seen[N] \subseteq R /\ (Closed(KeptEdges, seen[N]) \/ N <= Cardinality(seen[N]))
  BY <1>15 DEF Good
<1>17. seen[N] \in SUBSET Node /\ IsFiniteSet(seen[N]) /\ Cardinality(seen[N]) \in Nat
  BY <1>12, <1>16
<1>18. Closed(KeptEdges, seen[N])
  <2> SUFFICES ASSUME N <= Cardinality(seen[N])
               PROVE  Closed(KeptEdges, seen[N])
    BY <1>16
  <2>1. Cardinality(seen[N]) <= Cardinality(Node)
    BY <1>1, <1>17, FS_Subset
  <2>2. Cardinality(seen[N]) = Cardinality(Node)
    BY <1>5, <1>17, <2>1
  <2>3. seen[N] = Node
    BY <1>1, <1>17, <2>2, FS_Subset
  <2>4. \A e \in KeptEdges : e[2] \in Node
    BY <1>1
  <2> QED  BY <2>3, <2>4 DEF Closed
<1>19. seen[N] = R
  BY <1>10, <1>16, <1>17, <1>18
<1> QED  BY <1>2, <1>19 DEF R

\* When all nodes are reduced, what is left of the edges leads where the kept ones do.
LEMMA ReducedReaches ==
  ASSUME SortedInv, ReduceInv, pc = "reduced", NEW n \in Node, NEW m \in Node
  PROVE  Path(KeptEdges, n, m) <=> Path(Reduced, n, m)
<1>1. todo = <<>> /\ Remaining = {}
  BY DEF ReduceInv, Remaining, Members
<1>2. \A x, y \in Node : <<x, y>> \in KeptEdges => Path(Reduced, x, y)
  BY <1>1 DEF ReduceInv
<1>3. KeptEdges \subseteq Node \X Node
  BY MembersFacts DEF SortedInv, KeptInv, KeptEdges
<1>4. Reduced \subseteq KeptEdges
  <2>1. \A x \in Node : Members(reduced[x]) \subseteq {y \in Node : <<x, y>> \in KeptEdges}
    BY DEF ReduceInv, SortedInv, KeptInv
  <2> QED  BY <2>1 DEF Reduced
<1>5. ASSUME Path(KeptEdges, n, m)
      PROVE  Path(Reduced, n, m)
  <2> DEFINE T == {x \in Node : Path(Reduced, n, x)}
  <2>1. ASSUME NEW e \in KeptEdges, e[1] \in T
        PROVE  e[2] \in T
    <3>1. e = <<e[1], e[2]>> /\ e[1] \in Node /\ e[2] \in Node
      BY <1>3
    <3>2. Path(Reduced, e[1], e[2]) /\ Path(Reduced, n, e[1])
      BY <1>2, <2>1, <3>1
    <3> QED  BY <3>1, <3>2, PathOfEdges
  <2>2. Closed(KeptEdges, T) /\ {x \in Node : <<n, x>> \in KeptEdges} \subseteq T
    BY <1>2, <2>1 DEF Closed
  <2> QED  BY <1>5, <2>2 DEF Path
<1> QED  BY <1>4, <1>5, PathOfEdges

\* So it leads where descendants goes.
LEMMA ReachIsKept == SortedInv /\ ReduceInv => ReductionKeepsReach
<1> SUFFICES ASSUME SortedInv, ReduceInv, pc = "reduced", NEW n \in Node
             PROVE  Descendants(n) = {m \in Node : Path(Reduced, n, m)}
  BY DEF ReductionKeepsReach
<1>1. Descendants(n) = {m \in Node : Path(KeptEdges, n, m)} \ {n}
  BY DescendantsFacts
<1>2. ~Path(KeptEdges, n, n)
  <2> SUFFICES ASSUME Path(KeptEdges, n, n)
               PROVE  FALSE
    OBVIOUS
  <2>1. ready = <<>>
    BY DEF SortedInv, SortInv
  <2>2. Before(n, n)
    BY <2>1, PathsAreForward
  <2>3. PICK i \in DOMAIN order, k \in DOMAIN order : order[i] = n /\ order[k] = n /\ i < k
    BY <2>2 DEF Before
  <2>4. NoRepeat(order) /\ order \in Seq(Node)
    BY <2>1, AllPlaced
  <2>5. i = k /\ i \in Nat
    BY <2>3, <2>4 DEF NoRepeat
  <2> QED  BY <2>3, <2>5
<1> QED  BY <1>1, <1>2, ReducedReaches

-----------------------------------------------------------------------------
(* The graph in every behaviour of the relations *)

\* What holds of the graph when it is the part that runs; no other part is ever where the
\* properties look.
BuildInv ==
  /\ part = "graph" => SortedInv /\ ReduceInv
  /\ part # "graph" => pc \notin {"rejected", "sorting", "reducing", "reduced"}

\* The graph begins as its own specification says, if it is the part that runs,
LEMMA BuildInit == RelationsInit => BuildInv
<1> SUFFICES ASSUME RelationsInit
             PROVE  BuildInv
  OBVIOUS
<1>1. CASE part = "graph"
  <2>1. GraphInit
    BY <1>1 DEF RelationsInit
  <2>2. GraphInv
    BY <2>1, InputInit, WalkInit, PhaseInit DEF GraphInv
  <2>3. KeptInv /\ SortInv /\ ReduceInv
    BY <2>1 DEF GraphInit, KeptInv, SortInv, ReduceInv
  <2> QED  BY <1>1, <2>2, <2>3 DEF BuildInv, SortedInv
<1>2. CASE part # "graph"
  <2>1. pc \notin {"rejected", "sorting", "reducing", "reduced"}
    BY <1>2 DEF RelationsInit, IdlePc, Extraction!Init, Check!Init
  <2> QED  BY <1>2, <2>1 DEF BuildInv
<1> QED  BY <1>1, <1>2

\* and takes the steps of it; the other parts never are in a phase of the graph.
LEMMA BuildStep ==
  ASSUME BuildInv, [RelationsNext]_relationsVars
  PROVE  BuildInv'
<1>1. part' = part
  BY DEF RelationsNext, relationsVars
<1>2. CASE part = "graph"
  <2>1. [GraphNext]_graphVars
    BY <1>2 DEF RelationsNext, relationsVars, restOfGraph, graphVars
  <2>2. GraphInv /\ KeptInv /\ SortInv /\ ReduceInv /\ GraphInput /\ WalkInv /\ PhaseInv
    BY <1>2 DEF BuildInv, SortedInv, GraphInv
  <2>3. GraphInv'
    BY <2>1, <2>2, InputStep, WalkStep, PhaseStep DEF GraphInv
  <2>4. KeptInv' /\ SortInv'
    BY <2>1, <2>2, KeptStep, SortStep
  <2>5. ReduceInv'
    BY <2>1, <2>2, ReduceStep DEF SortedInv
  <2> QED  BY <1>1, <1>2, <2>3, <2>4, <2>5 DEF BuildInv, SortedInv
<1>3. CASE part # "graph"
  <2>1. pc' = pc \/ pc' \notin {"rejected", "sorting", "reducing", "reduced"}
    <3>1. CASE pc' = pc
      BY <3>1
    <3>2. CASE pc' # pc
      <4>1. Extraction!Next \/ Check!Next
        BY <1>3, <3>2 DEF RelationsNext, relationsVars
      <4>2. CASE Extraction!Next
        BY <4>2 DEF Extraction!Next, Extraction!ExtractAll, Extraction!Build
      <4>3. CASE Check!Next
        BY <3>2, <4>3 DEF Check!Next, Check!Load, Check!RefreshQuotes, Check!FeedMoves,
              Check!Screen, Check!FetchBooks, Check!Throw, Check!ConfirmOne
      <4> QED  BY <4>1, <4>2, <4>3
    <3> QED  BY <3>1, <3>2
  <2> QED  BY <1>1, <1>3, <2>1 DEF BuildInv
<1> QED  BY <1>2, <1>3

\* So the invariants of the graph hold in every behaviour.
LEMMA BuildInvariant == RelationsSpec => []BuildInv
BY BuildInit, BuildStep, PTL DEF RelationsSpec

\* graph.ts:16-17: "cycles are rejected rather than tolerated, and reported loudly enough to
\* be fixed".  For any implications: what stronglyConnected finds are the classes of
\* markets that imply each other, all of them and nothing else, and what is reported of a
\* class is a walk along its implications that comes back to where it has been.
THEOREM ComponentsAreFound == RelationsSpec => []ComponentsAreCycles
<1>1. BuildInv => ComponentsAreCycles
  BY ClassesAreCycles DEF BuildInv, SortedInv, ComponentsAreCycles
<1> QED  BY <1>1, BuildInvariant, PTL

\* graph.ts:7: "Implications form a DAG".  For any implications, whether their
\* cycles are rejected or their edges dropped: every market is placed once in the order,
\* and no implication that is kept leads back.
THEOREM OrdersAreTopological == RelationsSpec => []SortedGraph
<1>1. BuildInv => SortedGraph
  BY SortedIsSorted DEF BuildInv, SortedGraph
<1> QED  BY <1>1, BuildInvariant, PTL

\* graph.ts:358-359: the reduction has "the same reachability".  For any implications: what is left
\* of the edges reaches from every market what following all of them finds, although a
\* market's set is taken over by the last one that needs it.
THEOREM ReductionsKeepReach == RelationsSpec => []ReductionKeepsReach
<1>1. BuildInv => ReductionKeepsReach
  BY ReachIsKept DEF BuildInv, ReductionKeepsReach
<1> QED  BY <1>1, BuildInvariant, PTL

=============================================================================
