--------------------------- MODULE ProposalReview ---------------------------
(***************************************************************************)
(* How relations reach the database: the deterministic extraction            *)
(* (src/relations/extract-cli.ts, store.ts), the runs that ask a model about  *)
(* pairs of markets nothing explains yet (propose-cli.ts, candidates.ts,      *)
(* proposer.ts), the proposals they store and the verdicts of reviewers       *)
(* (proposals-store.ts, review.ts).  Markets are numbered in the order of     *)
(* their condition ids; a pair is <<low, high>>.                             *)
(***************************************************************************)
EXTENDS Integers, FiniteSets

CONSTANTS
  Proposer,     \* runs of relations:propose at a time
  Reviewer,     \* interactive sessions of relations:review
  Market,       \* markets with a question that are listed
  Derivable,    \* what the extractors may find: [edges, groups] records
  Answers,      \* the relations the model may answer
  Shown,        \* the relations a session loads (--include-unrelated)
  Limit,        \* candidates of a run
  MaxRuns,      \* bound on the runs of relations:propose
  MaxExtracts,  \* bound on the runs of relations:extract
  MaxFaults     \* bound on the deaths of a run and the failed calls

VARIABLES
  relations,    \* relations: the source of each stored edge
  groups,       \* relation_groups and relation_group_members: members by key
  proposals,    \* relation_proposals: type and status of each stored pair
  vectors,      \* market_embeddings: markets whose vector is current
  run,          \* each run of relations:propose
  session,      \* each reviewer's session: what it still has to present
  runs, extracts, faults,
  overlaps,     \* runs that began while another was under way
  paid,         \* completions of the model, each of them paid for, by pair
  derived       \* the edges that some extraction derived

vars == <<relations, groups, proposals, vectors, run, session,
          runs, extracts, faults, overlaps, paid, derived>>

Pair    == {p \in Market \X Market : p[1] < p[2]}
Type    == {"implies", "implied_by", "complement", "mutually_exclusive", "unrelated"}
Verdict == {"accepted", "rejected", "skipped"}

ASSUME ReviewAssumption == Answers \subseteq Type /\ IsFiniteSet(Proposer)

NoRun   == [pc |-> "idle", todo |-> {}, kept |-> {}]

Init ==
  /\ relations = <<>> /\ groups = <<>> /\ proposals = <<>>
  /\ vectors = {}
  /\ run = [q \in Proposer |-> NoRun]
  /\ session = [r \in Reviewer |-> {}]
  /\ runs = 0 /\ extracts = 0 /\ faults = 0 /\ overlaps = 0
  /\ paid = [p \in Pair |-> 0] /\ derived = {}

Merge(table, rows) ==
  [k \in DOMAIN table \cup DOMAIN rows |-> IF k \in DOMAIN rows THEN rows[k] ELSE table[k]]

-----------------------------------------------------------------------------
(* relations:extract *)

\* saveRelationEdges and saveRelationGroups upsert what the extractors found, in a
\* transaction each; nothing that is no longer found is deleted, except members of
\* a group that is.
SaveEdges(edges) ==
  relations' = Merge(relations, [e \in edges |-> "rule"])

SaveGroups(found) == groups' = Merge(groups, found)

Extract ==
  /\ extracts < MaxExtracts
  /\ \E found \in Derivable :
       /\ SaveEdges(found.edges) /\ derived' = derived \cup found.edges
       /\ \/ SaveGroups(found.groups) /\ UNCHANGED faults
          \/ faults < MaxFaults /\ faults' = faults + 1 /\ UNCHANGED groups
  /\ extracts' = extracts + 1
  /\ UNCHANGED <<proposals, vectors, run, session, runs, paid, overlaps>>

-----------------------------------------------------------------------------
(* relations:propose *)

\* embedMarkets works in batches, and what it has embedded stays.
EmbedMarkets(done) == vectors' = vectors \cup done

Embed(q) ==
  /\ run[q].pc = "idle" /\ runs < MaxRuns
  /\ \E done \in SUBSET (Market \ vectors) :
       /\ EmbedMarkets(done)
       /\ run' = [run EXCEPT ![q].pc = IF vectors' = Market THEN "embedded" ELSE "idle"]
       /\ IF vectors' = Market THEN UNCHANGED faults
          ELSE faults < MaxFaults /\ faults' = faults + 1
  /\ runs' = runs + 1
  /\ overlaps' = overlaps + (IF \E o \in Proposer : run[o].pc # "idle" THEN 1 ELSE 0)
  /\ UNCHANGED <<relations, groups, proposals, session, extracts, paid, derived>>

\* An implication by a chain of stored edges.
Reachable ==
  LET implied == {<<e[1], e[2]>> : e \in {e \in DOMAIN relations : e[3] = "implies"}}
      R[k \in Nat] == IF k = 0 THEN implied
                      ELSE R[k - 1] \cup {p \in Market \X Market : \E m \in Market :
                                             <<p[1], m>> \in R[k - 1] /\ <<m, p[2]>> \in implied}
  IN R[Cardinality(Market)]

Related(p) == \E e \in DOMAIN relations : {e[1], e[2]} = {p[1], p[2]}

\* What the query's anti-joins take away.
Covered(p) ==
  \/ p \in Reachable \/ <<p[2], p[1]>> \in Reachable \/ Related(p)
  \/ \E g \in DOMAIN groups : {p[1], p[2]} \subseteq groups[g]
  \/ p \in DOMAIN proposals

\* findCandidatePairs: pairs of neighbours above the threshold, within the limit.
CandidatePairs ==
  {candidates \in SUBSET {p \in Pair : ~Covered(p)} : Cardinality(candidates) <= Limit}

\* With no candidate the run is over, and so is a dry run.
FindCandidates(q) ==
  /\ run[q].pc = "embedded"
  /\ \E candidates \in CandidatePairs :
         run' = IF candidates = {} THEN [run EXCEPT ![q] = NoRun]
                   ELSE [run EXCEPT ![q].pc = "asking", ![q].todo = candidates]
  /\ UNCHANGED <<relations, groups, proposals, vectors, session, runs, extracts, faults,
                 paid, derived, overlaps>>

\* Variant: an answer of unrelated is not kept.
KeptRelated(p, t) == IF t = "unrelated" THEN {} ELSE {<<p, t>>}

\* proposeRelations keeps every answer, unrelated ones as well.
Kept(p, t) == {<<p, t>>}

\* No proposal: the call failed, or it came back with a refusal, with nothing, or
\* with what does not parse, each of them a completion that is paid for.  Nothing of
\* it is stored, and the pair stays a candidate.
NoAnswer(q, p) ==
  /\ faults < MaxFaults /\ faults' = faults + 1
  /\ run' = [run EXCEPT ![q].todo = @ \ {p}]
  /\ paid' \in {paid, [paid EXCEPT ![p] = @ + 1]}

Ask(q) ==
  /\ run[q].pc = "asking"
  /\ \E p \in run[q].todo :
       \/ \E t \in Answers :
            /\ run' = [run EXCEPT ![q].todo = @ \ {p}, ![q].kept = @ \cup Kept(p, t)]
            /\ paid' = [paid EXCEPT ![p] = @ + 1]
            /\ UNCHANGED faults
       \/ NoAnswer(q, p)
  /\ UNCHANGED <<relations, groups, proposals, vectors, session, runs, extracts, derived,
                 overlaps>>

\* Variant: a new proposal replaces the stored one.
StoredReplacing(rows) == Merge(proposals, rows)

\* onConflictDoNothing: a pair that is stored keeps its proposal and its verdict.
Stored(rows) == Merge(rows, proposals)

SaveProposals(q) ==
  /\ run[q].pc = "asking" /\ run[q].todo = {}
  /\ proposals' =
       Stored([p \in {k[1] : k \in run[q].kept} |->
                 [type |-> (CHOOSE k \in run[q].kept : k[1] = p)[2], status |-> "pending"]])
  /\ run' = [run EXCEPT ![q] = NoRun]
  /\ UNCHANGED <<relations, groups, vectors, session, runs, extracts, faults, paid,
                 derived, overlaps>>

\* The run dies, and with it every answer it has not stored.
Die(q) ==
  /\ run[q].pc # "idle" /\ faults < MaxFaults
  /\ run' = [run EXCEPT ![q] = NoRun] /\ faults' = faults + 1
  /\ UNCHANGED <<relations, groups, proposals, vectors, session, runs, extracts,
                 paid, derived, overlaps>>

-----------------------------------------------------------------------------
(* relations:review *)

\* loadPendingProposals
Load(r) ==
  /\ session[r] = {}
  /\ session' = [session EXCEPT ![r] =
                   {p \in DOMAIN proposals : /\ proposals[p].status = "pending"
                                             /\ proposals[p].type \in Shown}]
  /\ session'[r] # {}
  /\ UNCHANGED <<relations, groups, proposals, vectors, run, runs, extracts, faults,
                 paid, derived, overlaps>>

\* proposalToEdge: exclusivity and unrelatedness make no edge.
EdgesOf(p, t) ==
  CASE t = "implies"    -> {<<p[1], p[2], "implies">>}
    [] t = "implied_by" -> {<<p[2], p[1], "implies">>}
    [] t = "complement" -> {<<p[1], p[2], "complement">>}
    [] OTHER            -> {}

\* Variant: the verdict is recorded whatever the status is by now.
RecordVerdictAnyway(p, v) ==
  /\ proposals' = [proposals EXCEPT ![p].status = v]
  /\ relations' = IF v # "accepted" THEN relations
                  ELSE Merge(relations, [e \in EdgesOf(p, proposals[p].type) |-> "llm_reviewed"])

\* recordVerdict, one transaction that locks the row: only a pending proposal is
\* decided, and its edge is written with the verdict.
RecordVerdict(p, v) ==
  IF proposals[p].status # "pending" THEN UNCHANGED <<proposals, relations>>
  ELSE /\ proposals' = [proposals EXCEPT ![p].status = v]
       /\ relations' = IF v # "accepted" THEN relations
                       ELSE Merge(relations, [e \in EdgesOf(p, proposals[p].type) |-> "llm_reviewed"])

\* A reviewer decides on what was loaded, which others may have decided by now.
Decide(r) ==
  /\ \E p \in session[r], v \in Verdict :
       /\ RecordVerdict(p, v)
       /\ session' = [session EXCEPT ![r] = @ \ {p}]
  /\ UNCHANGED <<groups, vectors, run, runs, extracts, faults, paid, derived, overlaps>>

\* applyFromFile: a line names any proposal.
ApplyLine ==
  /\ \E p \in DOMAIN proposals, v \in Verdict : RecordVerdict(p, v)
  /\ UNCHANGED <<groups, vectors, run, session, runs, extracts, faults, paid,
                 derived, overlaps>>

Quit(r) ==
  /\ session[r] # {}
  /\ session' = [session EXCEPT ![r] = {}]
  /\ UNCHANGED <<relations, groups, proposals, vectors, run, runs, extracts, faults,
                 paid, derived, overlaps>>

-----------------------------------------------------------------------------
Next ==
  \/ Extract \/ ApplyLine
  \/ \E q \in Proposer : Embed(q) \/ FindCandidates(q) \/ Ask(q) \/ SaveProposals(q) \/ Die(q)
  \/ \E r \in Reviewer : Load(r) \/ Decide(r) \/ Quit(r)

Spec == Init /\ [][Next]_vars

-----------------------------------------------------------------------------
(* Properties *)

Edge == {e \in Market \X Market \X {"implies", "complement"} : e[1] # e[2]}

TypeOK ==
  /\ DOMAIN relations \subseteq Edge
  /\ \A e \in DOMAIN relations : relations[e] \in {"rule", "llm_reviewed"}
  /\ \A g \in DOMAIN groups : groups[g] \subseteq Market
  /\ DOMAIN proposals \subseteq Pair
  /\ \A p \in DOMAIN proposals :
       proposals[p] \in [type : Type, status : Verdict \cup {"pending"}]
  /\ vectors \subseteq Market
  /\ run \in [Proposer -> [pc : {"idle", "embedded", "asking"}, todo : SUBSET Pair,
                           kept : SUBSET (Pair \X Answers)]]
  /\ session \in [Reviewer -> SUBSET Pair]
  /\ paid \in [Pair -> 0..MaxRuns]

\* The one invariant proposals-store.ts exists to hold, both ways: an edge that no
\* extraction derived, or that is labelled as reviewed, has an accepted proposal
\* that says it, and an accepted proposal has its edge -- however many sessions and
\* files decide the same proposal, and whatever extractions overwrite.
OnlyVerdictsMakeEdges ==
  LET accepted == {p \in DOMAIN proposals : proposals[p].status = "accepted"}
      reviewed == UNION {EdgesOf(p, proposals[p].type) : p \in accepted}
  IN /\ reviewed \subseteq DOMAIN relations
     /\ DOMAIN relations \subseteq derived \cup reviewed
     /\ {e \in DOMAIN relations : relations[e] = "llm_reviewed"} \subseteq reviewed

\* What proposer.ts:151-157 says: a pair asked once is never asked again, whatever the
\* answer was, and an answer that does not parse discards its pair for good.  It is
\* not so, and stands here to be compared with what is: see AskedOnce.
NeverAskedAgain == \A p \in Pair : paid[p] <= 1

\* A stored answer, one of unrelated as well, is the last that is paid for: a pair is
\* paid for again only by a run that overlapped another, or after a run that died
\* before it stored its answers, or after a completion that was refused, empty or
\* unparsed -- once for each of these, and never for a verdict that took the
\* proposal away from the reviewers.
AskedOnce == \A p \in Pair : paid[p] <= 1 + faults + overlaps

\* A stored proposal is never reworded and a verdict never overturned, by another
\* session, a file, or a later run that asks about the pair again.
VerdictIsFinal ==
  [][\A p \in DOMAIN proposals :
       /\ p \in DOMAIN proposals' /\ proposals'[p].type = proposals[p].type
       /\ proposals[p].status # "pending" => proposals'[p] = proposals[p]]_vars

=============================================================================
