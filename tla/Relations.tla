------------------------------ MODULE Relations ------------------------------
(***************************************************************************)
(* Relations and what is made of them: the graph, the extraction, the        *)
(* proposals and their review, the check that screens and prices, the page    *)
(* that shows.  Each behaviour is of one part, and the variables of the       *)
(* others are idle; the review's are those of the module extended.           *)
(***************************************************************************)
EXTENDS ProposalReview, RelationGraph

CONSTANTS
  Families, Rows, Exclusive, Clause, Time, Value,              \* the extraction
  Checks, QuoteBatch, MaxConfirmations, Scale, Epsilon, RateScale, FeeRate, MinFee,
  MinSize, MinProfit, MinEdge, SnapshotDepth, MaxMoves,     \* the check
  PageMarket, EventOf, PageGroup, GroupMembers, FamilyLimit, Prices, PageScale   \* the page

\* Questions as the extractors need them: a threshold and dates are numbers, 0 for
\* none, and every clause is negated somehow or not.
ASSUME RelationsAssumption ==
  /\ Rows \in Nat /\ Value \subseteq Int
  /\ \A family \in Families : \A m \in family :
       /\ m.threshold \in Int /\ m.end \in Nat /\ m.phrase \in Nat
       /\ m.negations \in [Clause -> STRING]

VARIABLES
  part,
  catalog, edges, conflicts, built,
  stored, condition, cached, mids, quotes, sides, loaded, toQuote, promoted, books,
  confirmations, snapshots, quoted, omitted, moved, screened, moves,
  open, price, entails

restOfGraph    == <<input, tarjan, graph, kahn, reduction>>
extractionVars == <<catalog, edges, conflicts, built>>
checkVars      == <<stored, condition, cached, mids, quotes, sides, loaded, toQuote,
                    promoted, books, confirmations, snapshots, quoted, omitted, moved, screened, moves>>
pageVars       == <<open, price, entails>>
restOfReview   == <<proposals, vectors, run, session, runs, extracts, faults, overlaps,
                    paid, derived>>

-----------------------------------------------------------------------------
Extraction == INSTANCE RelationExtraction

Check == INSTANCE CoherenceCheck WITH
  Inputs <- Checks, Batch <- QuoteBatch, Limit <- MaxConfirmations, Rate <- FeeRate

Page == INSTANCE DashboardFamilies WITH
  Market <- PageMarket, Group <- PageGroup, Scale <- PageScale, relations <- entails

IdleGraph ==
  /\ implies = 0 /\ tolerate = 0 /\ nodes = 0 /\ out = 0 /\ index = 0 /\ low = 0
  /\ stack = 0 /\ work = 0 /\ components = 0 /\ kept = 0 /\ acyclicOut = 0
  /\ indegree = 0 /\ ready = 0 /\ order = 0 /\ consumers = 0 /\ reach = 0
  /\ todo = 0 /\ reduced = 0
IdleExtraction == catalog = 0 /\ edges = 0 /\ conflicts = 0 /\ built = 0
IdleCheck ==
  /\ stored = 0 /\ condition = 0 /\ cached = 0 /\ mids = 0 /\ quotes = 0 /\ sides = 0
  /\ loaded = 0 /\ toQuote = 0 /\ promoted = 0 /\ books = 0 /\ confirmations = <<>>
  /\ snapshots = 0 /\ quoted = 0 /\ omitted = 0 /\ moved = 0 /\ screened = <<>> /\ moves = 0
IdlePage == open = 0 /\ price = 0 /\ entails = 0
IdlePc   == pc = "idle"
RestOfReviewIdle ==
  /\ proposals = <<>> /\ vectors = {} /\ run = 0 /\ session = 0 /\ runs = 0 /\ extracts = 0
  /\ faults = 0 /\ overlaps = 0 /\ paid = [p \in Pair |-> 0] /\ derived = {}
IdleReview == relations = <<>> /\ groups = <<>> /\ RestOfReviewIdle

RelationsInit ==
  \/ part = "graph" /\ GraphInit /\ IdleReview /\ IdleExtraction /\ IdleCheck /\ IdlePage
  \/ part = "review" /\ Init /\ IdlePc /\ IdleGraph /\ IdleExtraction /\ IdleCheck /\ IdlePage
  \/ /\ part = "extraction" /\ Extraction!Init
     /\ relations = <<>> /\ RestOfReviewIdle /\ IdleGraph /\ IdleCheck /\ IdlePage
  \/ part = "check" /\ Check!Init /\ IdleReview /\ IdleGraph /\ IdleExtraction /\ IdlePage
  \/ /\ part = "page" /\ Page!Init
     /\ IdleReview /\ IdlePc /\ IdleGraph /\ IdleExtraction /\ IdleCheck

RelationsNext ==
  /\ UNCHANGED part
  /\ \/ /\ part = "graph" /\ GraphNext
        /\ UNCHANGED <<vars, extractionVars, checkVars, pageVars>>
     \/ /\ part = "review" /\ Next
        /\ UNCHANGED <<pc, restOfGraph, extractionVars, checkVars, pageVars>>
     \/ /\ part = "extraction" /\ Extraction!Next
        /\ UNCHANGED <<relations, restOfReview, restOfGraph, checkVars, pageVars>>
     \/ /\ part = "check" /\ Check!Next
        /\ UNCHANGED <<vars, restOfGraph, extractionVars, pageVars>>
     \/ /\ part = "page" /\ Page!Next
        /\ UNCHANGED <<pc, vars, restOfGraph, extractionVars, checkVars>>

relationsVars == <<part, pc, vars, restOfGraph, extractionVars, checkVars, pageVars>>

RelationsSpec == RelationsInit /\ [][RelationsNext]_relationsVars

-----------------------------------------------------------------------------
(* The properties, each of its part: see there for what they say *)

PlainEdgesHold   == part = "extraction" => Extraction!PlainEdgesHold
AdjacentIsEnough == part = "extraction" => Extraction!AdjacentIsEnough

WholeTradePays  == part = "check" => Check!WholeTradePays
BestSize        == part = "check" => Check!BestSize
ScreenIsCurrent == part = "check" => Check!ScreenIsCurrent
Auditable       == part = "check" => Check!Auditable

FamilyPage == part = "page" => Page!FamilyPage

=============================================================================
