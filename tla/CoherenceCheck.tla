---------------------------- MODULE CoherenceCheck ----------------------------
(***************************************************************************)
(* One coherence check (src/coherence): the constraints that are loaded      *)
(* (load.ts), the quotes refreshed for what the feed cannot price, the cheap *)
(* screen (constraints.ts), the books of what it promotes (check.ts), and    *)
(* the basket that corrects a violation, sized and priced on those books     *)
(* (trade.ts, executable.ts, costs.ts).                                      *)
(*                                                                           *)
(* A probability is one of 0..Scale.  Money is counted in parts of 1 USDC    *)
(* such that a price times a fee is whole: see Usdc.                         *)
(***************************************************************************)
EXTENDS Integers, SequencesExt

CONSTANTS
  Inputs,       \* [stored, condition, cached, mids, quotes, sides]: the relations,
                \* the markets' state, the cached quotes, the feed's midpoints (or
                \* <<>> for no feed), what Gamma may quote (Null: no quote), and the
                \* ask sides of books, as the venue may send them
  Batch,        \* QUOTE_BATCH
  Limit,        \* maxConfirmations
  Scale, Epsilon,
  RateScale, Rate,              \* the fee rate is Rate / RateScale
  MinFee, MinSize, MinProfit, MinEdge,
  SnapshotDepth,
  MaxMoves      \* bound on the feed's changes during a check

VARIABLES
  stored, condition,   \* the database: relations and groups, and the markets
  cached,              \* market_quotes
  mids,                \* the feed's midpoints
  quotes, sides,       \* what the venue may answer
  pc, loaded, toQuote, promoted, books, confirmations,
  snapshots,           \* price_snapshots, what this check wrote: outcome |-> row
  quoted,              \* history: markets whose quote this check has read
  omitted,             \* history: markets the venue left out when asked about them
  moved,               \* history: markets whose midpoint changed since it began
  screened,            \* history: the prices of the screen
  moves

database == <<stored, condition, quotes, sides>>
vars == <<database, cached, mids, pc, loaded, toQuote, promoted, books, confirmations,
          snapshots, quoted, omitted, moved, screened, moves>>

Null == -1
Least(a, b)   == IF a < b THEN a ELSE b
Largest(a, b) == IF a > b THEN a ELSE b
Usdc == Scale * Scale * RateScale

Init ==
  /\ \E i \in Inputs :
       /\ stored = i.stored /\ condition = i.condition
       /\ quotes = i.quotes /\ sides = i.sides
       /\ cached = i.cached /\ mids = i.mids
  /\ pc = "begun" /\ loaded = <<>> /\ toQuote = {} /\ promoted = <<>>
  /\ books = <<>> /\ confirmations = <<>> /\ snapshots = <<>>
  /\ quoted = {} /\ omitted = {} /\ moved = {} /\ screened = <<>> /\ moves = 0

-----------------------------------------------------------------------------
(* load.ts *)

IsOpen(m) == condition[m] = "open"

\* An edge needs both its markets, a partition keeps the members that are open if
\* they are two at least.
Loaded(c) == IF c.kind = "partition" THEN [c EXCEPT !.members = SelectSeq(@, IsOpen)] ELSE c
Loadable(c) ==
  IF c.kind = "partition" THEN Len(Loaded(c).members) > 1
                          ELSE \A i \in DOMAIN c.members : IsOpen(c.members[i])

LoadConstraints ==
  LET rows == SelectSeq(stored, Loadable) IN [i \in DOMAIN rows |-> Loaded(rows[i])]

Constrained(constraints) == UNION {Range(constraints[i].members) : i \in DOMAIN constraints}

HasFeed == mids # <<>>
Mid(m)  == IF m \in DOMAIN mids THEN mids[m] ELSE Null

\* Variant: the cache is trusted if it has a quote.
StaleUncached(markets) == {m \in markets : Mid(m) = Null /\ cached[m] = Null}

\* What the feed cannot price is quoted again.
Stale(markets) == {m \in markets : Mid(m) = Null}

Load ==
  /\ pc = "begun" /\ pc' = "quoting"
  /\ loaded' = LoadConstraints
  /\ toQuote' = Stale(Constrained(loaded'))
  /\ UNCHANGED <<database, cached, mids, promoted, books, confirmations,
                 snapshots, quoted, omitted, moved, screened, moves>>

\* refreshQuotes, a batch at a time.  Gamma leaves out without a word what it does not
\* recognise, and the rows of what it leaves out stay as an earlier check wrote them.
RefreshQuotes ==
  /\ pc = "quoting" /\ toQuote # {}
  /\ \E batch \in SUBSET toQuote :
       /\ Cardinality(batch) = Least(Cardinality(toQuote), Batch)
       /\ \E answered \in SUBSET batch : \E answer \in [answered -> quotes] :
            /\ cached' = [m \in DOMAIN cached |-> IF m \in answered THEN answer[m] ELSE cached[m]]
            /\ quoted' = quoted \cup answered
            /\ omitted' = omitted \cup (batch \ answered)
       /\ toQuote' = toQuote \ batch
  /\ UNCHANGED <<database, mids, pc, loaded, promoted, books, confirmations,
                 snapshots, moved, screened, moves>>

\* Meanwhile the feed goes on: books move, lose a side or their seed.
FeedMoves ==
  /\ pc = "quoting" /\ HasFeed /\ moves < MaxMoves
  /\ \E m \in DOMAIN mids, p \in quotes :
       /\ p # mids[m]
       /\ mids' = [mids EXCEPT ![m] = p] /\ moved' = moved \cup {m}
  /\ moves' = moves + 1
  /\ UNCHANGED <<database, cached, pc, loaded, toQuote, promoted, books, confirmations,
                 snapshots, quoted, omitted, screened>>

-----------------------------------------------------------------------------
(* constraints.ts: the screen *)

\* screenPrices: a midpoint if there is one, else the cached quote.
Price(m) == IF Mid(m) # Null THEN Mid(m) ELSE cached[m]

Unscreenable(c) == \E i \in DOMAIN c.members : Price(c.members[i]) = Null

Total(c) == FoldLeft(LAMBDA sum, m : sum + Price(m), 0, c.members)

\* evaluate: the distance by which a constraint is broken, and the direction.
Evaluate(c) ==
  LET gap == IF c.kind = "implies" THEN Price(c.members[1]) - Price(c.members[2])
                                   ELSE Total(c) - Scale
      magnitude == IF c.kind = "implies" \/ gap > 0 THEN gap ELSE -gap
  IN [constraint |-> c, magnitude |-> magnitude, direction |-> IF gap > 0 THEN "over" ELSE "under",
      violated |-> magnitude > Epsilon]

\* screen: the violated ones, the worst first.
Screened ==
  LET evaluations == [i \in DOMAIN loaded |->
                        IF Unscreenable(loaded[i]) THEN [violated |-> FALSE] ELSE Evaluate(loaded[i])]
      worse(i, k) == \/ evaluations[i].magnitude > evaluations[k].magnitude
                     \/ evaluations[i].magnitude = evaluations[k].magnitude /\ i < k
      ranked == SetToSortSeq({i \in DOMAIN loaded : evaluations[i].violated}, worse)
  IN [k \in DOMAIN ranked |-> evaluations[ranked[k]]]

Screen ==
  /\ pc = "quoting" /\ toQuote = {}
  /\ promoted' = SubSeq(Screened, 1, Least(Len(Screened), Limit))
  /\ screened' = [m \in Constrained(loaded) |-> Price(m)]
  /\ pc' = IF promoted' = <<>> THEN "done" ELSE "fetching"
  /\ UNCHANGED <<database, cached, mids, loaded, toQuote, books, confirmations,
                 snapshots, quoted, omitted, moved, moves>>

-----------------------------------------------------------------------------
(* basketFor *)

\* Variant: a basket of No pays for every member.
PayoutOfAll(c, direction) ==
  IF c.kind = "implies" \/ direction = "under" THEN 1 ELSE Len(c.members)

Payout(c, direction) ==
  IF c.kind = "implies" \/ direction = "under" THEN 1 ELSE Len(c.members) - 1

Legs(c, direction) ==
  IF c.kind = "implies" THEN <<<<c.members[1], 1>>, <<c.members[2], 0>>>>
  ELSE [i \in DOMAIN c.members |-> <<c.members[i], IF direction = "under" THEN 0 ELSE 1>>]

LegsOf(evaluation) == Range(Legs(evaluation.constraint, evaluation.direction))

\* normalizeBook: levels that cannot be traded against are dropped, the rest sorted,
\* equal prices in the order they came.
NormalizeSide(levels) ==
  LET sane(i)      == levels[i].size > 0 /\ levels[i].price \in 1..Scale
      better(i, k) == \/ levels[i].price < levels[k].price
                      \/ levels[i].price = levels[k].price /\ i < k
      order        == SetToSortSeq({i \in DOMAIN levels : sane(i)}, better)
  IN [k \in DOMAIN order |-> levels[order[k]]]
NormalizeBook(wire) == [wire EXCEPT !.asks = NormalizeSide(@)]

\* availableDepth, of the first i levels.
Depth(asks, i) == FoldLeft(LAMBDA sum, level : sum + level.size, 0, SubSeq(asks, 1, i))
AvailableDepth(asks) == Depth(asks, Len(asks))

Kept(asks) == SubSeq(asks, 1, Least(Len(asks), SnapshotDepth))

\* Variant: the depth is that of the levels kept.
SnapshotRowOfKept(book) == [asks |-> Kept(book.asks), askDepth |-> AvailableDepth(Kept(book.asks))]

SnapshotRow(book) == [asks |-> Kept(book.asks), askDepth |-> AvailableDepth(book.asks)]

\* clob.fetchBooks, for both outcomes of every market; what a basket may buy is kept
\* here: a book's asks and minimum order size, or that the market has no token or the
\* token no book.  The books that came are written down, unless that fails.
FetchBooks ==
  /\ pc = "fetching" /\ pc' = "confirming"
  /\ books' \in [UNION {LegsOf(promoted[i]) : i \in DOMAIN promoted} ->
                   {NormalizeBook(wire) : wire \in sides}]
  /\ \E written \in {{}, {leg \in DOMAIN books' : books'[leg].problem = "none"}} :
       snapshots' = [leg \in written |-> SnapshotRow(books'[leg])]
  /\ UNCHANGED <<database, cached, mids, loaded, toQuote, promoted, confirmations,
                 quoted, omitted, moved, screened, moves>>

\* A request throws, and with it the check.
Throw ==
  /\ \/ pc = "quoting" /\ toQuote # {}
     \/ pc = "fetching"
  /\ pc' = "failed"
  /\ UNCHANGED <<database, cached, mids, loaded, toQuote, promoted, books, confirmations,
                 snapshots, quoted, omitted, moved, screened, moves>>

-----------------------------------------------------------------------------
(* executable.ts, costs.ts *)

TakerFee(shares, price) ==
  LET fee == shares * Rate * price * (Scale - price) IN IF fee < MinFee THEN 0 ELSE fee

\* What executableCost takes of level i.
Take(asks, i, size) == Largest(0, Least(asks[i].size, size - Depth(asks, i - 1)))

ExecutableCost(asks, size) ==
  LET paid[i \in 0..Len(asks)] ==
        IF i = 0 THEN 0
        ELSE paid[i - 1] + Take(asks, i, size) * asks[i].price * Scale * RateScale
                         + TakerFee(Take(asks, i, size), asks[i].price)
  IN paid[Len(asks)]

-----------------------------------------------------------------------------
(* trade.ts *)

\* What the lookup has of the basket's legs.
Lookup(evaluation) ==
  LET legs == Legs(evaluation.constraint, evaluation.direction)
  IN [i \in DOMAIN legs |-> books[legs[i]]]

\* Why a leg cannot be priced.
Problem(book) == IF book.problem # "none" THEN book.problem
                 ELSE IF book.asks = <<>> THEN "empty-book" ELSE "none"

BasketDepth(asks) ==
  LET depths == {AvailableDepth(asks[i]) : i \in DOMAIN asks}
  IN CHOOSE d \in depths : \A e \in depths : d <= e

Profit(asks, payout, size) ==
  FoldLeft(LAMBDA rest, side : rest - ExecutableCost(side, size), size * payout * Usdc, asks)

ProfitableAt(asks, payout, size) ==
  size > 0 /\ size <= BasketDepth(asks) /\ Profit(asks, payout, size) > 0

\* maxProfitableSize, by bisection.
MaxProfitableSize(asks, payout, ceiling, floor) ==
  LET search[low \in Nat, high \in Nat] ==
        IF high - low <= 1 THEN low
        ELSE LET mid == (low + high) \div 2 IN
             IF ProfitableAt(asks, payout, mid) THEN search[mid, high] ELSE search[low, mid]
  IN IF ceiling < floor \/ ~ProfitableAt(asks, payout, floor) THEN 0
     ELSE IF ProfitableAt(asks, payout, ceiling) THEN ceiling
     ELSE search[floor, ceiling]

\* The first of the candidates that earns most.
Best(asks, payout, candidates) ==
  LET earns(i) == Profit(asks, payout, candidates[i])
      i == CHOOSE i \in DOMAIN candidates : \A k \in DOMAIN candidates :
             earns(i) > earns(k) \/ (earns(i) = earns(k) /\ i <= k)
  IN candidates[i]

\* Variant: what can be bought is bought.
OptimalSizeAtReach(asks, payout, floor, ceiling) == ceiling

\* optimalSize, by ternary search; the search ends where the thirds are empty.
OptimalSize(asks, payout, floor, ceiling) ==
  LET search[low \in Nat, high \in Nat] ==
        LET third == (high - low) \div 3 IN
        IF third = 0
          THEN Best(asks, payout, <<low, high, (low + high) \div 2, floor, ceiling>>)
          ELSE IF Profit(asks, payout, low + third) < Profit(asks, payout, high - third)
                 THEN search[low + third, high] ELSE search[low, high - third]
  IN search[floor, ceiling]

Refused(failure) == [failure |-> failure, size |-> 0, max |-> 0, profit |-> 0]

\* priceCorrectingTrade, gate after gate.
PriceCorrectingTrade(lookup, payout) ==
  LET bad     == {i \in DOMAIN lookup : Problem(lookup[i]) # "none"}
      asks    == [i \in DOMAIN lookup |-> lookup[i].asks]
      floor   == FoldLeft(LAMBDA min, book : Largest(min, book.min), MinSize, lookup)
      ceiling == BasketDepth(asks)
      max     == MaxProfitableSize(asks, payout, ceiling, floor)
      size    == OptimalSize(asks, payout, floor, max)
      profit  == Profit(asks, payout, size)
  IN CASE bad # {}     -> Refused(Problem(lookup[CHOOSE i \in bad : \A k \in bad : i <= k]))
       [] ceiling <= 0 -> Refused("insufficient-depth")
       [] max <= 0     -> Refused(IF ceiling < floor THEN "below-min-size" ELSE "negative-edge")
       [] profit < MinProfit \/ profit < MinEdge * size ->
            [Refused("immaterial-edge") EXCEPT !.max = max]
       [] OTHER -> [failure |-> "none", size |-> size, max |-> max, profit |-> profit]

\* confirmOne
ConfirmOne ==
  /\ pc = "confirming" /\ Len(confirmations) < Len(promoted)
  /\ LET e == promoted[Len(confirmations) + 1] IN
       confirmations' = Append(confirmations,
         PriceCorrectingTrade(Lookup(e), Payout(e.constraint, e.direction)))
  /\ pc' = IF Len(confirmations') = Len(promoted) THEN "done" ELSE pc
  /\ UNCHANGED <<database, cached, mids, loaded, toQuote, promoted, books,
                 snapshots, quoted, omitted, moved, screened, moves>>

-----------------------------------------------------------------------------
Next == Load \/ RefreshQuotes \/ FeedMoves \/ Screen \/ FetchBooks \/ Throw \/ ConfirmOne

Spec == Init /\ [][Next]_vars

-----------------------------------------------------------------------------
(* Properties *)

\* The worlds a relation admits, of all the members it was stored with.
Admits(c, yes) ==
  LET winners == {i \in DOMAIN c.members : c.members[i] \in yes}
  IN IF c.kind = "implies" THEN c.members[1] \in yes => c.members[2] \in yes
                           ELSE Cardinality(winners) = 1

Origin(c) == CHOOSE o \in Range(stored) : o.key = c.key
Whole(c)  == Origin(c).members = c.members

\* What the cheapest shares of a side cost, a share at a time.
SharePrice(asks, n) ==
  LET upTo(p) == {i \in DOMAIN asks : asks[i].price <= p}
      shares(p) == MapThenSumSet(LAMBDA i : asks[i].size, upTo(p))
      prices == {p \in 1..Scale : shares(p) >= n}
  IN CHOOSE p \in prices : \A q \in prices : p <= q
SharesCost(asks, size) ==
  MapThenSumSet(LAMBDA n : LET p == SharePrice(asks, n)
                           IN p * Scale * RateScale + Rate * p * (Scale - p), 1..size)

\* The money a trade makes if the markets in yes resolve Yes.
Proceeds(e, size, yes) ==
  MapThenSumSet(LAMBDA leg : (IF (leg[1] \in yes) = (leg[2] = 0) THEN size * Usdc ELSE 0)
                                - SharesCost(books[leg].asks, size), LegsOf(e))

Pays(i) ==
  LET e == promoted[i]
      t == confirmations[i]
  IN t.failure = "none" =>
       \A yes \in SUBSET Range(Origin(e.constraint).members) :
         Admits(Origin(e.constraint), yes) => Proceeds(e, t.size, yes) >= t.profit

\* constraints.ts: "The guaranteed payout is the minimum over every state the world
\* can be in that the constraint permits": a confirmed trade earns at least what it
\* reports, however the markets resolve.
TradePays == \A i \in DOMAIN confirmations : Pays(i)

\* So it is for every constraint that load.ts took whole; and what is reported is no
\* less than the minimum.
WholeTradePays ==
  \A i \in DOMAIN confirmations :
    /\ Whole(promoted[i].constraint) => Pays(i)
    /\ confirmations[i].failure = "none" => confirmations[i].profit >= MinProfit

\* optimalSize and maxProfitableSize find by halves and thirds what a search of every
\* size would: the size that earns most, and the largest that earns anything.  A
\* basket that can be bought is refused only if no size earns MinProfit, or if the
\* size that earns most earns less than MinEdge a unit.
BestSize ==
  \A i \in DOMAIN confirmations :
    LET t      == confirmations[i]
        lookup == Lookup(promoted[i])
        asks   == [k \in DOMAIN lookup |-> lookup[k].asks]
        payout == Payout(promoted[i].constraint, promoted[i].direction)
        floor  == FoldLeft(LAMBDA min, book : Largest(min, book.min), MinSize, lookup)
        sizes  == floor..BasketDepth(asks)
        earns(n) == Profit(asks, payout, n)
    IN t.failure \notin {"missing-token", "missing-book", "empty-book"} =>
         /\ t.max = Max({0} \cup {n \in sizes : earns(n) > 0})
         /\ IF t.failure = "none"
              THEN t.size \in sizes /\ \A n \in sizes : earns(n) <= earns(t.size)
              ELSE \/ \A n \in sizes : earns(n) < MinProfit
                   \/ \E n \in sizes : /\ earns(n) < MinEdge * n
                                        /\ \A k \in sizes : earns(k) <= earns(n)

\* A basket is refused only if no size satisfies both minimums.
RefusedOnlyIfThin ==
  \A i \in DOMAIN confirmations :
    LET lookup == Lookup(promoted[i])
        asks   == [k \in DOMAIN lookup |-> lookup[k].asks]
        payout == Payout(promoted[i].constraint, promoted[i].direction)
    IN confirmations[i].failure = "immaterial-edge" =>
         \A n \in MinSize..BasketDepth(asks) :
           Profit(asks, payout, n) < MinProfit \/ Profit(asks, payout, n) < MinEdge * n

\* The screen judges a market by a quote from an earlier check only if the venue, asked
\* about it in this one, left it out of its answer, or if the feed lost its midpoint
\* while the quotes of the others were being read: no market that lacks a midpoint goes
\* unasked because its row is there.
ScreenIsCurrent ==
  \A m \in DOMAIN screened :
    m \in quoted \/ Mid(m) # Null \/ m \in omitted \/ m \in moved

\* snapshots.ts: "a historical row re-prices exactly like a live book": a trade costs
\* the same on the rows that were written with it, leg by leg, or the row shows, by a
\* depth larger than that of its levels, that it was cut.
Auditable ==
  \A i \in DOMAIN confirmations :
    confirmations[i].failure = "none" =>
      \A leg \in LegsOf(promoted[i]) \cap DOMAIN snapshots :
        LET row == snapshots[leg] IN
        \/ ExecutableCost(row.asks, confirmations[i].size)
             = ExecutableCost(books[leg].asks, confirmations[i].size)
        \/ confirmations[i].size > AvailableDepth(row.asks) /\ row.askDepth > AvailableDepth(row.asks)

=============================================================================
