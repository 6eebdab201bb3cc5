----------------------- MODULE CatalogIngest_proofs ------------------------
(***************************************************************************)
(* For any events, markets, jobs and processes, whatever fails: a complete    *)
(* crawl that ran alone settles what is listed, the history of a row explains *)
(* it, and a dead letter is of a job that never runs again.                   *)
(***************************************************************************)
EXTENDS CatalogIngest, WellFoundedInduction, TLAPS

\* The venue's keyset: its events are numbered.
Ordered == Event \subseteq Nat

Stages == {"idle", "crawling", "applying", "writing", "sweeping", "swept", "failed"}

\* What an ingest keeps, in a stage, when the last batch was stamped at that time.
Ingesting(k, stage, stamped) ==
  /\ DOMAIN k = DOMAIN NoRun
  /\ k.startedAt \in Nat /\ k.seenAt \in Nat /\ k.ended \in BOOLEAN /\ k.alone \in BOOLEAN
  /\ k.events \subseteq Event /\ (k.events = {} => DOMAIN k.batch = {})
  /\ DOMAIN k.batch \subseteq Market /\ \A m \in DOMAIN k.batch : k.batch[m] \in Content
  /\ k.startedAt <= stamped
  /\ stage = "crawling" => ~k.ended
  /\ stage = "sweeping" => DOMAIN k.batch = {}
  /\ stage \in {"applying", "writing"} => k.startedAt <= k.seenAt /\ k.seenAt <= stamped

Stocked ==
  /\ DOMAIN row \subseteq Market
  /\ \A m \in DOMAIN row :
       /\ DOMAIN row[m] = {"content", "hash", "first", "last", "since"}
       /\ row[m].content \in Content /\ row[m].last \in Nat /\ row[m].last <= latest

CatalogTypes ==
  /\ clock \in Nat /\ latest \in Nat /\ latest <= clock
  /\ listed \in [Event -> SUBSET Market] /\ content \in [Market -> Content]
  /\ pc \in [Runner -> Stages] /\ DOMAIN run = Runner
  /\ \A r \in Runner : Ingesting(run[r], pc[r], latest)
  /\ Stocked

-----------------------------------------------------------------------------
LEMMA LeastOf ==
  ASSUME NEW T \in SUBSET Nat, T # {}
  PROVE  \E x \in T : \A y \in T : x <= y
<1> DEFINE R == OpToRel(<, Nat)
<1>1. \E x \in T : \A y \in T : <<y, x>> \notin R
  <2>1. IsWellFoundedOn(R, Nat)
    BY NatLessThanWellFounded
  <2> HIDE DEF R
  <2> QED  BY <2>1, WFMin
<1>2. \A x, y \in Nat : y < x => <<y, x>> \in R
  BY DEF OpToRel
<1> HIDE DEF R
<1>3. PICK x \in T : \A y \in T : <<y, x>> \notin R
  BY <1>1
<1>4. ASSUME NEW y \in T
      PROVE  x <= y
  <2>1. x \in Nat /\ y \in Nat /\ ~(y < x)
    BY <1>2, <1>3
  <2> QED  BY <2>1
<1> QED  BY <1>4

\* The next event is one of the venue's.
LEMMA NextIsListed ==
  ASSUME Ordered, NEW r \in Runner, Ahead(r) # {}
  PROVE  NextEvent(r) \in Event
<1>1. Ahead(r) \in SUBSET Nat /\ Ahead(r) \subseteq Event
  BY DEF Ahead, Ordered
<1>2. \E e \in Ahead(r) : \A f \in Ahead(r) : e <= f
  BY <1>1, LeastOf
<1>3. NextEvent(r) \in Ahead(r)
  BY <1>2 DEF NextEvent
<1> QED  BY <1>1, <1>3

\* One ingest goes on, and nothing else does.
LEMMA OneGoesOn ==
  ASSUME CatalogTypes, NEW r \in Runner, NEW k, NEW stage \in Stages,
         pc' = [pc EXCEPT ![r] = stage], DOMAIN run' = Runner, run'[r] = k,
         \A s \in Runner \ {r} : run'[s] = run[s],
         latest' \in Nat, latest <= latest', latest' <= clock',
         Ingesting(k, stage, latest'), UNCHANGED <<clock, listed, content, row>>
  PROVE  /\ CatalogTypes' /\ pc'[r] = stage /\ run'[r] = k
         /\ \A s \in Runner \ {r} : pc'[s] = pc[s] /\ run'[s] = run[s]
<1> USE DEF CatalogTypes
<1>1. pc'[r] = stage /\ run'[r] = k /\ pc' \in [Runner -> Stages]
  OBVIOUS
<1>2. \A s \in Runner \ {r} : pc'[s] = pc[s] /\ run'[s] = run[s]
  OBVIOUS
<1>3. ASSUME NEW s \in Runner \ {r}
      PROVE  Ingesting(run'[s], pc'[s], latest')
  BY <1>2, <1>3 DEF Ingesting
<1>4. Stocked'
  BY DEF Stocked
<1> QED  BY <1>1, <1>2, <1>3, <1>4

-----------------------------------------------------------------------------
(* What a step does to the ingests *)

\* Nothing: no ingest moves, and no row.
Elsewhere == UNCHANGED <<table, pc, run, latest, collided>>

OthersStay(r) == \A s \in Runner \ {r} : pc'[s] = pc[s] /\ run'[s] = run[s]

\* r's goes on, with more returned, perhaps, and no row written.
Carries(r) ==
  /\ Running(r) /\ Running(r)' /\ OthersStay(r) /\ UNCHANGED <<table, collided>>
  /\ run'[r].startedAt = run[r].startedAt /\ run'[r].alone = run[r].alone
  /\ \E M : /\ DOMAIN run'[r].batch = DOMAIN run[r].batch \cup M
            /\ run'[r].returned = run[r].returned \cup M
  /\ run'[r].before = run[r].before \/ DOMAIN run'[r].before \subseteq DOMAIN row
  /\ pc'[r] = "writing" =>
       /\ pc[r] = "writing" \/ LoadMarkets(r)
       /\ run'[r].batch = run[r].batch
       /\ pc[r] = "writing" => run'[r].before = run[r].before
  /\ pc'[r] # "swept" \/ pc[r] # "sweeping"

Begins(r) ==
  /\ ~Running(r) /\ Running(r)' /\ UNCHANGED table /\ pc'[r] = "crawling"
  /\ run'[r].startedAt > latest
  /\ run'[r].alone => \A s \in Runner \ {r} : ~Running(s)
  /\ DOMAIN run'[r].batch = {} /\ run'[r].returned = {} /\ DOMAIN run'[r].before = {}
  /\ \A s \in Runner \ {r} :
       /\ pc'[s] = pc[s]
       /\ \A field \in DOMAIN NoRun \ {"alone"} : run'[s][field] = run[s][field]
       /\ Running(s) => ~run'[s].alone
  /\ ~collided' => ~collided /\ \A s \in Runner \ {r} : ~Running(s)

Ends(r) ==
  /\ Running(r) /\ pc'[r] = "idle" /\ run'[r] = NoRun /\ OthersStay(r)
  /\ UNCHANGED <<table, collided>>

LEMMA Elsewheres ==
  ASSUME CatalogTypes, UNCHANGED <<table, pc, run, latest>>, clock' \in Nat, clock <= clock',
         listed' \in [Event -> SUBSET Market], content' \in [Market -> Content]
  PROVE  CatalogTypes'
BY DEF CatalogTypes, Stocked, table, Ingesting

LEMMA FetchStep ==
  ASSUME Ordered, CatalogTypes, NEW r \in Runner, Fetch(r)
  PROVE  CatalogTypes' /\ Carries(r)
<1> DEFINE e == NextEvent(r)
           n == run[r].pending + Cardinality(listed[e])
           R == [run[r] EXCEPT
                  !.cursor = e, !.events = @ \cup {e}, !.returned = @ \cup listed[e], !.pending = n,
                  !.batch = [m \in DOMAIN @ \cup listed[e] |->
                               IF m \in listed[e] THEN content[m] ELSE @[m]]]
           full == n >= BatchSize
           k == IF full THEN [R EXCEPT !.seenAt = clock] ELSE R
           stage == IF full THEN "applying" ELSE IF R.ended THEN "sweeping" ELSE pc[r]
<1>1. e \in Event /\ pc[r] = "crawling"
  BY NextIsListed DEF Fetch
<1>2. Gathered(r, R, full)
  BY DEF Fetch
<1>3. /\ run' = [run EXCEPT ![r] = k] /\ pc' = [pc EXCEPT ![r] = stage]
      /\ latest' = IF full THEN clock ELSE latest
  BY <1>2 DEF Gathered
<1>4. Ingesting(run[r], "crawling", latest) /\ listed[e] \subseteq Market
      /\ \A m \in listed[e] : content[m] \in Content
  BY <1>1 DEF CatalogTypes
<1>5. DOMAIN run[r] = DOMAIN NoRun
  BY <1>4 DEF Ingesting
<1>6. /\ DOMAIN R = DOMAIN NoRun /\ R.startedAt = run[r].startedAt /\ R.seenAt = run[r].seenAt
      /\ R.ended = run[r].ended /\ R.alone = run[r].alone /\ R.events = run[r].events \cup {e}
      /\ R.returned = run[r].returned \cup listed[e] /\ R.before = run[r].before
      /\ R.batch = [m \in DOMAIN run[r].batch \cup listed[e] |->
                      IF m \in listed[e] THEN content[m] ELSE run[r].batch[m]]
  BY <1>5 DEF NoRun
<1> HIDE DEF R
<1>7. /\ DOMAIN k = DOMAIN NoRun /\ k.startedAt = R.startedAt
      /\ k.seenAt = IF full THEN clock ELSE R.seenAt
      /\ k.ended = R.ended /\ k.alone = R.alone /\ k.events = R.events
      /\ k.returned = R.returned /\ k.batch = R.batch /\ k.before = R.before
  BY <1>6 DEF NoRun
<1>8. stage \in {"applying", "crawling"} /\ stage = IF full THEN "applying" ELSE "crawling"
  BY <1>1, <1>4, <1>6 DEF Ingesting
<1>9. latest' \in Nat /\ latest <= latest' /\ latest' <= clock /\ clock' = clock
  BY <1>3 DEF CatalogTypes, Fetch
<1> HIDE DEF k, full, stage
<1>10. Ingesting(k, stage, latest')
  <2>1. \A m \in DOMAIN R.batch : R.batch[m] \in Content /\ m \in Market
    BY <1>4, <1>6 DEF Ingesting
  <2>2. /\ run[r].startedAt \in Nat /\ run[r].startedAt <= latest
        /\ clock \in Nat /\ latest \in Nat /\ latest <= clock
    BY <1>4 DEF Ingesting, CatalogTypes
  <2>3. k.seenAt \in Nat
    BY <1>4, <1>6, <1>7, <2>2 DEF Ingesting
  <2>4. stage \in {"applying", "writing"} => k.startedAt <= k.seenAt /\ k.seenAt <= latest'
    BY <1>3, <1>6, <1>7, <1>8, <2>2
  <2>5. k.startedAt <= latest'
    BY <1>6, <1>7, <1>9, <2>2
  <2> QED  BY <1>1, <1>4, <1>6, <1>7, <1>8, <2>1, <2>3, <2>4, <2>5 DEF Ingesting
<1>11. stage \in Stages /\ UNCHANGED <<clock, listed, content, row>>
  BY <1>8 DEF Stages, Fetch, venue, table
<1>12. CatalogTypes' /\ pc'[r] = stage /\ run'[r] = k /\ OthersStay(r)
  <2>1. DOMAIN run' = Runner /\ run'[r] = k /\ \A s \in Runner \ {r} : run'[s] = run[s]
    BY <1>3 DEF CatalogTypes
  <2>2. latest' \in Nat /\ latest <= latest' /\ latest' <= clock'
    BY <1>9
  <2>3. CatalogTypes' /\ pc'[r] = stage /\ run'[r] = k
              /\ \A s \in Runner \ {r} : pc'[s] = pc[s] /\ run'[s] = run[s]
    BY <1>3, <1>9, <1>10, <1>11, <2>1, <2>2, OneGoesOn, ZenonT(40)
  <2> QED  BY <2>3 DEF OthersStay
<1>13. DOMAIN k.batch = DOMAIN run[r].batch \cup listed[e]
  BY <1>6, <1>7
<1> QED  BY <1>1, <1>6, <1>7, <1>8, <1>12, <1>13 DEF Carries, Running, Fetch

LEMMA PagesEndStep ==
  ASSUME CatalogTypes, NEW r \in Runner, PagesEnd(r)
  PROVE  CatalogTypes' /\ Carries(r)
<1> DEFINE R == [run[r] EXCEPT !.ended = TRUE]
           full == run[r].events # {}
           k == IF full THEN [R EXCEPT !.seenAt = clock] ELSE R
           stage == IF full THEN "applying" ELSE IF R.ended THEN "sweeping" ELSE pc[r]
<1>1. Ingesting(run[r], pc[r], latest) /\ DOMAIN run[r] = DOMAIN NoRun /\ pc[r] = "crawling"
  BY DEF CatalogTypes, Ingesting, PagesEnd
<1>2. Gathered(r, R, full)
  BY DEF PagesEnd
<1>3. /\ run' = [run EXCEPT ![r] = k] /\ pc' = [pc EXCEPT ![r] = stage]
      /\ latest' = IF full THEN clock ELSE latest
  BY <1>2 DEF Gathered
<1>4. /\ DOMAIN k = DOMAIN NoRun /\ k.startedAt = run[r].startedAt
      /\ k.seenAt = IF full THEN clock ELSE run[r].seenAt
      /\ k.ended = TRUE /\ k.alone = run[r].alone /\ k.events = run[r].events
      /\ k.returned = run[r].returned /\ k.batch = run[r].batch /\ k.before = run[r].before
      /\ stage = IF full THEN "applying" ELSE "sweeping"
  BY <1>1 DEF NoRun
<1>5. full <=> run[r].events # {}
  OBVIOUS
<1>6. latest' \in Nat /\ latest <= latest' /\ latest' <= clock /\ clock' = clock
  BY <1>3 DEF CatalogTypes, PagesEnd
<1> HIDE DEF k, full, stage
<1>7. Ingesting(k, stage, latest')
  <2>1. /\ run[r].startedAt \in Nat /\ run[r].startedAt <= latest
        /\ clock \in Nat /\ latest \in Nat /\ latest <= clock
    BY <1>1 DEF Ingesting, CatalogTypes
  <2>2. k.seenAt \in Nat
    BY <1>1, <1>4, <2>1 DEF Ingesting
  <2>3. stage \in {"applying", "writing"} => k.startedAt <= k.seenAt /\ k.seenAt <= latest'
    BY <1>3, <1>4, <2>1
  <2>4. k.startedAt <= latest'
    BY <1>4, <1>6, <2>1
  <2>5. stage = "sweeping" => DOMAIN k.batch = {}
    BY <1>1, <1>4, <1>5 DEF Ingesting
  <2> QED  BY <1>1, <1>4, <2>2, <2>3, <2>4, <2>5 DEF Ingesting
<1>8. stage \in Stages /\ UNCHANGED <<clock, listed, content, row>>
  BY <1>4 DEF Stages, PagesEnd, venue, table
<1>9. CatalogTypes' /\ pc'[r] = stage /\ run'[r] = k /\ OthersStay(r)
  <2>1. DOMAIN run' = Runner /\ run'[r] = k /\ \A s \in Runner \ {r} : run'[s] = run[s]
    BY <1>3 DEF CatalogTypes
  <2>2. latest' \in Nat /\ latest <= latest' /\ latest' <= clock'
    BY <1>6
  <2>3. CatalogTypes' /\ pc'[r] = stage /\ run'[r] = k
              /\ \A s \in Runner \ {r} : pc'[s] = pc[s] /\ run'[s] = run[s]
    BY <1>3, <1>6, <1>7, <1>8, <2>1, <2>2, OneGoesOn, ZenonT(40)
  <2> QED  BY <2>3 DEF OthersStay
<1>10. /\ DOMAIN k.batch = DOMAIN run[r].batch \cup {}
       /\ k.returned = run[r].returned \cup {}
  BY <1>4
<1> QED  BY <1>1, <1>4, <1>9, <1>10 DEF Carries, Running, PagesEnd

\* What an ingest has gathered.
SameGathered(k, r) ==
  /\ k.startedAt = run[r].startedAt /\ k.seenAt = run[r].seenAt /\ k.ended = run[r].ended
  /\ k.alone = run[r].alone /\ k.events = run[r].events /\ k.batch = run[r].batch
  /\ k.returned = run[r].returned

\* A step that keeps it.
LEMMA CarryStep ==
  ASSUME CatalogTypes, NEW r \in Runner, NEW k, NEW stage \in Stages,
         pc' = [pc EXCEPT ![r] = stage], DOMAIN run' = Runner, run'[r] = k,
         \A s \in Runner \ {r} : run'[s] = run[s],
         UNCHANGED <<clock, listed, content, row, revisions, first, latest, collided>>,
         DOMAIN k = DOMAIN NoRun, SameGathered(k, r), Running(r), stage # "idle",
         k.before = run[r].before \/ DOMAIN k.before \subseteq DOMAIN row,
         \/ stage = pc[r] /\ k.before = run[r].before
         \/ stage = "writing" /\ pc[r] = "applying" /\ LoadMarkets(r)
         \/ stage = "failed"
  PROVE  CatalogTypes' /\ Carries(r)
<1>1. Ingesting(k, stage, latest)
  <2>1. Ingesting(run[r], pc[r], latest)
    BY DEF CatalogTypes
  <2> QED  BY <2>1 DEF Ingesting, SameGathered
<1>2. latest' \in Nat /\ latest <= latest' /\ latest' <= clock' /\ Ingesting(k, stage, latest')
  BY <1>1 DEF CatalogTypes
<1>3. CatalogTypes' /\ pc'[r] = stage /\ run'[r] = k
              /\ \A s \in Runner \ {r} : pc'[s] = pc[s] /\ run'[s] = run[s]
  BY <1>2, OneGoesOn, ZenonT(40)
<1>4. /\ DOMAIN k.batch = DOMAIN run[r].batch \cup {}
      /\ k.returned = run[r].returned \cup {}
  BY DEF SameGathered
<1> QED  BY <1>3, <1>4 DEF Carries, Running, SameGathered, table, OthersStay

LEMMA AbortStep ==
  ASSUME CatalogTypes, NEW r \in Runner, Abort(r) \/ SkipRecord(r)
  PROVE  CatalogTypes' /\ Carries(r)
<1>1. PICK k :
        /\ run' = [run EXCEPT ![r] = k]
        /\ DOMAIN k = DOMAIN NoRun /\ SameGathered(k, r) /\ k.before = run[r].before
  <2> DEFINE a == [run[r] EXCEPT !.aborted = TRUE]
             c == [run[r] EXCEPT !.cursor = NextEvent(r)]
  <2>1. DOMAIN run[r] = DOMAIN NoRun
    BY DEF CatalogTypes, Ingesting
  <2>2. /\ DOMAIN a = DOMAIN NoRun /\ SameGathered(a, r) /\ a.before = run[r].before
        /\ DOMAIN c = DOMAIN NoRun /\ SameGathered(c, r) /\ c.before = run[r].before
    BY <2>1 DEF NoRun, SameGathered
  <2>3. run' = [run EXCEPT ![r] = a] \/ run' = [run EXCEPT ![r] = c]
    BY DEF Abort, SkipRecord
  <2> HIDE DEF a, c
  <2> QED  BY <2>2, <2>3
<1>2. DOMAIN run' = Runner /\ run'[r] = k /\ \A s \in Runner \ {r} : run'[s] = run[s]
  BY <1>1 DEF CatalogTypes
<1>3. pc[r] \in Stages /\ pc' = [pc EXCEPT ![r] = pc[r]]
  BY DEF CatalogTypes, Abort, SkipRecord
<1>4. /\ UNCHANGED <<clock, listed, content, row, revisions, first, latest, collided>>
      /\ Running(r) /\ pc[r] # "idle"
  BY DEF Abort, SkipRecord, Running, venue, table
<1> QED  BY <1>1, <1>2, <1>3, <1>4, CarryStep

LEMMA StopStep ==
  ASSUME CatalogTypes, NEW r \in Runner, StopAborted(r) \/ Break(r)
  PROVE  CatalogTypes' /\ Carries(r)
<1>1. /\ DOMAIN run' = Runner /\ run'[r] = run[r] /\ DOMAIN run[r] = DOMAIN NoRun
      /\ \A s \in Runner \ {r} : run'[s] = run[s]
  BY DEF CatalogTypes, Ingesting, StopAborted, Break
<1>2. SameGathered(run[r], r)
  BY DEF SameGathered
<1>3. /\ UNCHANGED <<clock, listed, content, row, revisions, first, latest, collided>>
      /\ Running(r) /\ "failed" \in Stages /\ pc' = [pc EXCEPT ![r] = "failed"]
  BY DEF StopAborted, Break, Running, venue, table, Stages
<1> QED  BY <1>1, <1>2, <1>3, CarryStep

LEMMA LoadStep ==
  ASSUME CatalogTypes, NEW r \in Runner, LoadMarkets(r)
  PROVE  CatalogTypes' /\ Carries(r)
<1> DEFINE k == [run[r] EXCEPT !.before = [m \in DOMAIN run[r].batch \cap DOMAIN row |-> row[m]]]
<1>1. DOMAIN run[r] = DOMAIN NoRun
  BY DEF CatalogTypes, Ingesting
<1>2. DOMAIN k = DOMAIN NoRun /\ SameGathered(k, r) /\ DOMAIN k.before \subseteq DOMAIN row
  BY <1>1 DEF NoRun, SameGathered
<1>3. DOMAIN run' = Runner /\ run'[r] = k /\ \A s \in Runner \ {r} : run'[s] = run[s]
  BY DEF CatalogTypes, LoadMarkets
<1>4. /\ UNCHANGED <<clock, listed, content, row, revisions, first, latest, collided>>
      /\ Running(r) /\ "writing" \in Stages /\ pc' = [pc EXCEPT ![r] = "writing"]
      /\ pc[r] = "applying"
  BY DEF LoadMarkets, Running, venue, table, Stages
<1> HIDE DEF k
<1> QED  BY <1>2, <1>3, <1>4, CarryStep

LEMMA BeginStep ==
  ASSUME CatalogTypes, NEW r \in Runner, NEW j, Begin(r, j),
         UNCHANGED <<clock, listed, content, row, revisions, first>>
  PROVE  CatalogTypes' /\ Begins(r)
<1> DEFINE others == {s \in Runner \ {r} : Running(s)}
           k == [NoRun EXCEPT !.job = j, !.startedAt = clock, !.alone = others = {}]
<1>1. /\ ~Running(r) /\ latest < clock /\ latest' = clock
      /\ pc' = [pc EXCEPT ![r] = "crawling"]
      /\ run' = [s \in Runner |->
           IF s = r THEN k ELSE [run[s] EXCEPT !.alone = @ /\ s \notin others]]
      /\ collided' = (collided \/ others # {})
  BY DEF Begin
<1>2. /\ DOMAIN k = DOMAIN NoRun /\ k.startedAt = clock /\ k.seenAt = 0 /\ k.ended = FALSE
      /\ (k.alone <=> others = {}) /\ k.alone \in BOOLEAN /\ k.events = {} /\ DOMAIN k.batch = {}
      /\ k.returned = {} /\ DOMAIN k.before = {}
  BY DEF NoRun, NoRows
<1> HIDE DEF k
<1>3. run'[r] = k /\ pc'[r] = "crawling" /\ pc' \in [Runner -> Stages] /\ DOMAIN run' = Runner
  BY <1>1 DEF CatalogTypes, Stages
<1>4. clock \in Nat /\ latest \in Nat
  BY DEF CatalogTypes
<1>5. Ingesting(k, "crawling", clock)
  <2> HIDE DEF others
  <2>1. k.alone \in BOOLEAN /\ k.startedAt <= clock
    BY <1>2, <1>4
  <2>2. k.seenAt \in Nat /\ k.ended \in BOOLEAN /\ ~k.ended
    <3>1. k.seenAt \in Nat
      BY <1>2
    <3>2. k.ended \in BOOLEAN /\ ~k.ended
      BY <1>2, Zenon
    <3> QED  BY <3>1, <3>2
  <2>3. k.startedAt \in Nat /\ DOMAIN k = DOMAIN NoRun /\ k.events = {} /\ DOMAIN k.batch = {}
    BY <1>2, <1>4
  <2> QED  BY <2>1, <2>2, <2>3 DEF Ingesting
<1>6. ASSUME NEW s \in Runner \ {r}
      PROVE  /\ pc'[s] = pc[s] /\ DOMAIN run'[s] = DOMAIN NoRun
             /\ run'[s].alone = (run[s].alone /\ s \notin others)
             /\ \A field \in DOMAIN NoRun \ {"alone"} : run'[s][field] = run[s][field]
  <2>1. DOMAIN run[s] = DOMAIN NoRun /\ "alone" \in DOMAIN NoRun
    BY DEF CatalogTypes, Ingesting, NoRun
  <2>2. run'[s] = [run[s] EXCEPT !.alone = @ /\ s \notin others]
    BY <1>1, <1>6
  <2> HIDE DEF others
  <2>3. /\ DOMAIN run'[s] = DOMAIN NoRun
        /\ run'[s].alone = (run[s].alone /\ s \notin others)
        /\ \A field \in DOMAIN NoRun \ {"alone"} : run'[s][field] = run[s][field]
    BY <2>1, <2>2
  <2> QED  BY <1>1, <2>3 DEF CatalogTypes
<1>7. ASSUME NEW s \in Runner \ {r}
      PROVE  Ingesting(run'[s], pc'[s], clock)
  <2>1. Ingesting(run[s], pc[s], latest)
    BY DEF CatalogTypes
  <2>2. /\ run'[s].startedAt = run[s].startedAt /\ run'[s].seenAt = run[s].seenAt
        /\ run'[s].ended = run[s].ended /\ run'[s].events = run[s].events
        /\ run'[s].batch = run[s].batch
    BY <1>6 DEF NoRun
  <2>3. run'[s].alone \in BOOLEAN /\ run[s].startedAt \in Nat /\ run[s].seenAt \in Nat
    BY <1>6, <2>1 DEF Ingesting
  <2> QED  BY <1>1, <1>4, <1>6, <2>1, <2>2, <2>3 DEF Ingesting
<1>8. Stocked'
  BY <1>1, <1>4 DEF Stocked, CatalogTypes
<1>9. CatalogTypes'
  BY <1>1, <1>3, <1>4, <1>5, <1>7, <1>8 DEF CatalogTypes
<1>10. \A s \in Runner \ {r} : Running(s) => ~run'[s].alone
  BY <1>6
<1>11. ~collided' => ~collided /\ \A s \in Runner \ {r} : ~Running(s)
  BY <1>1
<1>12. run'[r].alone => \A s \in Runner \ {r} : ~Running(s)
  BY <1>2, <1>3
<1>13. /\ run'[r].startedAt > latest /\ DOMAIN run'[r].batch = {} /\ run'[r].returned = {}
       /\ DOMAIN run'[r].before = {}
  BY <1>1, <1>2, <1>3, <1>4
<1> HIDE DEF others
<1> QED  BY <1>1, <1>3, <1>6, <1>9, <1>10, <1>11, <1>12, <1>13 DEF Begins, Running, table

LEMMA EndStep ==
  ASSUME CatalogTypes, NEW r \in Runner, Succeed(r) \/ Fail(r) \/ Die(r)
  PROVE  CatalogTypes' /\ Ends(r)
<1>1. /\ End(r) /\ Running(r)
      /\ UNCHANGED <<clock, listed, content, row, revisions, first, latest, collided>>
  BY DEF Succeed, Fail, Die, venue, table, Running
<1>2. /\ DOMAIN run' = Runner /\ run'[r] = NoRun /\ \A s \in Runner \ {r} : run'[s] = run[s]
      /\ pc' = [pc EXCEPT ![r] = "idle"] /\ "idle" \in Stages
  BY <1>1 DEF CatalogTypes, End, Stages
<1>3. Ingesting(NoRun, "idle", latest')
  BY <1>1 DEF CatalogTypes, Ingesting, NoRun, NoRows
<1>4. latest' \in Nat /\ latest <= latest' /\ latest' <= clock'
  BY <1>1 DEF CatalogTypes
<1>5. CatalogTypes' /\ pc'[r] = "idle"
        /\ \A s \in Runner \ {r} : pc'[s] = pc[s] /\ run'[s] = run[s]
  BY <1>1, <1>2, <1>3, <1>4, OneGoesOn
<1> QED  BY <1>1, <1>2, <1>5 DEF Ends, OthersStay, table

\* The rows a batch leaves.
LEMMA CommitRows ==
  ASSUME CatalogTypes, NEW r \in Runner, Commit(r)
  PROVE  /\ DOMAIN row' = DOMAIN row \cup DOMAIN run[r].batch
         /\ \A m \in DOMAIN row \ DOMAIN run[r].batch : row'[m] = row[m]
         /\ \A m \in DOMAIN run[r].batch :
              /\ row'[m] = IF Same(r, m) THEN Touched(r, m) ELSE Upserted(r, m)
BY DEF Commit

LEMMA CommitStep ==
  ASSUME CatalogTypes, NEW r \in Runner, Commit(r),
         \A m \in DOMAIN run[r].batch : Same(r, m) => Stored(m)
  PROVE  /\ CatalogTypes' /\ OthersStay(r)
         /\ pc[r] = "writing" /\ pc'[r] \in {"crawling", "sweeping"}
         /\ run'[r].startedAt = run[r].startedAt /\ run'[r].alone = run[r].alone
         /\ run'[r].returned = run[r].returned /\ DOMAIN run'[r].batch = {}
         /\ \A m \in DOMAIN run[r].batch : row'[m].last = run[r].seenAt /\ row'[m].since = None
<1> DEFINE k == [run[r] EXCEPT !.batch = NoRows, !.events = {}, !.pending = 0,
                               !.before = NoRows, !.seenAt = 0]
           stage == IF run[r].ended THEN "sweeping" ELSE "crawling"
<1>1. Ingesting(run[r], "writing", latest) /\ pc[r] = "writing"
  BY DEF CatalogTypes, Commit
<1>2. /\ DOMAIN run' = Runner /\ run'[r] = k /\ \A s \in Runner \ {r} : run'[s] = run[s]
      /\ pc' = [pc EXCEPT ![r] = stage] /\ stage \in Stages
      /\ UNCHANGED <<clock, listed, content, latest>>
  BY DEF CatalogTypes, Commit, Stages, venue
<1>3. /\ DOMAIN k = DOMAIN NoRun /\ k.startedAt = run[r].startedAt /\ k.seenAt = 0
      /\ k.ended = run[r].ended /\ k.alone = run[r].alone /\ k.events = {} /\ DOMAIN k.batch = {}
      /\ k.returned = run[r].returned
  BY <1>1 DEF Ingesting, NoRun, NoRows
<1>4. stage \in {"crawling", "sweeping"} /\ (stage = "crawling" <=> ~run[r].ended)
  OBVIOUS
<1> HIDE DEF k, stage
<1>5. Ingesting(k, stage, latest)
  BY <1>1, <1>3, <1>4 DEF Ingesting
<1>6. ASSUME NEW m \in DOMAIN run[r].batch
      PROVE  /\ DOMAIN row'[m] = {"content", "hash", "first", "last", "since"}
             /\ row'[m].content \in Content
             /\ row'[m].last = run[r].seenAt /\ row'[m].since = None
  <2>1. run[r].batch[m] \in Content
    BY <1>1 DEF Ingesting
  <2>2. CASE Same(r, m)
    <3>1. row'[m] = Touched(r, m) /\ m \in DOMAIN row
      BY <2>2, CommitRows DEF Stored
    <3>2. /\ DOMAIN row[m] = {"content", "hash", "first", "last", "since"}
          /\ row[m].content \in Content
      BY <3>1 DEF CatalogTypes, Stocked
    <3> QED  BY <3>1, <3>2 DEF Touched
  <2>3. CASE ~Same(r, m)
    <3>1. row'[m] = Upserted(r, m)
      BY <2>3, CommitRows
    <3> QED  BY <2>1, <3>1 DEF Upserted
  <2> QED  BY <2>2, <2>3
<1>7. run[r].seenAt \in Nat /\ run[r].seenAt <= latest /\ DOMAIN run[r].batch \subseteq Market
  BY <1>1 DEF Ingesting
<1>8. Stocked'
  <2>1. DOMAIN row' \subseteq Market
    BY <1>7, CommitRows DEF CatalogTypes, Stocked
  <2>2. ASSUME NEW m \in DOMAIN row'
        PROVE  /\ DOMAIN row'[m] = {"content", "hash", "first", "last", "since"}
               /\ row'[m].content \in Content /\ row'[m].last \in Nat /\ row'[m].last <= latest'
    <3>1. CASE m \in DOMAIN run[r].batch
      BY <1>2, <1>6, <1>7, <3>1
    <3>2. CASE m \notin DOMAIN run[r].batch
      <4>1. m \in DOMAIN row /\ row'[m] = row[m]
        BY <3>2, CommitRows
      <4> QED  BY <1>2, <4>1 DEF CatalogTypes, Stocked
    <3> QED  BY <3>1, <3>2
  <2> QED  BY <2>1, <2>2 DEF Stocked
<1>9. pc' \in [Runner -> Stages] /\ pc'[r] = stage /\ \A s \in Runner \ {r} : pc'[s] = pc[s]
  BY <1>2 DEF CatalogTypes
<1>10. CatalogTypes'
  BY <1>2, <1>5, <1>8, <1>9 DEF CatalogTypes
<1> QED  BY <1>1, <1>2, <1>3, <1>4, <1>6, <1>9, <1>10 DEF OthersStay

LEMMA ReconcileStep ==
  ASSUME CatalogTypes, NEW r \in Runner, ReconcileMissing(r)
  PROVE  /\ CatalogTypes' /\ OthersStay(r) /\ run'[r] = run[r]
         /\ pc[r] = "sweeping" /\ pc'[r] = "swept"
         /\ DOMAIN row' = DOMAIN row
         /\ \A m \in DOMAIN row :
              /\ row'[m].last = row[m].last /\ row'[m].content = row[m].content
              /\ row'[m].since # None <=> row[m].since # None \/ row[m].last < run[r].startedAt
<1> DEFINE gone == {m \in UnseenSince(r) : row[m].since = None}
<1>1. /\ row' = [m \in DOMAIN row |-> IF m \in gone THEN [row[m] EXCEPT !.since = row[m].last]
                                                    ELSE row[m]]
      /\ pc' = [pc EXCEPT ![r] = "swept"] /\ pc[r] = "sweeping"
      /\ UNCHANGED <<clock, listed, content, run, latest>>
  BY DEF ReconcileMissing, venue
<1>2. \A m \in DOMAIN row : m \in gone <=> row[m].last < run[r].startedAt /\ row[m].since = None
  BY DEF UnseenSince
<1> HIDE DEF gone
<1>3. ASSUME NEW m \in DOMAIN row
      PROVE  /\ DOMAIN row'[m] = DOMAIN row[m]
             /\ row'[m].last = row[m].last /\ row'[m].content = row[m].content
             /\ row'[m].since # None <=> row[m].since # None \/ row[m].last < run[r].startedAt
  <2>1. DOMAIN row[m] = {"content", "hash", "first", "last", "since"} /\ row[m].last # None
    BY DEF CatalogTypes, Stocked, None
  <2>2. CASE m \in gone
    BY <1>1, <1>2, <2>1, <2>2
  <2>3. CASE m \notin gone
    BY <1>1, <1>2, <2>1, <2>3
  <2> QED  BY <2>2, <2>3
<1>4. DOMAIN row' = DOMAIN row
  BY <1>1
<1>5. Stocked'
  BY <1>1, <1>3, <1>4 DEF CatalogTypes, Stocked
<1>6. pc' \in [Runner -> Stages] /\ pc'[r] = "swept" /\ \A s \in Runner \ {r} : pc'[s] = pc[s]
  BY <1>1 DEF CatalogTypes, Stages
<1>7. \A s \in Runner : Ingesting(run'[s], pc'[s], latest')
  BY <1>1, <1>6 DEF CatalogTypes, Ingesting
<1> QED  BY <1>1, <1>3, <1>4, <1>5, <1>6, <1>7 DEF CatalogTypes, OthersStay

-----------------------------------------------------------------------------
\* What a transaction loaded has its rows still: none is ever taken away.
BeforeKept == \A r \in Runner : DOMAIN run[r].before \subseteq DOMAIN row

\* What the steps of the catalog are, of its ingests and rows.
LEMMA CatalogSteps ==
  ASSUME Ordered, CatalogTypes, BeforeKept, [Next]_vars
  PROVE  /\ CatalogTypes' /\ BeforeKept'
         /\ \/ Elsewhere
            \/ \E r \in Runner :
                 Carries(r) \/ Begins(r) \/ Ends(r) \/ Commit(r) \/ ReconcileMissing(r)
<1>1. ASSUME UNCHANGED vars \/ Tick \/ Deploy \/ LockExpires \/ (\E m \in Market : Edit(m))
               \/ \E j \in Job : \/ Enqueue(j) \/ Stalled(j) \/ \E r \in Runner : SkipJob(r, j)
                                 \/ \E letter : Added(j, letter)
      PROVE  CatalogTypes' /\ BeforeKept' /\ Elsewhere
  <2>1. UNCHANGED <<table, pc, run, latest, collided>>
    BY <1>1, ZenonT(40) DEF vars, Tick, Deploy, LockExpires, Edit, Enqueue, Stalled, SkipJob,
                              Added
  <2>2. clock' \in Nat /\ clock <= clock'
    <3>1. clock' = clock + 1 \/ clock' = clock
      BY <1>1, ZenonT(40) DEF vars, Tick, Deploy, LockExpires, Edit, Enqueue, Stalled, SkipJob,
                              Added
    <3> QED  BY <3>1 DEF CatalogTypes
  <2>3. listed' \in [Event -> SUBSET Market] /\ content' \in [Market -> Content]
    <3>1. ASSUME NEW m \in Market, Edit(m)
          PROVE  listed' \in [Event -> SUBSET Market] /\ content' \in [Market -> Content]
      BY <3>1 DEF Edit, CatalogTypes
    <3>2. UNCHANGED <<listed, content>> \/ \E m \in Market : Edit(m)
      BY <1>1 DEF vars, venue, Tick, Deploy, LockExpires, Enqueue, Stalled, SkipJob,
                              Added
    <3> QED  BY <3>1, <3>2 DEF CatalogTypes
  <2>4. CatalogTypes'
    BY <2>1, <2>2, <2>3, Elsewheres
  <2> QED  BY <2>1, <2>4, SMTT(30) DEF Elsewhere, BeforeKept, table
<1>2. ASSUME NEW r \in Runner, Carries(r)
      PROVE  BeforeKept'
  BY <1>2 DEF Carries, OthersStay, BeforeKept, table
<1>3. ASSUME NEW r \in Runner,
             Fetch(r) \/ EndOfPages(r) \/ CursorRepeats(r) \/ Abort(r) \/ SkipRecord(r)
               \/ StopAborted(r) \/ Break(r) \/ LoadMarkets(r)
      PROVE  CatalogTypes' /\ Carries(r)
  BY <1>3, FetchStep, PagesEndStep, AbortStep, StopStep, LoadStep DEF EndOfPages, CursorRepeats
<1>4. ASSUME NEW r \in Runner, RunInline(r) \/ \E j \in Job : RunJob(r, j)
      PROVE  CatalogTypes' /\ BeforeKept' /\ Begins(r)
  <2>1. UNCHANGED <<clock, listed, content, row, revisions, first>> /\ \E j : Begin(r, j)
    BY <1>4 DEF RunInline, RunJob, venue, table
  <2>2. CatalogTypes' /\ Begins(r)
    BY <2>1, BeginStep
  <2>3. \A s \in Runner \ {r} : run'[s].before = run[s].before
    BY <2>2 DEF Begins, NoRun
  <2> QED  BY <2>1, <2>2, <2>3 DEF Begins, BeforeKept
<1>5. ASSUME NEW r \in Runner, Succeed(r) \/ Fail(r) \/ Die(r)
      PROVE  CatalogTypes' /\ BeforeKept' /\ Ends(r)
  <2>1. CatalogTypes' /\ Ends(r)
    BY <1>5, EndStep
  <2>2. run'[r].before = NoRows /\ DOMAIN NoRows = {}
    BY <2>1 DEF Ends, NoRun, NoRows
  <2> QED  BY <2>1, <2>2 DEF Ends, OthersStay, BeforeKept, table
<1>6. ASSUME NEW r \in Runner, Commit(r)
      PROVE  CatalogTypes' /\ BeforeKept'
  <2>1. \A m \in DOMAIN run[r].batch : Same(r, m) => Stored(m)
    BY DEF Same, Known, BeforeKept, Stored
  <2>2. CatalogTypes' /\ OthersStay(r)
    BY <1>6, <2>1, CommitStep
  <2>3. run'[r].before = NoRows /\ DOMAIN NoRows = {}
    <3>1. DOMAIN run[r] = DOMAIN NoRun
      BY DEF CatalogTypes, Ingesting
    <3> QED  BY <1>6, <3>1 DEF Commit, CatalogTypes, NoRun, NoRows
  <2>4. DOMAIN row \subseteq DOMAIN row'
    BY <1>6, CommitRows
  <2> QED  BY <2>2, <2>3, <2>4 DEF OthersStay, BeforeKept
<1>7. ASSUME NEW r \in Runner, ReconcileMissing(r)
      PROVE  CatalogTypes' /\ BeforeKept'
  BY <1>7, ReconcileStep DEF OthersStay, BeforeKept
<1>8. ASSUME NEW j \in Job, KeepLetter(j) \/ LoseLetter(j)
      PROVE  CatalogTypes' /\ BeforeKept' /\ Elsewhere
  <2>1. Added(j, "kept") \/ Added(j, "lost")
    BY <1>8 DEF KeepLetter, LoseLetter
  <2>2. \E letter : Added(j, letter)
    BY <2>1
  <2> QED  BY <1>1, <2>2
<1> QED  BY <1>1, <1>2, <1>3, <1>4, <1>5, <1>6, <1>7, <1>8 DEF Next, Ingest

-----------------------------------------------------------------------------
(* A complete crawl that ran alone *)

\* It is the only ingest; what it has returned and applied is stamped and not missing,
\* and nothing else is stamped since it began.
LoneCrawl(r) ==
  Running(r) /\ run[r].alone =>
    /\ \A s \in Runner \ {r} : ~Running(s)
    /\ DOMAIN run[r].batch \subseteq run[r].returned
    /\ \A m \in run[r].returned \ DOMAIN run[r].batch :
         m \in DOMAIN row /\ row[m].last >= run[r].startedAt
    /\ \A m \in DOMAIN row : row[m].last >= run[r].startedAt =>
         m \in run[r].returned /\ row[m].since = None

LoneCrawls == \A r \in Runner : LoneCrawl(r)

CatalogInv == CatalogTypes /\ BeforeKept /\ LoneCrawls

\* What another ingest does when this one is not alone is nothing to it.
LEMMA LoneOthers ==
  ASSUME LoneCrawls, NEW r \in Runner, NEW s \in Runner \ {r}, Running(r),
         pc'[s] = pc[s], run'[s] = run[s]
  PROVE  LoneCrawl(s)'
<1>1. Running(s)' => Running(s)
  BY DEF Running
<1> QED  BY <1>1 DEF LoneCrawls, LoneCrawl

LEMMA LoneCarry ==
  ASSUME CatalogInv, NEW r \in Runner, Carries(r)
  PROVE  LoneCrawls'
<1>1. ASSUME NEW s \in Runner \ {r} PROVE LoneCrawl(s)'
  BY LoneOthers DEF Carries, OthersStay, CatalogInv
<1>2. LoneCrawl(r)'
  <2> SUFFICES ASSUME run[r].alone
               PROVE  LoneCrawl(r)'
    BY DEF LoneCrawl, Carries
  <2>1. PICK M : /\ DOMAIN run'[r].batch = DOMAIN run[r].batch \cup M
                 /\ run'[r].returned = run[r].returned \cup M
    BY DEF Carries
  <2>2. LoneCrawl(r) /\ Running(r) /\ row' = row /\ run'[r].startedAt = run[r].startedAt
    BY DEF Carries, CatalogInv, LoneCrawls, table
  <2>3. \A s \in Runner \ {r} : ~Running(s)'
    BY <2>2 DEF LoneCrawl, Carries, OthersStay, Running
  <2> QED  BY <2>1, <2>2, <2>3 DEF LoneCrawl
<1> QED  BY <1>1, <1>2 DEF LoneCrawls

LEMMA LoneBegin ==
  ASSUME CatalogInv, NEW r \in Runner, Begins(r), CatalogTypes'
  PROVE  LoneCrawls'
<1>1. ASSUME NEW s \in Runner \ {r}
      PROVE  LoneCrawl(s)'
  <2>1. Running(s)' => Running(s)
    BY DEF Begins, Running
  <2> QED  BY <2>1 DEF LoneCrawl, Begins
<1>2. LoneCrawl(r)'
  <2>1. \A m \in DOMAIN row' : row'[m].last <= latest /\ row'[m].last \in Nat
    BY DEF Begins, table, CatalogInv, CatalogTypes, Stocked
  <2>2. latest \in Nat /\ run'[r].startedAt \in Nat /\ run'[r].startedAt > latest
    BY DEF CatalogInv, CatalogTypes, Ingesting, Begins
  <2>3. \A m \in DOMAIN row' : ~(row'[m].last >= run'[r].startedAt)
    BY <2>1, <2>2
  <2>4. run'[r].alone => \A s \in Runner \ {r} : ~Running(s)'
    BY DEF Begins, Running
  <2> QED  BY <2>3, <2>4 DEF LoneCrawl, Begins
<1> QED  BY <1>1, <1>2 DEF LoneCrawls

LEMMA LoneEnd ==
  ASSUME CatalogInv, NEW r \in Runner, Ends(r)
  PROVE  LoneCrawls'
<1>1. ASSUME NEW s \in Runner \ {r}
      PROVE  LoneCrawl(s)'
  BY LoneOthers DEF Ends, OthersStay, CatalogInv
<1>2. LoneCrawl(r)'
  BY DEF LoneCrawl, Ends, Running
<1> QED  BY <1>1, <1>2 DEF LoneCrawls

LEMMA LoneCommit ==
  ASSUME CatalogInv, NEW r \in Runner, Commit(r)
  PROVE  LoneCrawls'
<1> USE DEF CatalogInv
<1>1. \A m \in DOMAIN run[r].batch : Same(r, m) => Stored(m)
  BY DEF Same, Known, BeforeKept, Stored
<1>2. /\ OthersStay(r) /\ pc[r] = "writing" /\ pc'[r] \in {"crawling", "sweeping"}
      /\ run'[r].startedAt = run[r].startedAt /\ run'[r].alone = run[r].alone
      /\ run'[r].returned = run[r].returned /\ DOMAIN run'[r].batch = {}
      /\ \A m \in DOMAIN run[r].batch : row'[m].last = run[r].seenAt /\ row'[m].since = None
  BY <1>1, CommitStep
<1>3. Running(r)
  BY <1>2 DEF Running
<1>4. ASSUME NEW s \in Runner \ {r}
      PROVE  LoneCrawl(s)'
  <2>1. Running(s)' => ~run'[s].alone
    BY <1>2, <1>3 DEF LoneCrawls, LoneCrawl, OthersStay, Running
  <2> QED  BY <2>1 DEF LoneCrawl
<1>5. LoneCrawl(r)'
  <2> SUFFICES ASSUME run[r].alone
               PROVE  LoneCrawl(r)'
    BY <1>2 DEF LoneCrawl
  <2>1. LoneCrawl(r)
    BY DEF LoneCrawls
  <2>2. run[r].startedAt <= run[r].seenAt /\ run[r].startedAt \in Nat /\ run[r].seenAt \in Nat
    BY <1>2 DEF CatalogTypes, Ingesting
  <2>3. \A s \in Runner \ {r} : ~Running(s)'
    BY <1>2, <1>3, <2>1 DEF LoneCrawl, OthersStay, Running
  <2>4. ASSUME NEW m \in run[r].returned
        PROVE  m \in DOMAIN row' /\ row'[m].last >= run[r].startedAt
    <3>1. CASE m \in DOMAIN run[r].batch
      BY <1>2, <2>2, <3>1, CommitRows
    <3>2. CASE m \notin DOMAIN run[r].batch
      BY <1>3, <2>1, <3>2, CommitRows DEF LoneCrawl
    <3> QED  BY <3>1, <3>2
  <2>5. ASSUME NEW m \in DOMAIN row', row'[m].last >= run[r].startedAt
        PROVE  m \in run[r].returned /\ row'[m].since = None
    <3>1. CASE m \in DOMAIN run[r].batch
      BY <1>2, <1>3, <2>1, <3>1 DEF LoneCrawl
    <3>2. CASE m \notin DOMAIN run[r].batch
      BY <1>3, <2>1, <2>5, <3>2, CommitRows DEF LoneCrawl
    <3> QED  BY <3>1, <3>2
  <2> QED  BY <1>2, <2>3, <2>4, <2>5 DEF LoneCrawl
<1> QED  BY <1>4, <1>5 DEF LoneCrawls

\* What a complete crawl that ran alone leaves flagged is what it was not given.
LEMMA LoneReconcile ==
  ASSUME CatalogInv, NEW r \in Runner, ReconcileMissing(r)
  PROVE  LoneCrawls' /\ SettlesPresence
<1> USE DEF CatalogInv
<1>1. /\ OthersStay(r) /\ run'[r] = run[r]
      /\ pc[r] = "sweeping" /\ pc'[r] = "swept" /\ DOMAIN row' = DOMAIN row
      /\ \A m \in DOMAIN row :
           /\ row'[m].last = row[m].last
           /\ row'[m].since # None <=> row[m].since # None \/ row[m].last < run[r].startedAt
  BY ReconcileStep
<1>2. Running(r) /\ Running(r)'
  BY <1>1 DEF Running
<1>3. /\ DOMAIN run[r].batch = {} /\ run[r].startedAt \in Nat
      /\ \A m \in DOMAIN row : row[m].last \in Nat
  BY <1>1 DEF CatalogTypes, Ingesting, Stocked
<1>4. ASSUME NEW s \in Runner \ {r}
      PROVE  LoneCrawl(s)'
  <2>1. Running(s)' => ~run'[s].alone
    BY <1>1, <1>2 DEF LoneCrawls, LoneCrawl, OthersStay, Running
  <2> QED  BY <2>1 DEF LoneCrawl
<1>5. ASSUME run[r].alone, NEW m \in DOMAIN row
      PROVE  row'[m].since # None <=> m \notin run[r].returned
  <2>1. LoneCrawl(r)
    BY DEF LoneCrawls
  <2>2. m \in run[r].returned <=> row[m].last >= run[r].startedAt
    BY <1>2, <1>3, <1>5, <2>1 DEF LoneCrawl
  <2>3. m \in run[r].returned => row[m].since = None
    BY <1>2, <1>5, <2>1, <2>2 DEF LoneCrawl
  <2>4. row[m].last < run[r].startedAt <=> ~(row[m].last >= run[r].startedAt)
    BY <1>3
  <2> QED  BY <1>1, <2>2, <2>3, <2>4
<1>6. LoneCrawl(r)'
  <2>1. LoneCrawl(r)
    BY DEF LoneCrawls
  <2>2. \A s \in Runner \ {r} : ~Running(s) => ~Running(s)'
    BY <1>1 DEF OthersStay, Running
  <2>3. ASSUME run[r].alone, NEW m \in DOMAIN row, row[m].last >= run[r].startedAt
        PROVE  row'[m].since = None
    BY <1>2, <1>5, <2>1, <2>3 DEF LoneCrawl
  <2> QED  BY <1>1, <1>2, <2>1, <2>2, <2>3 DEF LoneCrawl
<1>7. SettlesPresence
  <2> SUFFICES ASSUME NEW s \in Runner, pc[s] = "sweeping", pc'[s] = "swept", run[s].alone
               PROVE  \A m \in DOMAIN row : row'[m].since # None <=> m \notin run[s].returned
    BY DEF SettlesPresence
  <2>1. s = r
    BY <1>1 DEF OthersStay
  <2> QED  BY <1>5, <2>1
<1> QED  BY <1>4, <1>6, <1>7 DEF LoneCrawls

LEMMA CatalogInvNext ==
  ASSUME Ordered, CatalogInv, [Next]_vars
  PROVE  CatalogInv' /\ SettlesPresence
<1>1. /\ CatalogTypes' /\ BeforeKept'
      /\ \/ Elsewhere
         \/ \E r \in Runner :
                 Carries(r) \/ Begins(r) \/ Ends(r) \/ Commit(r) \/ ReconcileMissing(r)
  BY CatalogSteps DEF CatalogInv
<1>2. CASE Elsewhere
  <2>1. LoneCrawls'
    BY <1>2 DEF Elsewhere, table, CatalogInv, LoneCrawls, LoneCrawl, Running
  <2>2. SettlesPresence
    BY <1>2 DEF Elsewhere, SettlesPresence
  <2> QED  BY <1>1, <2>1, <2>2 DEF CatalogInv
<1>3. ASSUME NEW r \in Runner, Carries(r) \/ Begins(r) \/ Ends(r) \/ Commit(r)
      PROVE  SettlesPresence
  <2> SUFFICES ASSUME NEW s \in Runner, pc[s] = "sweeping", pc'[s] = "swept"
               PROVE  FALSE
    BY DEF SettlesPresence
  <2>1. CASE Carries(r)
    BY <2>1 DEF Carries, OthersStay
  <2>2. CASE Begins(r)
    BY <2>2 DEF Begins
  <2>3. CASE Ends(r)
    BY <2>3 DEF Ends, OthersStay
  <2>4. CASE Commit(r)
    BY <2>4 DEF Commit, CatalogInv, CatalogTypes
  <2> QED  BY <1>3, <2>1, <2>2, <2>3, <2>4
<1> QED  BY <1>1, <1>2, <1>3, LoneCarry, LoneBegin, LoneEnd, LoneCommit, LoneReconcile
         DEF CatalogInv

LEMMA CatalogInvInit ==
  ASSUME Init
  PROVE  CatalogInv
<1>1. /\ clock = 1 /\ latest = 0
      /\ listed \in [Event -> SUBSET Market] /\ content \in [Market -> Content]
      /\ pc = [r \in Runner |-> "idle"] /\ run = [r \in Runner |-> NoRun] /\ DOMAIN row = {}
  BY DEF Init, NoRows
<1>2. Ingesting(NoRun, "idle", 0)
  BY DEF Ingesting, NoRun, NoRows
<1>3. CatalogTypes
  BY <1>1, <1>2 DEF CatalogTypes, Stocked, Stages
<1>4. DOMAIN NoRun.before = {}
  BY DEF NoRun, NoRows
<1>5. BeforeKept /\ LoneCrawls
  BY <1>1, <1>4 DEF BeforeKept, LoneCrawls, LoneCrawl, Running
<1> QED  BY <1>3, <1>5 DEF CatalogInv

\* ingest-catalog.ts, reconcileMissing: what a complete crawl that ran alone leaves
\* flagged is what it was not given, whatever a crawl before it that failed half-way,
\* was aborted or died has written.
THEOREM CrawlsSettle ==
  ASSUME Ordered
  PROVE  Spec => CrawlSettlesPresence
<1> QED  BY CatalogInvInit, CatalogInvNext, PTL DEF Spec, CrawlSettlesPresence

-----------------------------------------------------------------------------
(* The history of a row *)

Steps(h, f) == {i \in DOMAIN h : f \in DOMAIN h[i]}

\* What a history says of a field before its step i: what the last earlier step
\* made of it, or what the market said when it was created.
Says(h, c, f, i, value) ==
  \/ \E k \in Steps(h, f) : /\ k < i /\ \A l \in Steps(h, f) : l < i => l <= k
                            /\ value = h[k][f].new
  \/ (\A k \in Steps(h, f) : ~(k < i)) /\ value = c[f]

Explains(h, c, f, value) ==
  /\ Says(h, c, f, Len(h) + 1, value)
  /\ \A i \in Steps(h, f) : Says(h, c, f, i, h[i][f].old)

Revision == UNION {[F -> [old : Value, new : Value]] : F \in SUBSET Field}

\* One ingest runs at most, what its transaction loaded is what the rows say, and each
\* history explains its row.
Explained ==
  /\ \A r, s \in Runner : Running(r) /\ Running(s) => r = s
  /\ revisions \in [Market -> Seq(Revision)] /\ DOMAIN first = DOMAIN row
  /\ \A m \in Market \ DOMAIN row : revisions[m] = <<>>
  /\ \A r \in Runner : pc[r] = "writing" =>
       /\ DOMAIN run[r].before = DOMAIN run[r].batch \cap DOMAIN row
       /\ \A m \in DOMAIN run[r].before : run[r].before[m] = row[m]
  /\ \A m \in DOMAIN row, f \in Field : Explains(revisions[m], first[m], f, row[m].content[f])

HistoryInv == CatalogTypes /\ BeforeKept /\ (~collided => Explained)

\* There is one thing a history can say.
LEMMA ChosenSays ==
  ASSUME NEW S, NEW h \in Seq(S), NEW c, NEW f, NEW i \in Int, NEW value, Says(h, c, f, i, value)
  PROVE  value = IF \E k \in Steps(h, f) : k < i
                   THEN LET k == CHOOSE k \in Steps(h, f) :
                                   k < i /\ \A l \in Steps(h, f) : l < i => l <= k
                        IN h[k][f].new
                   ELSE c[f]
<1>1. CASE \A k \in Steps(h, f) : ~(k < i)
  BY <1>1 DEF Says
<1>2. CASE \E k \in Steps(h, f) : k < i
  <2> DEFINE Last(k) == k \in Steps(h, f) /\ k < i /\ \A l \in Steps(h, f) : l < i => l <= k
             chosen == CHOOSE k \in Steps(h, f) : k < i /\ \A l \in Steps(h, f) : l < i => l <= k
  <2>1. PICK k : Last(k) /\ value = h[k][f].new
    BY <1>2 DEF Says
  <2>2. Last(chosen)
    BY <2>1
  <2>3. chosen \in Nat /\ k \in Nat
    BY <2>1, <2>2 DEF Steps
  <2>4. chosen <= k /\ k <= chosen
    BY <2>1, <2>2
  <2>5. chosen = k
    BY <2>3, <2>4
  <2> HIDE DEF chosen
  <2>6. value = h[chosen][f].new
    BY <2>1, <2>5
  <2> QED  BY <1>2, <2>6 DEF chosen
<1> QED  BY <1>1, <1>2

\* An earlier step says what it said; the new one what it makes of its fields.
LEMMA AppendSays ==
  ASSUME NEW h \in Seq(Revision), NEW e \in Revision, NEW c, NEW f, NEW value
  PROVE  /\ \A i \in 1..(Len(h) + 1) : Says(h, c, f, i, value) => Says(Append(h, e), c, f, i, value)
         /\ f \in DOMAIN e => Says(Append(h, e), c, f, Len(h) + 2, e[f].new)
         /\ f \notin DOMAIN e /\ Says(h, c, f, Len(h) + 1, value)
              => Says(Append(h, e), c, f, Len(h) + 2, value)
<1> DEFINE g == Append(h, e)
           n == Len(h) + 1
<1>1. /\ n \in Nat /\ DOMAIN h = 1..Len(h) /\ DOMAIN g = 1..n /\ Len(h) \in Nat
      /\ g[n] = e /\ \A i \in DOMAIN h : g[i] = h[i]
  OBVIOUS
<1> HIDE DEF g, n
<1>2. Steps(g, f) = IF f \in DOMAIN e THEN Steps(h, f) \cup {n} ELSE Steps(h, f)
  <2>1. \A i \in 1..n : i = n \/ i \in DOMAIN h
    BY <1>1 DEF n
  <2>2. DOMAIN h \subseteq 1..n /\ n \in 1..n /\ n \notin DOMAIN h
    BY <1>1 DEF n
  <2> QED  BY <1>1, <2>1, <2>2 DEF Steps
<1>3. Steps(h, f) \subseteq 1..Len(h) /\ \A i \in Steps(h, f) : g[i] = h[i]
  BY <1>1 DEF Steps
<1>4. ASSUME NEW i \in 1..n, Says(h, c, f, i, value)
      PROVE  Says(g, c, f, i, value)
  <2>1. \A k \in Steps(g, f) : k < i => k \in Steps(h, f)
    BY <1>1, <1>2
  <2>2. Steps(h, f) \subseteq Steps(g, f)
    BY <1>2
  <2> QED  BY <1>3, <1>4, <2>1, <2>2 DEF Says
<1>5. ASSUME f \in DOMAIN e
      PROVE  Says(g, c, f, n + 1, e[f].new)
  <2>1. n \in Steps(g, f) /\ n < n + 1 /\ \A l \in Steps(g, f) : l < n + 1 => l <= n
    BY <1>1, <1>2, <1>3, <1>5 DEF n
  <2> QED  BY <1>1, <2>1 DEF Says
<1>6. ASSUME f \notin DOMAIN e, Says(h, c, f, n, value)
      PROVE  Says(g, c, f, n + 1, value)
  <2>1. Steps(g, f) = Steps(h, f) /\ \A k \in Steps(h, f) : k < n /\ k < n + 1
    BY <1>1, <1>2, <1>3, <1>6 DEF n
  <2> QED  BY <1>3, <1>6, <2>1 DEF Says
<1>7. n + 1 = Len(h) + 2
  BY <1>1 DEF n
<1> QED  BY <1>4, <1>5, <1>6, <1>7 DEF g, n

LEMMA AppendExplains ==
  ASSUME NEW h \in Seq(Revision), NEW e \in Revision, NEW c, NEW f, NEW value, NEW now,
         Explains(h, c, f, value),
         f \in DOMAIN e => e[f].old = value /\ e[f].new = now,
         f \notin DOMAIN e => now = value
  PROVE  Explains(Append(h, e), c, f, now)
<1> DEFINE g == Append(h, e)
<1>1. /\ Len(g) = Len(h) + 1 /\ Len(h) \in Nat /\ DOMAIN g = 1..(Len(h) + 1)
      /\ g[Len(h) + 1] = e /\ DOMAIN h = 1..Len(h) /\ \A i \in DOMAIN h : g[i] = h[i]
  OBVIOUS
<1>2. Says(g, c, f, Len(h) + 2, now)
  BY AppendSays DEF Explains
<1>3. ASSUME NEW i \in Steps(g, f)
      PROVE  Says(g, c, f, i, g[i][f].old)
  <2>1. CASE i = Len(h) + 1
    <3>1. g[i][f].old = value /\ i \in 1..(Len(h) + 1)
      BY <1>1, <1>3, <2>1 DEF Steps
    <3> QED  BY <2>1, <3>1, AppendSays DEF Explains
  <2>2. CASE i # Len(h) + 1
    <3>1. i \in Steps(h, f) /\ g[i] = h[i] /\ i \in 1..(Len(h) + 1)
      BY <1>1, <1>3, <2>2 DEF Steps
    <3>2. Says(h, c, f, i, h[i][f].old)
      BY <3>1 DEF Explains
    <3> HIDE DEF g
    <3> QED  BY <3>1, <3>2, AppendSays DEF g
  <2> QED  BY <2>1, <2>2
<1>4. Len(g) + 1 = Len(h) + 2
  BY <1>1
<1> HIDE DEF g
<1>5. Explains(g, c, f, now)
  BY <1>2, <1>3, <1>4 DEF Explains
<1> QED  BY <1>5 DEF g

\* A market whose first row this is has nothing to explain.
LEMMA NewExplains ==
  ASSUME NEW c, NEW f
  PROVE  Explains(<<>>, c, f, c[f])
<1>1. Steps(<<>>, f) = {}
  BY DEF Steps
<1> QED  BY <1>1 DEF Explains, Says

\* What a batch adds to the histories.
LEMMA CommitHistory ==
  ASSUME HistoryInv, NEW r \in Runner, Commit(r), ~collided, NEW m \in Market
  PROVE  /\ revisions'[m] \in Seq(Revision)
         /\ m \in DOMAIN row' =>
              \A f \in Field : Explains(revisions'[m], first'[m], f, row'[m].content[f])
         /\ m \notin DOMAIN row' => revisions'[m] = <<>>
<1> USE DEF HistoryInv
<1> DEFINE B == DOMAIN run[r].batch
           C == Changes(r, m)
           e == [f \in C |-> [old |-> run[r].before[m].content[f], new |-> run[r].batch[m][f]]]
<1>1. /\ revisions'[m] = IF m \in B /\ C # {} THEN Append(revisions[m], e) ELSE revisions[m]
      /\ DOMAIN row' = DOMAIN row \cup B
      /\ m \in DOMAIN row \cup B =>
           /\ first'[m] = IF m \in DOMAIN row THEN first[m] ELSE run[r].batch[m]
           /\ row'[m] = IF m \notin B THEN row[m]
                        ELSE IF Same(r, m) THEN Touched(r, m) ELSE Upserted(r, m)
  BY DEF Commit, Stored
<1>2. /\ DOMAIN run[r].before = B \cap DOMAIN row
      /\ \A x \in DOMAIN run[r].before : run[r].before[x] = row[x]
      /\ \A x \in DOMAIN row, f \in Field : Explains(revisions[x], first[x], f, row[x].content[f])
      /\ revisions[m] \in Seq(Revision) /\ (m \notin DOMAIN row => revisions[m] = <<>>)
  BY DEF Commit, Explained
<1>3. CASE m \notin B
  BY <1>1, <1>2, <1>3
<1>4. CASE m \in B /\ m \notin DOMAIN row
  <2>1. ~Known(r, m) /\ ~Same(r, m) /\ C = {}
    BY <1>2, <1>4 DEF Known, Same, Changes
  <2>2. /\ revisions'[m] = <<>> /\ first'[m] = run[r].batch[m]
        /\ row'[m].content = run[r].batch[m]
    BY <1>1, <1>2, <1>4, <2>1 DEF Upserted
  <2> QED  BY <1>1, <1>2, <1>4, <2>2, NewExplains
<1>5. CASE m \in B /\ m \in DOMAIN row /\ Same(r, m)
  <2>1. C = {}
    BY <1>5 DEF Changes
  <2>2. row'[m].content = row[m].content
    <3>1. DOMAIN row[m] = {"content", "hash", "first", "last", "since"}
      BY <1>5 DEF CatalogTypes, Stocked
    <3> QED  BY <1>1, <1>5, <3>1 DEF Touched
  <2> QED  BY <1>1, <1>2, <1>5, <2>1, <2>2
<1>6. CASE m \in B /\ m \in DOMAIN row /\ ~Same(r, m)
  <2>1. /\ run[r].before[m] = row[m]
        /\ C = {f \in Field : row[m].content[f] # run[r].batch[m][f]}
    BY <1>2, <1>6 DEF Known, Changes, DiffContent
  <2>2. row'[m].content = run[r].batch[m] /\ first'[m] = first[m]
    BY <1>1, <1>6 DEF Upserted
  <2>3. row[m].content \in [Field -> Value] /\ run[r].batch[m] \in [Field -> Value]
    BY <1>6 DEF CatalogTypes, Stocked, Ingesting, Content
  <2>4. /\ e \in Revision /\ DOMAIN e = C
        /\ \A f \in C : e[f].old = row[m].content[f] /\ e[f].new = run[r].batch[m][f]
    <3>1. C \in SUBSET Field
      BY <2>1
    <3>2. \A f \in C : row[m].content[f] \in Value /\ run[r].batch[m][f] \in Value
      BY <2>3, <3>1
    <3>3. e \in [C -> [old : Value, new : Value]]
      BY <2>1, <3>2
    <3>4. e \in Revision
      BY <3>1, <3>3 DEF Revision
    <3> HIDE DEF C
    <3>5. \A f \in C : e[f].old = row[m].content[f] /\ e[f].new = run[r].batch[m][f]
      BY <2>1
    <3> QED  BY <3>4, <3>5
  <2> HIDE DEF e, C
  <2>5. CASE C = {}
    <3>1. \A f \in Field : row'[m].content[f] = row[m].content[f]
      BY <2>1, <2>2, <2>5
    <3>2. revisions'[m] = revisions[m] /\ m \in DOMAIN row'
      BY <1>1, <1>6, <2>5
    <3> QED  BY <1>2, <1>6, <2>2, <3>1, <3>2
  <2>6. CASE C # {}
    <3>1. revisions'[m] = Append(revisions[m], e) /\ m \in DOMAIN row'
      BY <1>1, <1>6, <2>6
    <3>2. ASSUME NEW f \in Field
          PROVE  Explains(Append(revisions[m], e), first[m], f, run[r].batch[m][f])
      <4>1. Explains(revisions[m], first[m], f, row[m].content[f])
        BY <1>2, <1>6
      <4>2. /\ f \in DOMAIN e => e[f].old = row[m].content[f] /\ e[f].new = run[r].batch[m][f]
            /\ f \notin DOMAIN e => run[r].batch[m][f] = row[m].content[f]
        BY <2>1, <2>4
      <4> QED  BY <1>2, <2>4, <4>1, <4>2, AppendExplains
    <3>3. Append(revisions[m], e) \in Seq(Revision)
      BY <1>2, <2>4
    <3> QED  BY <2>2, <3>1, <3>2, <3>3
  <2> QED  BY <2>5, <2>6
<1> QED  BY <1>3, <1>4, <1>5, <1>6

LEMMA ExplainedCommit ==
  ASSUME HistoryInv, NEW r \in Runner, Commit(r), ~collided, CatalogTypes'
  PROVE  Explained'
<1> USE DEF HistoryInv
<1>1. \A s \in Runner : Running(s) => s = r
  BY DEF Explained, Commit, Running
<1>2. /\ pc'[r] \in {"crawling", "sweeping"} /\ OthersStay(r)
      /\ DOMAIN revisions' = Market /\ DOMAIN row' = DOMAIN row \cup DOMAIN run[r].batch
      /\ DOMAIN first' = DOMAIN row'
  BY DEF Commit, CatalogTypes, OthersStay
<1>3. \A m \in Market :
        /\ revisions'[m] \in Seq(Revision)
        /\ m \in DOMAIN row' =>
             \A f \in Field : Explains(revisions'[m], first'[m], f, row'[m].content[f])
        /\ m \notin DOMAIN row' => revisions'[m] = <<>>
  BY CommitHistory
<1>4. \A s \in Runner : (Running(s)' => s = r) /\ pc'[s] # "writing"
  BY <1>1, <1>2 DEF OthersStay, Running
<1>5. revisions' \in [Market -> Seq(Revision)]
  <2>1. revisions' = [m \in Market |-> revisions'[m]]
    BY DEF Commit
  <2> QED  BY <1>3, <2>1
<1>6. DOMAIN row' \subseteq Market
  BY DEF CatalogTypes, Stocked
<1> QED  BY <1>2, <1>3, <1>4, <1>5, <1>6 DEF Explained

LEMMA HistoryInvNext ==
  ASSUME Ordered, HistoryInv, [Next]_vars
  PROVE  HistoryInv'
<1> USE DEF HistoryInv
<1>1. /\ CatalogTypes' /\ BeforeKept'
      /\ \/ Elsewhere
         \/ \E r \in Runner :
                 Carries(r) \/ Begins(r) \/ Ends(r) \/ Commit(r) \/ ReconcileMissing(r)
  BY CatalogSteps
<1> SUFFICES ASSUME ~collided'
             PROVE  Explained'
  BY <1>1
<1>2. CASE Elsewhere
  BY <1>2 DEF Elsewhere, table, Explained, Running
<1>3. ASSUME NEW r \in Runner, Carries(r)
      PROVE  Explained'
  <2>1. ~collided /\ \A s \in Runner : Running(s)' <=> Running(s)
    BY <1>3 DEF Carries, OthersStay, Running
  <2>2. pc'[r] = "writing" =>
          /\ DOMAIN run'[r].before = DOMAIN run'[r].batch \cap DOMAIN row
          /\ \A m \in DOMAIN run'[r].before : run'[r].before[m] = row[m]
    <3>1. CASE LoadMarkets(r)
      <4> DEFINE loaded == [m \in DOMAIN run[r].batch \cap DOMAIN row |-> row[m]]
      <4>1. run'[r] = [run[r] EXCEPT !.before = loaded]
        BY <3>1 DEF LoadMarkets, CatalogTypes
      <4>2. DOMAIN run[r] = DOMAIN NoRun
        BY DEF CatalogTypes, Ingesting
      <4>3. run'[r].before = loaded /\ run'[r].batch = run[r].batch
        BY <4>1, <4>2 DEF NoRun
      <4> QED  BY <4>3
    <3>2. CASE ~LoadMarkets(r)
      BY <1>3, <2>1, <3>2 DEF Carries, Explained
    <3> QED  BY <3>1, <3>2
  <2>3. \A s \in Runner \ {r} : pc'[s] = pc[s] /\ run'[s] = run[s]
    BY <1>3 DEF Carries, OthersStay
  <2>4. UNCHANGED <<row, revisions, first>>
    BY <1>3 DEF Carries, table
  <2> QED  BY <2>1, <2>2, <2>3, <2>4 DEF Explained
<1>4. ASSUME NEW r \in Runner, Begins(r)
      PROVE  Explained'
  <2>1. ~collided /\ \A s \in Runner \ {r} : ~Running(s) /\ ~Running(s)'
    BY <1>4 DEF Begins, Running
  <2>2. \A s \in Runner : pc'[s] # "writing"
    BY <1>4, <2>1 DEF Begins, Running
  <2>3. UNCHANGED <<row, revisions, first>>
    BY <1>4 DEF Begins, table
  <2> QED  BY <2>1, <2>2, <2>3 DEF Explained
<1>5. ASSUME NEW r \in Runner, Ends(r)
      PROVE  Explained'
  <2>1. ~collided /\ UNCHANGED <<row, revisions, first>> /\ pc'[r] = "idle"
        /\ \A s \in Runner \ {r} : pc'[s] = pc[s] /\ run'[s] = run[s]
    BY <1>5 DEF Ends, table, OthersStay
  <2> QED  BY <2>1, SMTT(30) DEF Explained, Running
<1>6. ASSUME NEW r \in Runner, Commit(r)
      PROVE  Explained'
  BY <1>1, <1>6, ExplainedCommit DEF Commit
<1>7. ASSUME NEW r \in Runner, ReconcileMissing(r)
      PROVE  Explained'
  <2>1. /\ ~collided /\ UNCHANGED <<revisions, first>> /\ DOMAIN row' = DOMAIN row
        /\ \A m \in DOMAIN row : row'[m].content = row[m].content
        /\ OthersStay(r) /\ pc[r] = "sweeping" /\ pc'[r] = "swept"
    BY <1>7, ReconcileStep DEF ReconcileMissing
  <2>2. \A s \in Runner : (Running(s)' => s = r) /\ pc'[s] # "writing"
    BY <2>1 DEF Explained, OthersStay, Running
  <2> QED  BY <2>1, <2>2 DEF Explained
<1> QED  BY <1>1, <1>2, <1>3, <1>4, <1>5, <1>6, <1>7

LEMMA ExplainsTheRow ==
  ASSUME HistoryInv
  PROVE  HistoryExplainsRow
<1> SUFFICES ASSUME ~collided, NEW m \in DOMAIN row, NEW f \in Field
             PROVE
      LET steps == {i \in DOMAIN revisions[m] : f \in DOMAIN revisions[m][i]}
          said(i) == IF \E k \in steps : k < i
                       THEN LET k == CHOOSE k \in steps : k < i /\ \A l \in steps : l < i => l <= k
                            IN revisions[m][k][f].new
                       ELSE first[m][f]
      IN /\ row[m].content[f] = said(Len(revisions[m]) + 1)
         /\ \A i \in steps : revisions[m][i][f].old = said(i)
  BY DEF HistoryExplainsRow
<1> DEFINE h == revisions[m]
<1>1. h \in Seq(Revision) /\ Explains(h, first[m], f, row[m].content[f])
  BY DEF HistoryInv, Explained, CatalogTypes, Stocked
<1>2. Steps(h, f) \subseteq Int /\ Len(h) + 1 \in Int
  BY <1>1 DEF Steps
<1>3. row[m].content[f] =
        IF \E k \in Steps(h, f) : k < Len(h) + 1
          THEN LET k == CHOOSE k \in Steps(h, f) :
                          k < Len(h) + 1 /\ \A l \in Steps(h, f) : l < Len(h) + 1 => l <= k
               IN h[k][f].new
          ELSE first[m][f]
  <2>1. Says(h, first[m], f, Len(h) + 1, row[m].content[f])
    BY <1>1 DEF Explains
  <2> HIDE DEF h
  <2> QED  BY <1>1, <1>2, <2>1, ChosenSays, ZenonT(40)
<1>4. ASSUME NEW i \in Steps(h, f)
      PROVE  h[i][f].old =
        IF \E k \in Steps(h, f) : k < i
          THEN LET k == CHOOSE k \in Steps(h, f) : k < i /\ \A l \in Steps(h, f) : l < i => l <= k
               IN h[k][f].new
          ELSE first[m][f]
  <2>1. Says(h, first[m], f, i, h[i][f].old)
    BY <1>1 DEF Explains
  <2> HIDE DEF h
  <2> QED  BY <1>1, <1>2, <2>1, ChosenSays, ZenonT(40)
<1> QED  BY <1>3, <1>4 DEF Steps

LEMMA HistoryInvInit ==
  ASSUME Init
  PROVE  HistoryInv
<1>1. CatalogTypes /\ BeforeKept
  BY CatalogInvInit DEF CatalogInv
<1>2. /\ \A r \in Runner : pc[r] = "idle"
      /\ revisions = [m \in Market |-> <<>>] /\ DOMAIN first = {} /\ DOMAIN row = {}
  BY DEF Init, NoRows
<1>3. Explained
  BY <1>2 DEF Explained, Running
<1> QED  BY <1>1, <1>3 DEF HistoryInv

\* ingest-catalog.ts, applyBatch: a field of a row says what its last revision made of
\* it, or what the market said at first, and each revision takes up where the one
\* before it ended, across retries, crashes and releases, until two ingests run at once.
THEOREM HistoriesExplain ==
  ASSUME Ordered
  PROVE  Spec => []HistoryExplainsRow
<1> QED  BY HistoryInvInit, HistoryInvNext, ExplainsTheRow, PTL DEF Spec

-----------------------------------------------------------------------------
(* Dead letters *)

JobState   == {"none", "waiting", "active", "skipped", "completed", "failed", "stalled"}
QueueEntry == [state : JobState, attempts : Int, stalls : Nat]
Letter     == {"none", "adding", "kept", "lost"}

\* A worker's ingest runs a job that is active, and no other worker runs it.
Work ==
  \A r \in Runner \ Inline : Running(r) =>
    /\ run[r].job \in Job /\ jobs[run[r].job].state = "active"
    /\ \A s \in Runner \ Inline : Running(s) /\ run[s].job = run[r].job => s = r

Entries == jobs \in [Job -> QueueEntry] /\ letters \in [Job -> Letter] /\ ExhaustedIsKept

QueueInv == CatalogTypes /\ BeforeKept /\ Entries /\ Work

\* Nobody takes a job or is done with it.
SameJobs == \A s \in Runner : (Running(s)' <=> Running(s)) /\ run'[s].job = run[s].job

LEMMA WorkStays ==
  ASSUME Work, SameJobs, \A j \in Job : jobs[j].state = "active" => jobs'[j].state = "active"
  PROVE  Work'
BY DEF Work, SameJobs

\* A worker is done with its job, and it with the worker.
LEMMA WorkEnds ==
  ASSUME Work, NEW r \in Runner, Ends(r),
         \/ r \in Inline /\ jobs' = jobs
         \/ r \notin Inline /\ \A j \in Job \ {run[r].job} : jobs'[j] = jobs[j]
  PROVE  Work'
<1>1. ~Running(r)' /\ Running(r)
      /\ \A s \in Runner \ {r} : (Running(s)' <=> Running(s)) /\ run'[s] = run[s]
  BY DEF Ends, OthersStay, Running
<1> SUFFICES ASSUME NEW s \in Runner \ Inline, Running(s)'
             PROVE  /\ run'[s].job \in Job /\ jobs'[run'[s].job].state = "active"
                    /\ \A t \in Runner \ Inline : Running(t)' /\ run'[t].job = run'[s].job => t = s
  BY DEF Work
<1>2. s # r /\ Running(s) /\ run'[s] = run[s]
  BY <1>1
<1>3. /\ run[s].job \in Job /\ jobs[run[s].job].state = "active"
      /\ \A t \in Runner \ Inline : Running(t) /\ run[t].job = run[s].job => t = s
  BY <1>2 DEF Work
<1>4. jobs'[run[s].job] = jobs[run[s].job]
  BY <1>1, <1>2, <1>3
<1>5. \A t \in Runner \ Inline : Running(t)' /\ run'[t].job = run'[s].job => t = s
  BY <1>1, <1>2, <1>3
<1> QED  BY <1>2, <1>3, <1>4, <1>5

\* A worker takes a job that nobody has.
LEMMA WorkBegins ==
  ASSUME CatalogTypes, Work, NEW r \in Runner \ Inline, NEW j \in Job, Begin(r, j), Begins(r),
         jobs[j].state # "active", jobs'[j].state = "active",
         \A i \in Job \ {j} : jobs'[i] = jobs[i]
  PROVE  Work'
<1>1. run'[r].job = j
  <2>1. run'[r] = [NoRun EXCEPT !.job = j, !.startedAt = clock,
                                !.alone = {s \in Runner \ {r} : Running(s)} = {}]
    BY DEF Begin
  <2> QED  BY <2>1 DEF NoRun
<1>2. \A s \in Runner \ {r} : (Running(s)' <=> Running(s)) /\ run'[s].job = run[s].job
  <2>1. "job" \in DOMAIN NoRun \ {"alone"}
    BY DEF NoRun
  <2> QED  BY <2>1 DEF Begins, Running
<1>3. \A s \in Runner \ Inline : Running(s) =>
        run[s].job \in Job /\ run[s].job # j /\ jobs[run[s].job].state = "active"
  BY DEF Work
<1> SUFFICES ASSUME NEW s \in Runner \ Inline, Running(s)'
             PROVE  /\ run'[s].job \in Job /\ jobs'[run'[s].job].state = "active"
                    /\ \A t \in Runner \ Inline : Running(t)' /\ run'[t].job = run'[s].job => t = s
  BY DEF Work
<1>4. CASE s = r
  BY <1>1, <1>2, <1>3, <1>4
<1>5. CASE s # r
  <2>1. /\ run'[s].job = run[s].job /\ Running(s) /\ run[s].job \in Job \ {j}
        /\ jobs[run[s].job].state = "active"
    BY <1>2, <1>3, <1>5
  <2>2. \A t \in Runner \ Inline : Running(t) /\ run[t].job = run[s].job => t = s
    BY <2>1 DEF Work
  <2>3. \A t \in Runner \ Inline : Running(t)' /\ run'[t].job = run'[s].job => t = s
    BY <1>1, <1>2, <2>1, <2>2
  <2> QED  BY <2>1, <2>3
<1> QED  BY <1>4, <1>5

\* A crawl that goes on keeps its job.
LEMMA CrawlsKeepJobs ==
  ASSUME Ordered, CatalogTypes, NEW r \in Runner,
         \/ Fetch(r) \/ EndOfPages(r) \/ CursorRepeats(r) \/ Abort(r) \/ SkipRecord(r)
         \/ StopAborted(r) \/ Break(r) \/ LoadMarkets(r) \/ Commit(r) \/ ReconcileMissing(r)
  PROVE  SameJobs /\ UNCHANGED <<jobs, letters>>
<1>1. DOMAIN run[r] = DOMAIN NoRun /\ DOMAIN run = Runner /\ pc \in [Runner -> Stages]
  BY DEF CatalogTypes, Ingesting
<1>2. UNCHANGED <<jobs, letters>>
  BY DEF Fetch, EndOfPages, CursorRepeats, Abort, SkipRecord, StopAborted, Break, LoadMarkets,
         Commit, ReconcileMissing, PagesEnd, queue
<1>3. ASSUME NEW k, run' = [run EXCEPT ![r] = k], k.job = run[r].job,
             NEW stage, pc' = [pc EXCEPT ![r] = stage], stage # "idle", pc[r] # "idle"
      PROVE  SameJobs
  BY <1>1, <1>3 DEF SameJobs, Running
<1>4. CASE Fetch(r)
  <2>1. \A s \in Runner \ {r} : pc'[s] = pc[s]
    BY <1>4, FetchStep DEF Carries, OthersStay
  <2>2. Running(r) /\ Running(r)'
    BY <1>4, FetchStep DEF Carries
  <2>3. PICK R, full : Gathered(r, R, full) /\ R.job = run[r].job /\ DOMAIN R = DOMAIN NoRun
    <3> DEFINE e == NextEvent(r)
               n == run[r].pending + Cardinality(listed[e])
               R == [run[r] EXCEPT
                      !.cursor = e, !.events = @ \cup {e}, !.returned = @ \cup listed[e],
                      !.pending = n,
                      !.batch = [m \in DOMAIN @ \cup listed[e] |->
                                   IF m \in listed[e] THEN content[m] ELSE @[m]]]
    <3>1. Gathered(r, R, n >= BatchSize)
      BY <1>4 DEF Fetch
    <3>2. R.job = run[r].job /\ DOMAIN R = DOMAIN NoRun
      BY <1>1 DEF NoRun
    <3> HIDE DEF R, n
    <3> QED  BY <3>1, <3>2
  <2>4. run'[r].job = run[r].job /\ \A s \in Runner \ {r} : run'[s] = run[s]
    BY <1>1, <2>3 DEF Gathered, NoRun
  <2> QED  BY <1>2, <2>1, <2>2, <2>4 DEF SameJobs, Running
<1>5. CASE PagesEnd(r)
  <2>1. \A s \in Runner \ {r} : pc'[s] = pc[s]
    BY <1>5, PagesEndStep DEF Carries, OthersStay
  <2>2. Running(r) /\ Running(r)'
    BY <1>5, PagesEndStep DEF Carries
  <2>3. run'[r].job = run[r].job /\ \A s \in Runner \ {r} : run'[s] = run[s]
    BY <1>1, <1>5 DEF PagesEnd, Gathered, NoRun
  <2> QED  BY <1>2, <2>1, <2>2, <2>3 DEF SameJobs, Running
<1>6. CASE Abort(r) \/ SkipRecord(r) \/ StopAborted(r) \/ Break(r) \/ LoadMarkets(r)
  <2>1. \A s \in Runner \ {r} : pc'[s] = pc[s]
    BY <1>6, AbortStep, StopStep, LoadStep DEF Carries, OthersStay
  <2>2. Running(r) /\ Running(r)'
    BY <1>6, AbortStep, StopStep, LoadStep DEF Carries
  <2>3. run'[r].job = run[r].job /\ \A s \in Runner \ {r} : run'[s] = run[s]
    BY <1>1, <1>6 DEF Abort, SkipRecord, StopAborted, Break, LoadMarkets, NoRun
  <2> QED  BY <1>2, <2>1, <2>2, <2>3 DEF SameJobs, Running
<1>7. CASE Commit(r)
  <2>1. pc[r] = "writing"
        /\ pc' = [pc EXCEPT ![r] = IF run[r].ended THEN "sweeping" ELSE "crawling"]
    BY <1>7 DEF Commit
  <2>2. run'[r].job = run[r].job /\ \A s \in Runner \ {r} : run'[s] = run[s]
    BY <1>1, <1>7 DEF Commit, NoRun
  <2> QED  BY <1>1, <1>2, <2>1, <2>2 DEF SameJobs, Running
<1>8. CASE ReconcileMissing(r)
  BY <1>1, <1>2, <1>8 DEF ReconcileMissing, SameJobs, Running
<1> QED  BY <1>2, <1>4, <1>5, <1>6, <1>7, <1>8 DEF EndOfPages, CursorRepeats

LEMMA EntryWith ==
  ASSUME NEW entry \in QueueEntry
  PROVE  /\ \A state \in JobState : [entry EXCEPT !.state = state] \in QueueEntry
         /\ \A n \in Int : [entry EXCEPT !.attempts = n] \in QueueEntry
         /\ \A n \in Nat : [entry EXCEPT !.stalls = n] \in QueueEntry
BY DEF QueueEntry

\* A job's entry becomes another, and its letter with it.
LEMMA EntryBecomes ==
  ASSUME Entries, NEW j \in Job, NEW entry \in QueueEntry, jobs' = [jobs EXCEPT ![j] = entry],
         NEW letter \in Letter, letters' = [letters EXCEPT ![j] = letter],
         letter # "none" => entry.state = "failed",
         entry.state = "failed" => letter # "none" \/ entry.stalls > 1
  PROVE  Entries' /\ jobs'[j] = entry /\ \A i \in Job \ {j} : jobs'[i] = jobs[i]
<1>1. jobs' \in [Job -> QueueEntry] /\ jobs'[j] = entry /\ \A i \in Job \ {j} : jobs'[i] = jobs[i]
  BY DEF Entries
<1>2. /\ letters' \in [Job -> Letter] /\ letters'[j] = letter
      /\ \A i \in Job \ {j} : letters'[i] = letters[i]
  BY DEF Entries
<1>3. ASSUME NEW i \in Job
      PROVE  /\ letters'[i] # "none" => jobs'[i].state = "failed"
             /\ jobs'[i].state = "failed" => letters'[i] # "none" \/ jobs'[i].stalls > 1
  BY <1>1, <1>2 DEF Entries, ExhaustedIsKept
<1> QED  BY <1>1, <1>2, <1>3 DEF Entries, ExhaustedIsKept

\* One that has not failed has no letter.
LEMMA NoLetterYet ==
  ASSUME Entries, NEW j \in Job, jobs[j].state # "failed"
  PROVE  letters[j] = "none" /\ letters = [letters EXCEPT ![j] = "none"]
BY DEF Entries, ExhaustedIsKept

LEMMA QueueInvNext ==
  ASSUME Ordered, QueueInv, [Next]_vars
  PROVE  QueueInv'
<1> USE DEF QueueInv
<1>0. CatalogTypes' /\ BeforeKept'
  BY CatalogSteps
<1>1. ASSUME NEW j \in Job
      PROVE  jobs[j] \in [state : JobState, attempts : Int, stalls : Nat] /\ jobs[j] \in QueueEntry
  BY DEF Entries, QueueEntry
<1>2. CASE UNCHANGED <<jobs, letters>> /\ SameJobs
  <2>1. Entries'
    BY <1>2 DEF Entries, ExhaustedIsKept
  <2>2. Work'
    BY <1>2, WorkStays
  <2> QED  BY <1>0, <2>1, <2>2
<1>3. ASSUME NEW j \in Job, Enqueue(j)
      PROVE  QueueInv'
  <2> DEFINE entry == [jobs[j] EXCEPT !.state = "waiting"]
  <2>1. entry \in QueueEntry /\ entry.state = "waiting"
    BY <1>1 DEF QueueEntry, JobState
  <2>2. jobs' = [jobs EXCEPT ![j] = entry] /\ letters' = letters /\ jobs[j].state = "none"
    BY <1>3 DEF Enqueue
  <2>3. letters' = [letters EXCEPT ![j] = "none"]
    BY <2>2, NoLetterYet
  <2> HIDE DEF entry
  <2>4. Entries' /\ \A i \in Job \ {j} : jobs'[i] = jobs[i]
    BY <2>1, <2>2, <2>3, EntryBecomes DEF Letter
  <2>5. SameJobs
    BY <1>3 DEF Enqueue, SameJobs, Running
  <2>6. Work'
    BY <2>2, <2>4, <2>5, WorkStays
  <2> QED  BY <1>0, <2>4, <2>6
<1>4. ASSUME NEW j \in Job, NEW state \in {"active", "skipped"}, jobs[j].state = "waiting",
             jobs' = Taken(j, state), letters' = letters
      PROVE  Entries' /\ jobs'[j].state = state /\ \A i \in Job \ {j} : jobs'[i] = jobs[i]
  <2> DEFINE entry == [jobs[j] EXCEPT !.state = state, !.attempts = @ + 1]
  <2>1. entry \in QueueEntry
    <3> DEFINE begun == [jobs[j] EXCEPT !.state = state]
    <3>1. begun \in QueueEntry /\ jobs[j].attempts + 1 \in Int
      BY <1>1 DEF QueueEntry, JobState
    <3>2. entry = [begun EXCEPT !.attempts = jobs[j].attempts + 1]
      OBVIOUS
    <3> HIDE DEF begun, entry
    <3> QED  BY <3>1, <3>2, EntryWith
  <2>2. jobs' = [jobs EXCEPT ![j] = entry] /\ entry.state = state
    BY <1>1, <1>4 DEF Taken
  <2>3. letters' = [letters EXCEPT ![j] = "none"]
    BY <1>4, NoLetterYet
  <2> HIDE DEF entry
  <2> QED  BY <1>4, <2>1, <2>2, <2>3, EntryBecomes DEF Letter
<1>5. ASSUME NEW j \in Job, Stalled(j)
      PROVE  QueueInv'
  <2> DEFINE entry == [jobs[j] EXCEPT !.state = IF jobs[j].stalls = 0 THEN "waiting" ELSE "failed",
                                      !.attempts = @ - 1, !.stalls = @ + 1]
             state == IF jobs[j].stalls = 0 THEN "waiting" ELSE "failed"
             again == [jobs[j] EXCEPT !.state = state]
             less  == [again EXCEPT !.attempts = jobs[j].attempts - 1]
  <2>1. entry \in QueueEntry /\ (entry.state = "failed" => entry.stalls > 1)
    <3>1. again \in QueueEntry /\ jobs[j].attempts - 1 \in Int /\ jobs[j].stalls + 1 \in Nat
      BY <1>1 DEF QueueEntry, JobState
    <3>2. less \in QueueEntry /\ less.state = state
      BY <1>1, <3>1, EntryWith
    <3>3. entry = [less EXCEPT !.stalls = jobs[j].stalls + 1]
      OBVIOUS
    <3>4. state = "failed" => jobs[j].stalls + 1 > 1
      BY <1>1
    <3> HIDE DEF again, less, entry, state
    <3>5. entry \in QueueEntry /\ entry.state = state /\ entry.stalls = jobs[j].stalls + 1
      BY <3>1, <3>2, <3>3, EntryWith DEF QueueEntry
    <3> QED  BY <3>4, <3>5
  <2>2. jobs' = [jobs EXCEPT ![j] = entry] /\ letters' = letters /\ jobs[j].state = "stalled"
    BY <1>5 DEF Stalled
  <2>3. letters' = [letters EXCEPT ![j] = "none"]
    BY <2>2, NoLetterYet
  <2> HIDE DEF entry
  <2>4. Entries' /\ \A i \in Job \ {j} : jobs'[i] = jobs[i]
    BY <2>1, <2>2, <2>3, EntryBecomes DEF Letter
  <2>5. SameJobs
    BY <1>5 DEF Stalled, SameJobs, Running
  <2>6. Work'
    BY <2>2, <2>4, <2>5, WorkStays
  <2> QED  BY <1>0, <2>4, <2>6
<1>6. ASSUME NEW r \in Runner, r \notin Inline, Ends(r), NEW state \in JobState,
             jobs' = [jobs EXCEPT ![run[r].job].state = state], NEW letter \in Letter,
             letters' = [letters EXCEPT ![run[r].job] = letter],
             state = "failed" <=> letter # "none"
      PROVE  QueueInv'
  <2> DEFINE j == run[r].job
             entry == [jobs[j] EXCEPT !.state = state]
  <2>1. j \in Job
    BY <1>6 DEF Ends, Work
  <2>2. entry \in QueueEntry /\ entry.state = state
    BY <1>1, <2>1 DEF QueueEntry, JobState
  <2>3. jobs' = [jobs EXCEPT ![j] = entry] /\ letters' = [letters EXCEPT ![j] = letter]
    BY <1>6
  <2> HIDE DEF entry, j
  <2>4. Entries' /\ \A i \in Job \ {j} : jobs'[i] = jobs[i]
    <3>1. letter # "none" => entry.state = "failed"
      BY <1>6, <2>2, Zenon
    <3>2. entry.state = "failed" => letter # "none" \/ entry.stalls > 1
      BY <1>6, <2>2, Zenon
    <3> QED  BY <2>1, <2>2, <2>3, <3>1, <3>2, EntryBecomes
  <2>5. Work'
    BY <1>6, <2>4, WorkEnds DEF j
  <2> QED  BY <1>0, <2>4, <2>5
<1>7. ASSUME NEW r \in Runner, r \in Inline, Ends(r), UNCHANGED <<jobs, letters>>
      PROVE  QueueInv'
  <2>1. Entries'
    BY <1>7 DEF Entries, ExhaustedIsKept
  <2>2. Work'
    BY <1>7, WorkEnds
  <2> QED  BY <1>0, <2>1, <2>2
<1>8. ASSUME NEW r \in Runner, Succeed(r) \/ Die(r) \/ Fail(r)
      PROVE  QueueInv'
  <2>1. Ends(r)
    BY <1>8, EndStep
  <2>2. CASE r \in Inline
    BY <1>7, <1>8, <2>1, <2>2 DEF Succeed, Die, Fail
  <2>3. ASSUME r \notin Inline
        PROVE  /\ run[r].job \in Job /\ letters[run[r].job] = "none"
               /\ letters = [letters EXCEPT ![run[r].job] = "none"]
    <3>1. run[r].job \in Job /\ jobs[run[r].job].state # "failed"
      BY <2>1, <2>3 DEF Work, Ends
    <3> QED  BY <3>1, NoLetterYet
  <2>4. CASE r \notin Inline /\ Succeed(r)
    <3>1. jobs' = [jobs EXCEPT ![run[r].job].state = "completed"] /\ letters' = letters
      BY <2>4 DEF Succeed
    <3>2. "completed" \in JobState /\ "none" \in Letter
      BY DEF JobState, Letter
    <3> QED  BY <1>6, <2>1, <2>3, <2>4, <3>1, <3>2
  <2>5. CASE r \notin Inline /\ Die(r)
    <3>1. jobs' = [jobs EXCEPT ![run[r].job].state = "stalled"] /\ letters' = letters
      BY <2>5 DEF Die
    <3>2. "stalled" \in JobState /\ "none" \in Letter
      BY DEF JobState, Letter
    <3> QED  BY <1>6, <2>1, <2>3, <2>5, <3>1, <3>2
  <2>6. CASE r \notin Inline /\ Fail(r)
    <3> DEFINE j == run[r].job
    <3>1. /\ jobs' = [jobs EXCEPT ![j].state = IF jobs[j].attempts >= Attempts
                                                 THEN "failed" ELSE "waiting"]
          /\ letters' = IF Exhausted(j) THEN [letters EXCEPT ![j] = "adding"] ELSE letters
      BY <2>6 DEF Fail
    <3>2. {"failed", "waiting"} \subseteq JobState /\ {"none", "adding"} \subseteq Letter
      BY DEF JobState, Letter
    <3>3. CASE Exhausted(j)
      <4>1. /\ jobs' = [jobs EXCEPT ![j].state = "failed"]
            /\ letters' = [letters EXCEPT ![j] = "adding"]
        BY <3>1, <3>3 DEF Exhausted
      <4> QED  BY <1>6, <2>1, <2>6, <3>2, <4>1
    <3>4. CASE ~Exhausted(j)
      <4>1. /\ jobs' = [jobs EXCEPT ![j].state = "waiting"]
            /\ letters' = [letters EXCEPT ![j] = "none"]
        BY <2>3, <2>6, <3>1, <3>4 DEF Exhausted
      <4> QED  BY <1>6, <2>1, <2>6, <3>2, <4>1
    <3> QED  BY <3>3, <3>4
  <2> QED  BY <1>8, <2>2, <2>4, <2>5, <2>6
<1>9. ASSUME NEW j \in Job, KeepLetter(j) \/ LoseLetter(j)
      PROVE  QueueInv'
  <2>1. PICK letter \in {"kept", "lost"} : Added(j, letter)
    BY <1>9 DEF KeepLetter, LoseLetter
  <2>2. letters[j] = "adding" /\ letters' = [letters EXCEPT ![j] = letter] /\ jobs' = jobs
    BY <2>1 DEF Added
  <2>3. Entries'
    BY <2>2 DEF Entries, ExhaustedIsKept, Letter
  <2>4. SameJobs
    BY <2>1 DEF Added, SameJobs, Running
  <2>5. Work'
    BY <2>2, <2>4, WorkStays
  <2> QED  BY <1>0, <2>3, <2>5
<1>10. ASSUME NEW r \in Runner,
              \/ Fetch(r) \/ EndOfPages(r) \/ StopAborted(r) \/ LoadMarkets(r) \/ Commit(r)
              \/ ReconcileMissing(r) \/ Abort(r) \/ SkipRecord(r) \/ CursorRepeats(r) \/ Break(r)
       PROVE  QueueInv'
  BY <1>2, <1>10, CrawlsKeepJobs
<1>11. ASSUME UNCHANGED vars \/ Tick \/ Deploy \/ LockExpires \/ \E m \in Market : Edit(m)
       PROVE  QueueInv'
  <2>1. UNCHANGED <<jobs, letters, pc, run>>
    BY <1>11 DEF vars, Tick, Deploy, LockExpires, Edit, queue
  <2> QED  BY <1>2, <2>1 DEF SameJobs, Running
<1>12. ASSUME NEW r \in Runner, RunInline(r)
       PROVE  QueueInv'
  <2>1. /\ r \in Inline /\ Begin(r, Nobody) /\ UNCHANGED <<jobs, letters>>
        /\ UNCHANGED <<clock, listed, content, row, revisions, first>>
    BY <1>12 DEF RunInline, queue, venue, table
  <2>2. Begins(r)
    BY <2>1, BeginStep
  <2>3. \A s \in Runner \ Inline : (Running(s)' <=> Running(s)) /\ run'[s].job = run[s].job
    <3>1. "job" \in DOMAIN NoRun \ {"alone"}
      BY DEF NoRun
    <3> QED  BY <2>1, <2>2, <3>1 DEF Begins, Running
  <2>4. Entries' /\ Work'
    BY <2>1, <2>3 DEF Entries, ExhaustedIsKept, Work
  <2> QED  BY <1>0, <2>4
<1>13. ASSUME NEW j \in Job, NEW r \in Runner, RunJob(r, j)
       PROVE  QueueInv'
  <2>1. /\ r \in Runner \ Inline /\ Begin(r, j) /\ jobs' = Taken(j, "active") /\ letters' = letters
        /\ jobs[j].state = "waiting" /\ UNCHANGED <<clock, listed, content, row, revisions, first>>
    BY <1>13 DEF RunJob, venue, table
  <2>2. Begins(r)
    BY <2>1, BeginStep
  <2>3. Entries' /\ jobs'[j].state = "active" /\ \A i \in Job \ {j} : jobs'[i] = jobs[i]
    BY <1>4, <2>1
  <2>4. Work'
    BY <2>1, <2>2, <2>3, WorkBegins
  <2> QED  BY <1>0, <2>3, <2>4
<1>14. ASSUME NEW j \in Job, NEW r \in Runner, SkipJob(r, j)
       PROVE  QueueInv'
  <2>1. /\ jobs' = Taken(j, "skipped") /\ letters' = letters /\ jobs[j].state = "waiting"
        /\ UNCHANGED <<pc, run>>
    BY <1>14 DEF SkipJob
  <2>2. Entries' /\ \A i \in Job \ {j} : jobs'[i] = jobs[i]
    BY <1>4, <2>1
  <2>3. SameJobs
    BY <2>1 DEF SameJobs, Running
  <2>4. Work'
    BY <2>1, <2>2, <2>3, WorkStays
  <2> QED  BY <1>0, <2>2, <2>4
<1> QED  BY <1>3, <1>5, <1>8, <1>9, <1>10, <1>11, <1>12, <1>13, <1>14, SMTT(30) DEF Next, Ingest

\* catalog-queue.ts, worker.on('failed'): a letter is only of a job that never runs again,
\* and a job that failed for good has one, kept, on its way or lost there, unless it
\* stalled twice.
THEOREM ExhaustedAreKept ==
  ASSUME Ordered
  PROVE  Spec => []ExhaustedIsKept
<1>1. Init => QueueInv
  <2> SUFFICES ASSUME Init
               PROVE  Entries /\ Work
    BY CatalogInvInit DEF QueueInv, CatalogInv
  <2>1. ASSUME NEW j \in Job
        PROVE  jobs[j].state = "none" /\ jobs[j] \in QueueEntry
    BY DEF Init, QueueEntry, JobState
  <2>2. Entries
    BY <2>1 DEF Init, Entries, ExhaustedIsKept, Letter
  <2>3. Work
    BY DEF Init, Work, Running
  <2> QED  BY <2>2, <2>3
<1>2. QueueInv => ExhaustedIsKept
  BY DEF QueueInv, Entries
<1> QED  BY <1>1, <1>2, QueueInvNext, PTL DEF Spec

=============================================================================
