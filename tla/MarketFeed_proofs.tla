-------------------------- MODULE MarketFeed_proofs --------------------------
(***************************************************************************)
(* For any tokens, levels, shards and fetches: the feed keeps its types, a  *)
(* book to which nothing on the list of causes happened misses no update    *)
(* delivered to it, and only a snapshot on which nothing was replayed goes  *)
(* unannounced.                                                             *)
(*                                                                         *)
(* The argument follows the versions the venue makes.  History says what a  *)
(* version is, Wire where the versions still to be delivered are, Sockets   *)
(* what a message needs to arrive.  Seeds says, of a token being seeded by  *)
(* one sync and not otherwise disturbed, that every version delivered since *)
(* the snapshot was asked for is buffered or was handled; Books, of a book  *)
(* that was installed, that it shows every version delivered; Unheard, when *)
(* its listeners were not told.                                             *)
(***************************************************************************)
EXTENDS MarketFeed, FiniteSetTheorems, TLAPS

\* A set of versions that is not empty has a newest.
LEMMA Newest ==
  ASSUME NEW W \in SUBSET Version, W # {}
  PROVE  \E v \in W : \A w \in W : w <= v
<1> DEFINE Above(v) == {w \in W : w > v}
           T == {Above(v) : v \in W}
           R == StrictSubsetOrdering(W)
<1>1. W \subseteq Nat
  BY BoundAssumption DEF Version
<1>2. T \subseteq FiniteSubsetsOf(W) /\ T # {}
  <2>1. IsFiniteSet(Version)
    BY BoundAssumption, FS_Interval DEF Version
  <2>2. IsFiniteSet(W)
    BY <2>1, FS_Subset
  <2>3. FiniteSubsetsOf(W) = SUBSET W
    BY <2>2, FS_FiniteSubsetsOfFinite
  <2>4. T \subseteq SUBSET W
    OBVIOUS
  <2>5. T # {}
    <3> PICK v \in W : TRUE
      OBVIOUS
    <3>1. Above(v) \in T
      OBVIOUS
    <3> QED BY <3>1
  <2> QED
    <3> HIDE DEF T
    <3> QED BY <2>3, <2>4, <2>5
<1>3. PICK A \in T : \A B \in T : <<B, A>> \notin R
  <2> HIDE DEF T, R
  <2>1. IsWellFoundedOn(R, FiniteSubsetsOf(W))
    BY FS_StrictSubsetOrderingWellFounded DEF R
  <2> QED BY <1>2, <2>1, WFMin
<1>4. PICK v \in W : A = Above(v)
  BY <1>3
<1>5. ASSUME NEW w \in W, w > v PROVE FALSE
  <2>1. ASSUME NEW u \in W, u > w PROVE u > v
    <3> u \in Nat /\ w \in Nat /\ v \in Nat
      BY <1>1
    <3> QED BY <1>5, <2>1
  <2>2. ~(w > w)
    BY <1>1
  <2>3. Above(w) \in T
    OBVIOUS
  <2>4. <<Above(w), Above(v)>> \in R
    BY <1>5, <2>1, <2>2 DEF StrictSubsetOrdering
  <2> QED BY <1>3, <1>4, <2>3, <2>4
<1> QED BY <1>1, <1>5

LEMMA ReplayType ==
  ASSUME NEW t, NEW b \in Book, NEW S \in SUBSET Version
  PROVE  Replay(t, b, S) \in Book
<1> SUFFICES ASSUME NEW l \in Level
             PROVE  LET W == {v \in S : hist[t][v][l] = v}
                    IN  (IF W = {} THEN b[l] ELSE CHOOSE v \in W : \A w \in W : w <= v) \in Version
  BY DEF Replay, Book
<1> DEFINE W == {v \in S : hist[t][v][l] = v}
<1>1. b[l] \in Version
  BY DEF Book
<1>2. ASSUME W # {} PROVE (CHOOSE v \in W : \A w \in W : w <= v) \in Version
  <2>1. \E v \in W : \A w \in W : w <= v
    BY <1>2, Newest
  <2>2. (CHOOSE v \in W : \A w \in W : w <= v) \in W
    BY <2>1
  <2> QED BY <2>2
<1> QED BY <1>1, <1>2

LEMMA HashesType ==
  ASSUME TypeOK, NEW t \in Token, NEW s \in Version
  PROVE  InstalledHashes(t, s) \in [1..HashHistory -> Version \cup {Nobody}]
<1>1. Replayed(t, s) \subseteq Version
  BY BoundAssumption DEF Replayed, TypeOK, Version
<1> QED BY <1>1 DEF InstalledHashes

LEMMA NotedType ==
  ASSUME NEW q \in [1..HashHistory -> Version \cup {Nobody}], NEW v \in Version
  PROVE  Noted(q, v) \in [1..HashHistory -> Version \cup {Nobody}]
BY BoundAssumption DEF Noted

\* What install writes, from snapshots the venue has made.
LEMMA InstallType ==
  ASSUME TypeOK, NEW f \in Fetch, NEW S \in SUBSET Token,
         \A t \in S : fetch[f].got[t] \in Version, Install(f, S)
  PROVE  /\ book' \in [Token -> Book] /\ seeded' \in [Token -> BOOLEAN]
         /\ hashes' \in [Token -> [1..HashHistory -> Version \cup {Nobody}]]
         /\ unheard' \in SUBSET Token
<1>1. ASSUME NEW t \in S PROVE Installed(t, fetch[f].got[t]) \in Book
  <2>1. Replayed(t, fetch[f].got[t]) \in SUBSET Version
    BY BoundAssumption DEF Replayed, TypeOK, Version
  <2>2. hist[t][fetch[f].got[t]] \in Book
    BY DEF TypeOK
  <2> QED BY <2>1, <2>2, ReplayType DEF Installed
<1>2. ASSUME NEW t \in S
      PROVE  InstalledHashes(t, fetch[f].got[t]) \in [1..HashHistory -> Version \cup {Nobody}]
  BY HashesType
<1>3. book' \in [Token -> Book]
  BY <1>1 DEF Install, TypeOK
<1>4. hashes' \in [Token -> [1..HashHistory -> Version \cup {Nobody}]]
  BY <1>2 DEF Install, TypeOK
<1>5. seeded' \in [Token -> BOOLEAN] /\ unheard' \in SUBSET Token
  BY DEF Install, TypeOK
<1> QED BY <1>3, <1>4, <1>5

LEMMA TaintedType ==
  ASSUME TypeOK, NEW D, NEW cause \in Cause
  PROVE  Tainted(D, cause) \in [Fetch -> FetchRecord]
<1> SUFFICES ASSUME NEW f \in Fetch
             PROVE  [fetch[f] EXCEPT !.taint =
                       [t \in Token |-> IF t \in D[f] THEN fetch[f].taint[t] \cup {cause}
                                                      ELSE fetch[f].taint[t]]] \in FetchRecord
  BY DEF Tainted
<1>1. fetch[f] \in FetchRecord
  BY DEF TypeOK, FetchRecord
<1> DEFINE d == [t \in Token |-> IF t \in D[f] THEN fetch[f].taint[t] \cup {cause}
                                                ELSE fetch[f].taint[t]]
<1>2. d \in [Token -> SUBSET Cause]
  BY <1>1 DEF FetchRecord
<1> HIDE DEF d
<1>3. [fetch[f] EXCEPT !.taint = d] \in FetchRecord
  BY <1>1, <1>2 DEF FetchRecord
<1> QED BY <1>3 DEF d

LEMMA SeedingType ==
  ASSUME TypeOK, NEW f \in Fetch, NEW kind \in {"start", "reseed"}, NEW W \in SUBSET Token
  PROVE  Seeding(f, kind, W) \in [Fetch -> FetchRecord]
<1> DEFINE new == [kind |-> kind, wanted |-> W, got |-> [t \in Token |-> Unread],
                   taint |-> [t \in Token |->
                     (IF t \in W /\ \E g \in Fetch : InFlight(g, t) THEN {"overlap"} ELSE {})
                     \cup (IF t \in W /\ pend[t] # {} THEN {"push"} ELSE {})]]
<1>1. new \in FetchRecord
  BY DEF FetchRecord, Cause, Unread
<1>2. Tainted(SeedsOf(W), "overlap") \in [Fetch -> FetchRecord]
  BY TaintedType DEF Cause
<1>3. Seeding(f, kind, W) = [Tainted(SeedsOf(W), "overlap") EXCEPT ![f] = new]
  BY DEF Seeding
<1> HIDE DEF new
<1> QED BY <1>1, <1>2, <1>3

LEMMA TypeInit == Init => TypeOK
<1> SUFFICES ASSUME Init PROVE TypeOK
  OBVIOUS
<1> USE BoundAssumption DEF Init
<1>1. EmptyBook \in Book /\ NoHashes \in [1..HashHistory -> Version \cup {Nobody}]
  BY DEF EmptyBook, Book, Version, NoHashes, Nobody
<1>2. Idle \in FetchRecord
  BY DEF Idle, FetchRecord, Unread
<1>3. /\ venue \in [Token -> Version] /\ hist \in [Token -> [Version -> Book]]
      /\ stamp \in [Token -> [Version -> Nat]] /\ next \in [Token -> 1..(MaxVersion + 1)]
  BY <1>1 DEF Version
<1> QED BY <1>1, <1>2, <1>3 DEF TypeOK

\* No step of the venue writes a version beyond the bound, or delivers one.
LEMMA TypeVenue ==
  ASSUME TypeOK, Venue
  PROVE  TypeOK'
<1> USE BoundAssumption DEF venueVars, wireVars, sockVars, bookVars, seedVars, recVars
<1>1. ASSUME NEW t \in Token, NEW l \in Level, Change(t, l) PROVE TypeOK'
  <2> DEFINE v == venue[t] + 1
  <2>1. v \in Version /\ v - 1 \in Version
    BY <1>1 DEF Change, TypeOK, Version
  <2>2. venue' \in [Token -> Version]
    BY <1>1, <2>1 DEF Change, TypeOK
  <2>3. [hist[t][v - 1] EXCEPT ![l] = v] \in Book
    BY <2>1 DEF TypeOK, Book
  <2>4. hist' \in [Token -> [Version -> Book]]
    <3> DEFINE new == [hist[t][v - 1] EXCEPT ![l] = v]
    <3>1. hist' = [hist EXCEPT ![t][v] = new]
      BY <1>1 DEF Change
    <3> HIDE DEF new
    <3> QED BY <2>1, <2>3, <3>1 DEF TypeOK, new
  <2>5. stamp' \in [Token -> [Version -> Nat]]
    <3>1. PICK d \in StampSteps : stamp' = [stamp EXCEPT ![t][v] = stamp[t][v - 1] + d]
      BY <1>1 DEF Change
    <3>2. stamp[t][v - 1] + d \in Nat
      BY <2>1 DEF TypeOK
    <3> QED BY <2>1, <3>1, <3>2 DEF TypeOK
  <2> QED BY <1>1, <2>2, <2>4, <2>5 DEF Change, TypeOK
<1>2. ASSUME NEW sh \in Shard, Subscribed(sh) PROVE TypeOK'
  <2>1. live' \in [Shard -> BOOLEAN] /\ next' \in [Token -> 1..(MaxVersion + 1)]
    BY <1>2 DEF Subscribed, TypeOK, Version
  <2>2. fetch' \in [Fetch -> FetchRecord]
    BY <1>2, TaintedType DEF Subscribed, Cause
  <2>3. suspect' \in [Token -> SUBSET Cause]
    BY <1>2 DEF Subscribed, TypeOK, Cause
  <2> QED BY <1>2, <2>1, <2>2, <2>3 DEF Subscribed, TypeOK
<1>3. ASSUME NEW t \in Token, Lose(t) PROVE TypeOK'
  <2>1. next' \in [Token -> 1..(MaxVersion + 1)]
    BY <1>3 DEF Lose, TypeOK, Version
  <2>2. fetch' \in [Fetch -> FetchRecord]
    BY <1>3, TaintedType DEF Lose, Cause
  <2>3. suspect' \in [Token -> SUBSET Cause]
    BY <1>3 DEF Lose, TypeOK, Cause
  <2> QED BY <1>3, <2>1, <2>2, <2>3 DEF Lose, TypeOK
<1> QED BY <1>1, <1>2, <1>3 DEF Venue

\* Messages and sockets.
LEMMA TypeFeed ==
  ASSUME TypeOK, Feed
  PROVE  TypeOK'
<1> USE BoundAssumption DEF venueVars, wireVars, sockVars, bookVars, seedVars, recVars
<1>1. ASSUME NEW t \in Token, OnPriceChange(t) PROVE TypeOK'
  <2>1. next[t] \in 1..MaxVersion /\ next[t] \in Version
    BY <1>1 DEF OnPriceChange, TypeOK, Version
  <2>2. next' \in [Token -> 1..(MaxVersion + 1)]
    BY <1>1, <2>1 DEF OnPriceChange, TypeOK
  <2>3. CASE ApplyChange(t)
    <3>1. book' \in [Token -> Book]
      <4> DEFINE b == [l \in Level |-> IF hist[t][next[t]][l] = next[t] THEN next[t] ELSE book[t][l]]
      <4>1. b \in Book
        BY <2>1 DEF TypeOK, Book
      <4>2. book' = [book EXCEPT ![t] = b]
        BY <2>3 DEF ApplyChange
      <4> HIDE DEF b
      <4> QED BY <4>1, <4>2 DEF TypeOK
    <3>2. hashes' \in [Token -> [1..HashHistory -> Version \cup {Nobody}]]
      <4>1. Noted(hashes[t], next[t]) \in [1..HashHistory -> Version \cup {Nobody}]
        BY <2>1, NotedType DEF TypeOK
      <4>2. hashes' = [hashes EXCEPT ![t] = Noted(hashes[t], next[t])]
        BY <2>3 DEF ApplyChange
      <4> QED BY <4>1, <4>2 DEF TypeOK
    <3>3. unheard' \in SUBSET Token /\ hints' \in SUBSET Token
      BY <2>3 DEF ApplyChange, Hinted, TypeOK
    <3> QED BY <1>1, <2>2, <2>3, <3>1, <3>2, <3>3 DEF OnPriceChange, ApplyChange, TypeOK
  <2>4. CASE BufferChange(t)
    <3>1. pend' \in [Token -> SUBSET (1..MaxVersion)]
      BY <2>1, <2>4 DEF BufferChange, TypeOK
    <3> QED BY <1>1, <2>2, <2>4, <3>1 DEF OnPriceChange, BufferChange, TypeOK
  <2>5. CASE DropChange(t)
    BY <1>1, <2>2, <2>5 DEF OnPriceChange, DropChange, TypeOK
  <2> QED BY <1>1, <2>3, <2>4, <2>5 DEF OnPriceChange
<1>2. ASSUME NEW t \in Token, OnBook(t) PROVE TypeOK'
  <2>1. next[t] - 1 \in Version
    BY <1>2 DEF TypeOK, Version
  <2>2. book' \in [Token -> Book] /\ seeded' \in [Token -> BOOLEAN]
    BY <1>2, <2>1 DEF OnBook, TypeOK
  <2>3. hashes' \in [Token -> [1..HashHistory -> Version \cup {Nobody}]]
    <3>1. Noted(hashes[t], next[t] - 1) \in [1..HashHistory -> Version \cup {Nobody}]
      BY <2>1, NotedType DEF TypeOK
    <3>2. hashes' = [hashes EXCEPT ![t] = Noted(hashes[t], next[t] - 1)]
      BY <1>2 DEF OnBook
    <3> QED BY <3>1, <3>2 DEF TypeOK
  <2>4. unheard' \in SUBSET Token /\ suspect' \in [Token -> SUBSET Cause]
    BY <1>2 DEF OnBook, TypeOK
  <2>5. fetch' \in [Fetch -> FetchRecord]
    BY <1>2, TaintedType DEF OnBook, Cause
  <2> QED BY <1>2, <2>2, <2>3, <2>4, <2>5 DEF OnBook, TypeOK
<1>3. ASSUME NEW sh \in Shard, Connect(sh) PROVE TypeOK'
  BY <1>3 DEF Connect, TypeOK
<1>4. ASSUME NEW sh \in Shard, OpenFirst(sh) PROVE TypeOK'
  BY <1>4 DEF OpenFirst, TypeOK
<1>5. ASSUME NEW sh \in Shard, OpenAgain(sh) PROVE TypeOK'
  <2>1. Assets(sh) \in SUBSET Token
    BY DEF Assets, TypeOK
  <2>2. fetch' \in [Fetch -> FetchRecord]
    BY <1>5, <2>1, SeedingType DEF OpenAgain
  <2>3. /\ socket' \in [Shard -> {"none", "opening", "open"}] /\ retried' \in [Shard -> BOOLEAN]
        /\ seeded' \in [Token -> BOOLEAN] /\ seeding' \in SUBSET Token
    BY <1>5, <2>1 DEF OpenAgain, TypeOK
  <2> QED BY <1>5, <2>2, <2>3 DEF OpenAgain, TypeOK
<1>6. ASSUME NEW sh \in Shard, SocketLost(sh) PROVE TypeOK'
  BY <1>6 DEF SocketLost, TypeOK
<1>7. ASSUME NEW W \in SUBSET Token, Start(W) PROVE TypeOK'
  <2>1. EmptyBook \in Book /\ NoHashes \in [1..HashHistory -> Version \cup {Nobody}]
    BY DEF EmptyBook, Book, Version, NoHashes, Nobody
  <2>2. book' \in [Token -> Book]
    BY <1>7, <2>1 DEF Start, TypeOK
  <2>3. hashes' \in [Token -> [1..HashHistory -> Version \cup {Nobody}]]
    BY <1>7, <2>1 DEF Start, TypeOK
  <2>4. fetch' \in [Fetch -> FetchRecord]
    BY <1>7, SeedingType DEF Start
  <2>5. stopped' \in BOOLEAN /\ held' \in SUBSET Token /\ seeded' \in [Token -> BOOLEAN]
    BY <1>7 DEF Start
  <2>6. socket' \in [Shard -> {"none", "opening", "open"}]
    BY <1>7 DEF Start
  <2>7. retried' \in [Shard -> BOOLEAN] /\ live' \in [Shard -> BOOLEAN]
    BY <1>7 DEF Start
  <2>8. seeding' \in SUBSET Token /\ starts' \in Nat
    BY <1>7 DEF Start, TypeOK
  <2> QED BY <1>7, <2>2, <2>3, <2>4, <2>5, <2>6, <2>7, <2>8 DEF Start, TypeOK
<1>8. ASSUME Stop PROVE TypeOK'
  BY <1>8 DEF Stop, TypeOK
<1> QED BY <1>1, <1>2, <1>3, <1>4, <1>5, <1>6, <1>7, <1>8 DEF Feed

\* What a fetch found of a book it wanted is a version of the venue's.
LEMMA FoundType ==
  ASSUME TypeOK, NEW f \in Fetch
  PROVE  /\ Found(f) \in SUBSET Token /\ Repaired(f) \in SUBSET Found(f)
         /\ \A t \in Found(f) : fetch[f].got[t] \in Version
<1>1. fetch[f] \in FetchRecord
  BY DEF TypeOK
<1>2. ASSUME NEW t \in Found(f) PROVE t \in Token /\ fetch[f].got[t] \in Version
  <2>1. t \in Token /\ fetch[f].got[t] >= 0
    BY <1>1 DEF Found, FetchRecord
  <2>2. fetch[f].got[t] \in Version \cup {-1, -2}
    BY <1>1, <2>1 DEF FetchRecord, Unread, Missing
  <2> QED BY <2>1, <2>2
<1>3. Repaired(f) \subseteq Found(f)
  BY DEF Repaired, Compared
<1> QED BY <1>2, <1>3

LEMMA IdleType == Idle \in FetchRecord
BY DEF Idle, FetchRecord, Unread

\* Seeds and reconciliation.
LEMMA TypeRest ==
  ASSUME TypeOK, Rest
  PROVE  TypeOK'
<1> USE BoundAssumption DEF venueVars, wireVars, sockVars, bookVars, seedVars, recVars
<1>1. ASSUME NEW f \in Fetch, NEW t \in Token, NEW s \in Version \cup {Missing},
             fetch' = [fetch EXCEPT ![f].got[t] = s]
      PROVE  fetch' \in [Fetch -> FetchRecord]
  <2>1. fetch[f] \in FetchRecord
    BY DEF TypeOK
  <2>2. [fetch[f] EXCEPT !.got[t] = s] \in FetchRecord
    BY <2>1 DEF FetchRecord
  <2> QED BY <1>1, <2>2 DEF TypeOK
<1>2. ASSUME NEW f \in Fetch, NEW t \in Token, ReadBook(f, t) PROVE TypeOK'
  <2>1. fetch' \in [Fetch -> FetchRecord]
    <3>1. venue[t] \in Version
      BY DEF TypeOK
    <3> QED BY <1>1, <1>2, <3>1 DEF ReadBook
  <2> QED BY <1>2, <2>1 DEF ReadBook, TypeOK
<1>3. ASSUME NEW f \in Fetch, NEW t \in Token, ReadMissing(f, t) PROVE TypeOK'
  <2>1. fetch' \in [Fetch -> FetchRecord]
    BY <1>1, <1>3 DEF ReadMissing
  <2> QED BY <1>3, <2>1 DEF ReadMissing, TypeOK
<1>4. ASSUME NEW f \in Fetch, fetch' = [fetch EXCEPT ![f] = Idle]
      PROVE  fetch' \in [Fetch -> FetchRecord]
  BY <1>4, IdleType DEF TypeOK
<1>5. ASSUME NEW f \in Fetch, FinishSeed(f) PROVE TypeOK'
  <2>1. /\ book' \in [Token -> Book] /\ seeded' \in [Token -> BOOLEAN]
        /\ hashes' \in [Token -> [1..HashHistory -> Version \cup {Nobody}]]
        /\ unheard' \in SUBSET Token
    BY <1>5, FoundType, InstallType DEF FinishSeed
  <2>2. fetch[f] \in FetchRecord
    BY DEF TypeOK
  <2>3. suspect' \in [Token -> SUBSET Cause]
    BY <1>5, <2>2 DEF FinishSeed, TypeOK, FetchRecord
  <2>4. seeding' \in SUBSET Token /\ pend' \in [Token -> SUBSET (1..MaxVersion)]
    BY <1>5 DEF FinishSeed, TypeOK
  <2> QED BY <1>4, <1>5, <2>1, <2>3, <2>4 DEF FinishSeed, TypeOK
<1>6. ASSUME NEW f \in Fetch, FailSeed(f) PROVE TypeOK'
  <2>1. seeding' \in SUBSET Token /\ pend' \in [Token -> SUBSET (1..MaxVersion)]
    BY <1>6 DEF FailSeed, TypeOK
  <2>2. fetch' \in [Fetch -> FetchRecord]
    BY <1>4, <1>6 DEF FailSeed
  <2>3. faults' \in Nat
    BY <1>6 DEF FailSeed, TypeOK
  <2> QED BY <1>6, <2>1, <2>2, <2>3 DEF FailSeed, TypeOK
<1>7. ASSUME NEW f \in Fetch, ReconcileStart(f) PROVE TypeOK'
  <2>1. PICK H \in SUBSET hints, k \in 0..Len(TokenOrder) :
          /\ hints' = hints \ H
          /\ cursor' = (cursor + k) % CursorWrap
          /\ fetch' = [fetch EXCEPT ![f] = [Idle EXCEPT !.kind = "reconcile",
                         !.wanted = {t \in Token : t \in H \cup Rotation(k)}]]
    BY <1>7 DEF ReconcileStart
  <2>2. hints' \in SUBSET Token
    BY <2>1 DEF TypeOK
  <2>3. cursor' \in Nat
    <3>1. Len(TokenOrder) \in Nat
      BY TokenAssumption
    <3> QED BY <2>1, <3>1, SMTT(30) DEF TypeOK
  <2>4. fetch' \in [Fetch -> FetchRecord]
    <3> DEFINE W == {t \in Token : t \in H \cup Rotation(k)}
    <3>1. W \in SUBSET Token
      OBVIOUS
    <3> HIDE DEF W
    <3>2. [Idle EXCEPT !.kind = "reconcile", !.wanted = W] \in FetchRecord
      BY <3>1, IdleType DEF FetchRecord
    <3>3. fetch' = [fetch EXCEPT ![f] = [Idle EXCEPT !.kind = "reconcile", !.wanted = W]]
      BY <2>1 DEF W
    <3> QED BY <3>2, <3>3 DEF TypeOK
  <2> QED BY <1>7, <2>2, <2>3, <2>4 DEF ReconcileStart, TypeOK
<1>8. ASSUME NEW f \in Fetch, FinishReconcile(f) PROVE TypeOK'
  <2>1. Repaired(f) \in SUBSET Token /\ \A t \in Repaired(f) : fetch[f].got[t] \in Version
    BY FoundType
  <2>2. /\ book' \in [Token -> Book] /\ seeded' \in [Token -> BOOLEAN]
        /\ hashes' \in [Token -> [1..HashHistory -> Version \cup {Nobody}]]
        /\ unheard' \in SUBSET Token
    BY <1>8, <2>1, InstallType DEF FinishReconcile
  <2>3. fetch[f] \in FetchRecord
    BY DEF TypeOK
  <2>4. suspect' \in [Token -> SUBSET Cause]
    BY <1>8, <2>3 DEF FinishReconcile, TypeOK, FetchRecord, Cause
  <2>5. parked' \in [Token -> Version \cup {Nobody}]
    <3>1. \A t \in Compared(f) : fetch[f].got[t] \in Version
      BY FoundType DEF Compared
    <3> QED BY <1>8, <3>1 DEF FinishReconcile, TypeOK
  <2>6. pend' \in [Token -> SUBSET (1..MaxVersion)]
    BY <1>8 DEF FinishReconcile, TypeOK
  <2> QED BY <1>4, <1>8, <2>2, <2>4, <2>5, <2>6 DEF FinishReconcile, TypeOK
<1>9. ASSUME NEW f \in Fetch, FailReconcile(f) PROVE TypeOK'
  <2>1. fetch' \in [Fetch -> FetchRecord]
    BY <1>4, <1>9 DEF FailReconcile
  <2>2. faults' \in Nat
    BY <1>9 DEF FailReconcile, TypeOK
  <2> QED BY <1>9, <2>1, <2>2 DEF FailReconcile, TypeOK
<1> QED BY <1>2, <1>3, <1>5, <1>6, <1>7, <1>8, <1>9 DEF Rest

LEMMA TypeNext ==
  ASSUME TypeOK, [Next]_vars
  PROVE  TypeOK'
<1>1. CASE UNCHANGED vars
  BY <1>1 DEF TypeOK, vars, venueVars, wireVars, sockVars, bookVars, seedVars, recVars
<1> QED BY <1>1, TypeVenue, TypeFeed, TypeRest DEF Next

\* Every variable has its type in every reachable state: the replay of the
\* buffered changes always finds the last writer of a level, and no snapshot,
\* pushed book or repair installs a version the venue has not made.
THEOREM TypeCorrect == Spec => []TypeOK
<1> QED BY TypeInit, TypeNext, PTL DEF Spec

-----------------------------------------------------------------------------
(* What is true of the venue, the wire and the seeds besides *)

\* The venue's history: level l of the newest book was last written by the
\* version it shows, and by none since; stamps never go back.
WrittenBy(t, v, l) == hist[t][v][l] = v
History ==
  \A t \in Token : \A v \in 0..venue[t] :
    /\ \A l \in Level : /\ hist[t][v][l] <= v
                        /\ hist[t][hist[t][v][l]][l] = hist[t][v][l]
    /\ \A u \in 0..v : /\ stamp[t][u] <= stamp[t][v]
                       /\ \A l \in Level : /\ hist[t][u][l] <= hist[t][v][l]
                                           /\ hist[t][v][l] <= u => hist[t][u][l] = hist[t][v][l]

\* Nobody is ahead of the venue.
Wire ==
  \A t \in Token :
    /\ next[t] <= venue[t] + 1
    /\ hashes[t][1] <= venue[t]
    /\ \A v \in pend[t] : v < next[t]
    /\ \A f \in Fetch : fetch[f].got[t] <= venue[t]

\* Only an open socket delivers, and one that was lost has been told to reseed by then.
Sockets ==
  \A sh \in Shard :
    /\ live[sh] => socket[sh] = "open"
    /\ socket[sh] = "open" => ~retried[sh]
    /\ stopped => socket[sh] = "none"

\* A seed nothing happened to is alone with its token: the book is unreadable
\* until it ends, and the buffer holds what was delivered, without a gap, since
\* the delivery or the seed began, or since the snapshot if that was read later.
Clean(f, t) == InFlight(f, t) /\ fetch[f].taint[t] = {}
Alone(f, t) ==
  /\ \A g \in Fetch : g # f => ~InFlight(g, t)
  /\ ~seeded[t] /\ t \in seeding
Buffered(f, t) ==
  /\ \A v \in pend[t] : v..(next[t] - 1) \subseteq pend[t]
  /\ fetch[f].got[t] >= 0 => (fetch[f].got[t] + 1)..(next[t] - 1) \subseteq pend[t]
Delivering(t) ==
  t \in held /\ pend[t] # {} => live[ShardOf[t]] \/ retried[ShardOf[t]] \/ stopped
Seeds == \A f \in Fetch, t \in Token : Clean(f, t) => Alone(f, t) /\ Buffered(f, t) /\ Delivering(t)

\* A level shows what the wire's position says, or a later write of the venue's.
UpToDate(t, b, n) ==
  \A l \in Level :
    \/ b[l] = hist[t][n - 1][l]
    \/ b[l] \in n..venue[t] /\ WrittenBy(t, b[l], l)

Books == \A t \in Token : seeded[t] /\ suspect[t] = {} => UpToDate(t, book[t], next[t])

Unheard ==
  \A t \in unheard : seeded[t] => hashes[t][1] >= 0 /\ book[t] = hist[t][hashes[t][1]]

FeedInv == TypeOK /\ History /\ Wire /\ Sockets /\ Seeds /\ Books /\ Unheard

-----------------------------------------------------------------------------
(* The venue and the wire *)

LEMMA HistoryInit == Init => History
<1> SUFFICES ASSUME Init PROVE History
  OBVIOUS
<1>1. 0 \in Version
  BY BoundAssumption DEF Version
<1>2. \A t \in Token : venue[t] = 0 /\ \A v \in Version : hist[t][v] = EmptyBook /\ stamp[t][v] = 1
  BY DEF Init
<1>3. \A l \in Level : EmptyBook[l] = 0
  BY DEF EmptyBook
<1>4. ASSUME NEW t \in Token, NEW v \in 0..venue[t]
      PROVE  \A l \in Level : hist[t][v][l] <= v /\ hist[t][hist[t][v][l]][l] = hist[t][v][l]
  <2>1. v = 0
    BY <1>2
  <2> QED BY <1>1, <1>2, <1>3, <2>1
<1>5. ASSUME NEW t \in Token, NEW v \in 0..venue[t], NEW u \in 0..v
      PROVE  /\ stamp[t][u] <= stamp[t][v]
             /\ \A l \in Level : /\ hist[t][u][l] <= hist[t][v][l]
                                 /\ hist[t][v][l] <= u => hist[t][u][l] = hist[t][v][l]
  <2>1. v = 0 /\ u = 0
    BY <1>2
  <2> QED BY <1>1, <1>2, <1>3, <2>1
<1> QED BY <1>4, <1>5 DEF History

\* A change is the last write of its level, and leaves the older books alone.
LEMMA HistoryStep ==
  ASSUME TypeOK, History, [Next]_vars
  PROVE  History'
<1> USE BoundAssumption
<1>1. ASSUME UNCHANGED venueVars PROVE History'
  BY <1>1 DEF History, venueVars
<1>2. ASSUME NEW t \in Token, NEW l \in Level, Change(t, l) PROVE History'
  <2> DEFINE v == venue[t] + 1
  <2>1. /\ venue[t] \in Nat /\ v \in Version /\ v - 1 = venue[t]
        /\ venue' = [venue EXCEPT ![t] = v]
        /\ hist' = [hist EXCEPT ![t][v] = [hist[t][venue[t]] EXCEPT ![l] = v]]
    <3>1. venue[t] \in Nat /\ v \in Version /\ v - 1 = venue[t]
      BY <1>2 DEF Change, TypeOK, Version
    <3>2. venue' = [venue EXCEPT ![t] = v] /\ hist' = [hist EXCEPT ![t][v] = [hist[t][v - 1] EXCEPT ![l] = v]]
      BY <1>2 DEF Change
    <3> HIDE DEF v
    <3> QED BY <3>1, <3>2
  <2>2. PICK d \in StampSteps : stamp' = [stamp EXCEPT ![t][v] = stamp[t][venue[t]] + d]
    BY <1>2, <2>1 DEF Change
  <2>3. ASSUME NEW q \in Token, q # t
        PROVE  venue'[q] = venue[q] /\ hist'[q] = hist[q] /\ stamp'[q] = stamp[q]
    BY <2>1, <2>2, <2>3 DEF TypeOK
  <2>4. /\ venue'[t] = v /\ hist'[t][v] = [hist[t][venue[t]] EXCEPT ![l] = v]
        /\ stamp'[t][v] = stamp[t][venue[t]] + d /\ d \in Nat
    BY <2>1, <2>2 DEF TypeOK
  <2>5. ASSUME NEW u \in 0..venue[t]
        PROVE  /\ u \in Version /\ u # v
               /\ hist'[t][u] = hist[t][u] /\ stamp'[t][u] = stamp[t][u]
    <3>1. u \in Version /\ u # v
      BY <2>1 DEF Version
    <3> QED BY <2>1, <2>2, <3>1 DEF TypeOK
  <2>6. ASSUME NEW u \in 0..venue[t], NEW m \in Level
        PROVE  hist[t][u][m] \in Nat /\ hist[t][u][m] <= u /\ stamp[t][u] \in Nat
    <3>1. u \in Version
      BY <2>5
    <3>2. hist[t][u] \in [Level -> Version] /\ stamp[t][u] \in Nat
      BY <3>1 DEF TypeOK, Book
    <3>3. hist[t][u][m] <= u
      BY DEF History
    <3> QED BY <3>2, <3>3 DEF Version
  <2>7. ASSUME NEW m \in Level
        PROVE  hist'[t][v][m] = IF m = l THEN v ELSE hist[t][venue[t]][m]
    <3>1. hist[t][venue[t]] \in [Level -> Version]
      BY DEF TypeOK, Book
    <3> QED BY <2>4, <3>1
  <2> HIDE DEF v
  <2>8. ASSUME NEW x \in 0..v, NEW m \in Level
        PROVE  /\ hist'[t][x][m] <= x
               /\ hist'[t][hist'[t][x][m]][m] = hist'[t][x][m]
    <3>1. CASE x = v
      <4>1. CASE m = l
        BY <2>1, <2>7, <3>1, <4>1 DEF Version
      <4>2. CASE m # l
        <5> DEFINE w == hist[t][venue[t]][m]
        <5>1. w \in 0..venue[t] /\ hist[t][w][m] = w
          BY <2>1, <2>6 DEF History
        <5>2. hist'[t][w] = hist[t][w]
          BY <2>5, <5>1
        <5> QED BY <2>1, <2>7, <3>1, <4>2, <5>1, <5>2
      <4> QED BY <4>1, <4>2
    <3>2. CASE x # v
      <4>1. x \in 0..venue[t]
        BY <2>1, <3>2 DEF v
      <4> DEFINE w == hist[t][x][m]
      <4>2. w \in 0..venue[t] /\ hist[t][w][m] = w
        BY <2>1, <2>6, <4>1 DEF History
      <4>3. hist'[t][w] = hist[t][w] /\ hist'[t][x] = hist[t][x]
        BY <2>5, <4>1, <4>2
      <4> QED BY <2>6, <4>1, <4>2, <4>3
    <3> QED BY <3>1, <3>2
  <2>9. ASSUME NEW x \in 0..v, NEW u \in 0..x
        PROVE  /\ stamp'[t][u] <= stamp'[t][x]
               /\ \A m \in Level : /\ hist'[t][u][m] <= hist'[t][x][m]
                                   /\ hist'[t][x][m] <= u => hist'[t][u][m] = hist'[t][x][m]
    <3>1. CASE x # v
      <4>1. x \in 0..venue[t] /\ u \in 0..venue[t]
        BY <2>1, <3>1 DEF v
      <4>2. /\ hist'[t][u] = hist[t][u] /\ hist'[t][x] = hist[t][x]
            /\ stamp'[t][u] = stamp[t][u] /\ stamp'[t][x] = stamp[t][x]
        BY <2>5, <4>1
      <4> QED BY <4>1, <4>2 DEF History
    <3>2. CASE x = v /\ u = v
      <4>1. \A m \in Level : hist'[t][v][m] \in Int
        <5>1. v \in Nat /\ venue[t] \in 0..venue[t]
          BY <2>1 DEF Version
        <5> QED BY <2>6, <2>7, <5>1
      <4>2. stamp'[t][v] \in Int
        BY <2>1, <2>4 DEF TypeOK, Version
      <4> QED BY <3>2, <4>1, <4>2
    <3>3. CASE x = v /\ u # v
      <4>1. u \in 0..venue[t] /\ venue[t] \in 0..venue[t]
        BY <2>1, <3>3 DEF v
      <4>2. hist'[t][u] = hist[t][u] /\ stamp'[t][u] = stamp[t][u]
        BY <2>5, <4>1
      <4>3. stamp[t][u] <= stamp[t][venue[t]]
        BY <4>1 DEF History
      <4>4. stamp'[t][u] <= stamp'[t][v]
        <5>1. stamp[t][u] \in Nat /\ stamp[t][venue[t]] \in Nat
          BY <2>5, <4>1 DEF TypeOK
        <5> QED BY <2>4, <4>2, <4>3, <5>1
      <4>5. ASSUME NEW m \in Level
            PROVE  /\ hist'[t][u][m] <= hist'[t][v][m]
                   /\ hist'[t][v][m] <= u => hist'[t][u][m] = hist'[t][v][m]
        <5>1. hist[t][u][m] \in Nat /\ hist[t][u][m] <= u /\ u < v /\ v \in Nat /\ u \in Nat
          BY <2>1, <2>6, <4>1 DEF v
        <5>2. CASE m = l
          BY <2>7, <4>2, <5>1, <5>2
        <5>3. CASE m # l
          BY <2>7, <4>1, <4>2, <5>3 DEF History
        <5> QED BY <5>2, <5>3
      <4> QED BY <3>3, <4>4, <4>5
    <3> QED BY <3>1, <3>2, <3>3
  <2> QED BY <2>3, <2>4, <2>8, <2>9 DEF History
<1>3. CASE UNCHANGED vars
  BY <1>1, <1>3 DEF vars
<1>4. CASE Venue
  <2>1. ASSUME NEW sh \in Shard, Subscribed(sh) PROVE UNCHANGED venueVars
    BY <2>1 DEF Subscribed
  <2>2. ASSUME NEW t \in Token, Lose(t) PROVE UNCHANGED venueVars
    BY <2>2 DEF Lose
  <2> QED BY <1>1, <1>2, <1>4, <2>1, <2>2 DEF Venue
<1>5. CASE Feed
  BY <1>1, <1>5 DEF Feed, OnPriceChange, OnBook, Connect, OpenFirst, OpenAgain, SocketLost,
                    Start, Stop
<1>6. CASE Rest
  BY <1>1, <1>6 DEF Rest, ReadBook, ReadMissing, FinishSeed, FailSeed, ReconcileStart,
                    FinishReconcile, FailReconcile
<1> QED BY <1>3, <1>4, <1>5, <1>6 DEF Next

LEMMA SocketsStep ==
  ASSUME TypeOK, Sockets, [Next]_vars
  PROVE  Sockets'
<1>1. ASSUME UNCHANGED <<live, sockVars>> PROVE Sockets'
  BY <1>1 DEF Sockets, sockVars
<1>2. ASSUME NEW sh \in Shard, Subscribed(sh) PROVE Sockets'
  BY <1>2 DEF Subscribed, Sockets, sockVars, TypeOK
<1>3. ASSUME NEW sh \in Shard, Connect(sh) PROVE Sockets'
  BY <1>3 DEF Connect, Sockets, wireVars, TypeOK
<1>4. ASSUME NEW sh \in Shard, OpenFirst(sh) PROVE Sockets'
  BY <1>4 DEF OpenFirst, Sockets, wireVars, TypeOK
<1>5. ASSUME NEW sh \in Shard, OpenAgain(sh) PROVE Sockets'
  BY <1>5 DEF OpenAgain, Sockets, wireVars, TypeOK
<1>6. ASSUME NEW sh \in Shard, SocketLost(sh) PROVE Sockets'
  BY <1>6 DEF SocketLost, Sockets, TypeOK
<1>7. ASSUME NEW W \in SUBSET Token, Start(W) PROVE Sockets'
  BY <1>7 DEF Start, Sockets
<1>8. ASSUME Stop PROVE Sockets'
  BY <1>8 DEF Stop, Sockets
<1>9. CASE UNCHANGED vars
  BY <1>1, <1>9 DEF vars, wireVars
<1>10. CASE Venue
  <2>1. ASSUME NEW t \in Token, NEW l \in Level, Change(t, l) PROVE UNCHANGED <<live, sockVars>>
    BY <2>1 DEF Change, wireVars
  <2>2. ASSUME NEW t \in Token, Lose(t) PROVE UNCHANGED <<live, sockVars>>
    BY <2>2 DEF Lose
  <2> QED BY <1>1, <1>2, <1>10, <2>1, <2>2 DEF Venue
<1>11. CASE Feed
  <2>1. ASSUME NEW t \in Token, OnPriceChange(t) \/ OnBook(t) PROVE UNCHANGED <<live, sockVars>>
    BY <2>1, SMTT(30) DEF OnPriceChange, OnBook, wireVars
  <2> QED BY <1>1, <1>3, <1>4, <1>5, <1>6, <1>7, <1>8, <1>11, <2>1 DEF Feed
<1>12. CASE Rest
  BY <1>1, <1>12 DEF Rest, ReadBook, ReadMissing, FinishSeed, FailSeed, ReconcileStart,
                     FinishReconcile, FailReconcile, wireVars
<1> QED BY <1>9, <1>10, <1>11, <1>12 DEF Next

-----------------------------------------------------------------------------
(* Fetches *)

\* A cause added to some fetches changes nothing else of any.
LEMMA TaintedFacts ==
  ASSUME TypeOK, NEW D, NEW cause, fetch' = Tainted(D, cause), NEW f \in Fetch, NEW t \in Token
  PROVE  /\ fetch'[f].kind = fetch[f].kind /\ fetch'[f].wanted = fetch[f].wanted
         /\ fetch'[f].got = fetch[f].got
         /\ fetch'[f].taint[t] = {} => fetch[f].taint[t] = {} /\ t \notin D[f]
<1> DEFINE d == [q \in Token |-> IF q \in D[f] THEN fetch[f].taint[q] \cup {cause}
                                                ELSE fetch[f].taint[q]]
<1>1. fetch[f] \in FetchRecord
  BY DEF TypeOK
<1>2. fetch'[f] = [fetch[f] EXCEPT !.taint = d]
  BY DEF Tainted
<1>3. d[t] = {} => fetch[f].taint[t] = {} /\ t \notin D[f]
  OBVIOUS
<1> HIDE DEF d
<1> QED BY <1>1, <1>2, <1>3 DEF FetchRecord

\* A seed that begins marks, and is marked by, any it shares a token with.
LEMMA SeedingFacts ==
  ASSUME TypeOK, NEW f \in Fetch, NEW kind, NEW W \in SUBSET Token,
         fetch' = Seeding(f, kind, W), NEW g \in Fetch, NEW t \in Token
  PROVE  /\ g = f =>
              /\ fetch'[g].kind = kind /\ fetch'[g].wanted = W /\ fetch'[g].got[t] = Unread
              /\ t \in W /\ fetch'[g].taint[t] = {} =>
                   pend[t] = {} /\ \A h \in Fetch : ~InFlight(h, t)
         /\ g # f =>
              /\ fetch'[g].kind = fetch[g].kind /\ fetch'[g].wanted = fetch[g].wanted
              /\ fetch'[g].got = fetch[g].got
              /\ fetch'[g].taint[t] = {} =>
                   fetch[g].taint[t] = {} /\ ~(t \in W /\ InFlight(g, t))
<1> DEFINE T == Tainted(SeedsOf(W), "overlap")
           new == [kind |-> kind, wanted |-> W, got |-> [q \in Token |-> Unread],
                   taint |-> [q \in Token |->
                     (IF q \in W /\ \E h \in Fetch : InFlight(h, q) THEN {"overlap"} ELSE {})
                     \cup (IF q \in W /\ pend[q] # {} THEN {"push"} ELSE {})]]
<1>1. fetch' = [T EXCEPT ![f] = new] /\ T \in [Fetch -> FetchRecord]
  BY TaintedType DEF Seeding, Cause
<1>2. CASE g = f
  <2>1. fetch'[g] = new
    <3> HIDE DEF new, T
    <3> QED BY <1>1, <1>2
  <2> QED BY <1>2, <2>1
<1>3. CASE g # f
  <2> DEFINE d == [q \in Token |-> IF q \in SeedsOf(W)[g] THEN fetch[g].taint[q] \cup {"overlap"}
                                                          ELSE fetch[g].taint[q]]
  <2>1. fetch'[g] = T[g]
    <3> HIDE DEF new, T
    <3> QED BY <1>1, <1>3
  <2>2. T[g] = [fetch[g] EXCEPT !.taint = d]
    BY DEF Tainted
  <2>3. fetch[g] \in FetchRecord
    BY DEF TypeOK
  <2>4. d[t] = {} => fetch[g].taint[t] = {} /\ ~(t \in W /\ InFlight(g, t))
    BY DEF SeedsOf, InFlight
  <2> HIDE DEF d, T, new
  <2> QED BY <1>3, <2>1, <2>2, <2>3, <2>4 DEF FetchRecord
<1> QED BY <1>2, <1>3

\* What an idle slot holds.
LEMMA IdleFacts ==
  ASSUME NEW t \in Token
  PROVE  /\ Idle.kind = "idle" /\ Idle.wanted = {} /\ Idle.got[t] = Unread
BY DEF Idle

-----------------------------------------------------------------------------
(* The wire and what was read *)

\* The newest hash of an installed book is the snapshot's or that of the last
\* change replayed, and the snapshot's if none was.
LEMMA InstalledHash ==
  ASSUME TypeOK, NEW t \in Token, NEW s \in Version
  PROVE  /\ \/ InstalledHashes(t, s)[1] \in pend[t]
            \/ InstalledHashes(t, s)[1] = s
            \/ InstalledHashes(t, s)[1] = Nobody
         /\ Replayed(t, s) = {} => InstalledHashes(t, s)[1] = s
<1> DEFINE R == Replayed(t, s)
           Newer(v) == Cardinality({w \in R : w > v})
           N == \E v \in R : Newer(v) = 0
<1>1. InstalledHashes(t, s)[1] = IF N THEN CHOOSE v \in R : Newer(v) = 0
                                 ELSE IF Cardinality(R) = 0 THEN s ELSE Nobody
  BY BoundAssumption DEF InstalledHashes
<1>2. N => (CHOOSE v \in R : Newer(v) = 0) \in R
  OBVIOUS
<1>3. R \subseteq pend[t]
  BY DEF Replayed
<1>4. R = {} => ~N /\ Cardinality(R) = 0
  BY FS_EmptySet
<1> HIDE DEF R, Newer, N
<1>5. Replayed(t, s) = R
  BY DEF R
<1> QED BY <1>1, <1>2, <1>3, <1>4, <1>5

LEMMA WireInit == Init => Wire
<1> SUFFICES ASSUME Init PROVE Wire
  OBVIOUS
<1>1. \A t \in Token : next[t] = 1 /\ venue[t] = 0 /\ hashes[t] = NoHashes /\ pend[t] = {}
  BY DEF Init
<1>2. NoHashes[1] = -1
  BY BoundAssumption DEF NoHashes, Nobody
<1>3. \A f \in Fetch, t \in Token : fetch[f].got[t] = -1
  BY IdleFacts DEF Init, Unread
<1> QED BY <1>1, <1>2, <1>3 DEF Wire

\* What install leaves of the hashes, from snapshots the venue has made.
LEMMA InstallWire ==
  ASSUME TypeOK, Wire, NEW f \in Fetch, NEW S \in SUBSET Found(f), Install(f, S), NEW t \in Token
  PROVE  hashes'[t][1] <= venue[t]
<1>1. CASE t \notin S
  BY <1>1 DEF Install, Wire
<1>2. CASE t \in S
  <2> DEFINE s == fetch[f].got[t]
  <2>1. s \in Version /\ s <= venue[t]
    BY <1>2, FoundType DEF Wire
  <2>2. hashes'[t] = InstalledHashes(t, s)
    BY <1>2 DEF Install
  <2>3. \A v \in pend[t] : v <= venue[t]
    BY DEF Wire, TypeOK, Version
  <2>4. -1 <= venue[t]
    BY DEF TypeOK, Version
  <2> HIDE DEF s
  <2> QED BY <2>1, <2>2, <2>3, <2>4, InstalledHash DEF Nobody
<1> QED BY <1>1, <1>2

\* What a slot has read is of the venue's making, whatever begins or ends in it.
LEMMA GotStep ==
  ASSUME TypeOK, Wire,
         \/ fetch' = fetch
         \/ \E D, cause : fetch' = Tainted(D, cause)
         \/ \E f \in Fetch : fetch' = [fetch EXCEPT ![f] = Idle]
         \/ \E f \in Fetch, W \in SUBSET Token : \E kind : fetch' = Seeding(f, kind, W)
  PROVE  \A f \in Fetch, t \in Token : fetch'[f].got[t] <= venue[t]
<1>1. \A t \in Token : -1 <= venue[t]
  BY DEF TypeOK, Version
<1>2. CASE fetch' = fetch
  BY <1>2 DEF Wire
<1>3. CASE \E D, cause : fetch' = Tainted(D, cause)
  BY <1>3, TaintedFacts DEF Wire
<1>4. ASSUME NEW f \in Fetch, fetch' = [fetch EXCEPT ![f] = Idle],
             NEW g \in Fetch, NEW t \in Token
      PROVE  fetch'[g].got[t] <= venue[t]
  BY <1>1, <1>4, IdleFacts DEF Wire, Unread, TypeOK
<1>5. ASSUME NEW f \in Fetch, NEW kind, NEW W \in SUBSET Token, fetch' = Seeding(f, kind, W),
             NEW g \in Fetch, NEW t \in Token
      PROVE  fetch'[g].got[t] <= venue[t]
  BY <1>1, <1>5, SeedingFacts DEF Wire, Unread
<1> QED BY <1>2, <1>3, <1>4, <1>5

LEMMA WireStep ==
  ASSUME TypeOK, Wire, [Next]_vars
  PROVE  Wire'
<1> USE BoundAssumption
<1>1. ASSUME NEW t \in Token
      PROVE  /\ venue[t] \in Nat /\ next[t] \in Nat /\ pend[t] \subseteq Nat
             /\ hashes[t][1] \in Int /\ \A f \in Fetch : fetch[f].got[t] \in Int
  BY DEF TypeOK, Version, FetchRecord, Nobody, Unread, Missing
<1>2. ASSUME venue' = venue, next' = next, hashes' = hashes, pend' = pend,
             \A f \in Fetch, t \in Token : fetch'[f].got[t] <= venue[t]
      PROVE  Wire'
  BY <1>2 DEF Wire
<1>3. ASSUME NEW t \in Token, NEW l \in Level, Change(t, l) PROVE Wire'
  <2>1. /\ next' = next /\ hashes' = hashes /\ pend' = pend /\ fetch' = fetch
        /\ venue' = [venue EXCEPT ![t] = venue[t] + 1]
    BY <1>3 DEF Change, wireVars, bookVars, seedVars
  <2>2. ASSUME NEW q \in Token PROVE venue'[q] \in Nat /\ venue[q] <= venue'[q]
    BY <1>1, <2>1 DEF TypeOK
  <2> QED BY <1>1, <2>1, <2>2 DEF Wire
<1>4. ASSUME NEW sh \in Shard, Subscribed(sh) PROVE Wire'
  <2>1. /\ venue' = venue /\ hashes' = hashes /\ pend' = pend
        /\ \A t \in Token : next'[t] = next[t] \/ next'[t] = venue[t] + 1
    BY <1>4 DEF Subscribed, venueVars, seedVars
  <2>2. \A f \in Fetch, t \in Token : fetch'[f].got[t] <= venue[t]
    <3>1. \E D, cause : fetch' = Tainted(D, cause)
      BY <1>4 DEF Subscribed
    <3> QED BY <3>1, GotStep
  <2> QED BY <1>1, <2>1, <2>2 DEF Wire
<1>5. ASSUME NEW t \in Token, Lose(t) PROVE Wire'
  <2>1. /\ venue' = venue /\ hashes' = hashes /\ pend' = pend
        /\ next' = [next EXCEPT ![t] = next[t] + 1] /\ next[t] <= venue[t]
    BY <1>5 DEF Lose, venueVars, seedVars
  <2>2. \A f \in Fetch, q \in Token : fetch'[f].got[q] <= venue[q]
    <3>1. \E D, cause : fetch' = Tainted(D, cause)
      BY <1>5 DEF Lose
    <3> QED BY <3>1, GotStep
  <2>3. \A q \in Token : next'[q] \in Nat /\ next[q] <= next'[q] /\ next'[q] <= venue[q] + 1
    BY <1>1, <2>1, SMTT(30) DEF TypeOK, Wire
  <2> QED BY <1>1, <2>1, <2>2, <2>3 DEF Wire
<1>6. ASSUME NEW t \in Token, OnPriceChange(t) PROVE Wire'
  <2>1. /\ venue' = venue /\ fetch' = fetch
        /\ next' = [next EXCEPT ![t] = next[t] + 1] /\ next[t] <= venue[t]
    BY <1>6 DEF OnPriceChange, venueVars
  <2>2. \A q \in Token : next'[q] \in Nat /\ next[q] <= next'[q] /\ next'[q] <= venue[q] + 1
    BY <1>1, <2>1, SMTT(30) DEF TypeOK, Wire
  <2>3. \A q \in Token : hashes'[q][1] <= venue[q]
    <3>1. CASE ApplyChange(t)
      <4>1. hashes' = [hashes EXCEPT ![t] = Noted(hashes[t], next[t])]
        BY <3>1 DEF ApplyChange
      <4>2. Noted(hashes[t], next[t])[1] = next[t]
        BY DEF Noted
      <4> QED BY <2>1, <4>1, <4>2 DEF TypeOK, Wire
    <3>2. CASE BufferChange(t) \/ DropChange(t)
      BY <3>2 DEF BufferChange, DropChange, Wire
    <3> QED BY <1>6, <3>1, <3>2 DEF OnPriceChange
  <2>4. \A q \in Token : \A v \in pend'[q] : v < next'[q]
    <3>1. \A q \in Token : pend'[q] = pend[q] \/ (q = t /\ pend'[q] = pend[q] \cup {next[t]})
      BY <1>6 DEF OnPriceChange, ApplyChange, BufferChange, DropChange, TypeOK
    <3>2. \A q \in Token : \A v \in pend[q] : v < next'[q]
      BY <1>1, <2>2 DEF Wire
    <3>3. next'[t] = next[t] + 1
      BY <2>1 DEF TypeOK
    <3> QED BY <1>1, <3>1, <3>2, <3>3
  <2> QED BY <2>1, <2>2, <2>3, <2>4 DEF Wire
<1>7. ASSUME NEW t \in Token, OnBook(t) PROVE Wire'
  <2>1. venue' = venue /\ next' = next /\ pend' = pend
    BY <1>7 DEF OnBook, venueVars, wireVars, seedVars
  <2>2. \A f \in Fetch, q \in Token : fetch'[f].got[q] <= venue[q]
    <3>1. \E D, cause : fetch' = Tainted(D, cause)
      BY <1>7 DEF OnBook
    <3> QED BY <3>1, GotStep
  <2>3. \A q \in Token : hashes'[q][1] <= venue[q]
    <3>1. hashes' = [hashes EXCEPT ![t] = Noted(hashes[t], next[t] - 1)]
      BY <1>7 DEF OnBook
    <3>2. Noted(hashes[t], next[t] - 1)[1] = next[t] - 1
      BY DEF Noted
    <3>3. next[t] - 1 <= venue[t]
      BY <1>1 DEF Wire
    <3> QED BY <3>1, <3>2, <3>3 DEF TypeOK, Wire
  <2> QED BY <2>1, <2>2, <2>3 DEF Wire
<1>8. ASSUME NEW sh \in Shard, OpenAgain(sh) PROVE Wire'
  <2>1. venue' = venue /\ next' = next /\ hashes' = hashes /\ pend' = pend
    BY <1>8 DEF OpenAgain, venueVars, wireVars
  <2>2. Assets(sh) \in SUBSET Token
    BY DEF Assets, TypeOK
  <2>3. \E f \in Fetch, W \in SUBSET Token : \E kind : fetch' = Seeding(f, kind, W)
    <3>1. PICK f \in Fetch : fetch' = Seeding(f, "reseed", Assets(sh))
      BY <1>8 DEF OpenAgain
    <3> QED BY <2>2, <3>1
  <2>4. \A f \in Fetch, q \in Token : fetch'[f].got[q] <= venue[q]
    BY <2>3, GotStep
  <2> QED BY <1>2, <2>1, <2>4
<1>9. ASSUME NEW W \in SUBSET Token, Start(W) PROVE Wire'
  <2>1. venue' = venue /\ next' = next /\ pend' = pend
    BY <1>9 DEF Start, venueVars
  <2>2. \E f \in Fetch, X \in SUBSET Token : \E kind : fetch' = Seeding(f, kind, X)
    <3>1. PICK f \in Fetch : fetch' = Seeding(f, "start", W)
      BY <1>9 DEF Start
    <3> QED BY <3>1
  <2>3. \A f \in Fetch, q \in Token : fetch'[f].got[q] <= venue[q]
    BY <2>2, GotStep
  <2>4. \A q \in Token : hashes'[q][1] <= venue[q]
    <3>1. NoHashes[1] = -1
      BY DEF NoHashes, Nobody
    <3>2. \A q \in Token : hashes'[q] = hashes[q] \/ hashes'[q] = NoHashes
      BY <1>9 DEF Start
    <3> QED BY <1>1, <3>1, <3>2 DEF Wire
  <2> QED BY <2>1, <2>3, <2>4 DEF Wire
<1>10. ASSUME Stop \/ \E sh \in Shard : Connect(sh) \/ OpenFirst(sh) \/ SocketLost(sh)
       PROVE  Wire'
  BY <1>10 DEF Stop, Connect, OpenFirst, SocketLost, Wire, venueVars, wireVars, bookVars, seedVars
<1>11. ASSUME NEW f \in Fetch, NEW t \in Token, ReadBook(f, t) \/ ReadMissing(f, t)
       PROVE  Wire'
  <2>1. venue' = venue /\ next' = next /\ hashes' = hashes /\ pend' = pend
    BY <1>11 DEF ReadBook, ReadMissing, venueVars, wireVars, bookVars, seedVars
  <2>2. PICK s \in {venue[t], Missing} : fetch' = [fetch EXCEPT ![f].got[t] = s]
    BY <1>11 DEF ReadBook, ReadMissing
  <2>3. \A g \in Fetch, q \in Token :
          fetch'[g].got[q] = fetch[g].got[q] \/ (q = t /\ fetch'[g].got[q] = s)
    <3>1. fetch[f] \in FetchRecord
      BY DEF TypeOK
    <3> QED BY <2>2, <3>1 DEF FetchRecord, TypeOK
  <2>4. s <= venue[t]
    BY <1>1 DEF Missing
  <2> QED BY <1>2, <2>1, <2>3, <2>4 DEF Wire
<1>12. ASSUME NEW f \in Fetch, FinishSeed(f) \/ FinishReconcile(f) PROVE Wire'
  <2>1. venue' = venue /\ next' = next /\ \A q \in Token : pend'[q] \subseteq pend[q]
    BY <1>12 DEF FinishSeed, FinishReconcile, venueVars, wireVars
  <2>2. \E g \in Fetch : fetch' = [fetch EXCEPT ![g] = Idle]
    BY <1>12 DEF FinishSeed, FinishReconcile
  <2>3. \A g \in Fetch, q \in Token : fetch'[g].got[q] <= venue[q]
    BY <2>2, GotStep
  <2>4. Install(f, Found(f)) \/ Install(f, Repaired(f))
    BY <1>12 DEF FinishSeed, FinishReconcile
  <2>5. \A q \in Token : hashes'[q][1] <= venue[q]
    BY <2>4, InstallWire, FoundType
  <2> QED BY <2>1, <2>3, <2>5 DEF Wire
<1>13. ASSUME NEW f \in Fetch, FailSeed(f) \/ FailReconcile(f) PROVE Wire'
  <2>1. /\ venue' = venue /\ next' = next /\ hashes' = hashes
        /\ \A q \in Token : pend'[q] \subseteq pend[q]
    BY <1>13 DEF FailSeed, FailReconcile, venueVars, wireVars, bookVars, seedVars
  <2>2. \E g \in Fetch : fetch' = [fetch EXCEPT ![g] = Idle]
    BY <1>13 DEF FailSeed, FailReconcile
  <2>3. \A g \in Fetch, q \in Token : fetch'[g].got[q] <= venue[q]
    BY <2>2, GotStep
  <2> QED BY <2>1, <2>3 DEF Wire
<1>14. ASSUME NEW f \in Fetch, ReconcileStart(f) PROVE Wire'
  <2>1. venue' = venue /\ next' = next /\ hashes' = hashes /\ pend' = pend
    BY <1>14 DEF ReconcileStart, venueVars, wireVars, bookVars, seedVars
  <2>2. PICK W : fetch' = [fetch EXCEPT ![f] = [Idle EXCEPT !.kind = "reconcile", !.wanted = W]]
    BY <1>14 DEF ReconcileStart
  <2>3. [Idle EXCEPT !.kind = "reconcile", !.wanted = W].got = Idle.got
    BY DEF Idle
  <2>4. \A g \in Fetch, q \in Token : fetch'[g].got[q] = fetch[g].got[q] \/ fetch'[g].got[q] = -1
    BY <2>2, <2>3, IdleFacts DEF TypeOK, Unread
  <2> QED BY <1>1, <1>2, <2>1, <2>4 DEF Wire
<1>15. CASE UNCHANGED vars
  BY <1>2, <1>15 DEF Wire, vars, venueVars, wireVars, bookVars, seedVars
<1> QED BY <1>3, <1>4, <1>5, <1>6, <1>7, <1>8, <1>9, <1>10, <1>11, <1>12, <1>13, <1>14, <1>15
        DEF Next, Venue, Feed, Rest

-----------------------------------------------------------------------------
(* Seeds nothing happened to *)

LEMMA SeedsInit == Init => Seeds
<1> SUFFICES ASSUME Init, NEW f \in Fetch, NEW t \in Token PROVE ~InFlight(f, t)
  BY DEF Seeds, Clean
<1> QED BY IdleFacts DEF Init, InFlight, IsSeed

\* A slot that becomes idle is in nobody's way.
LEMMA EndedFacts ==
  ASSUME TypeOK, NEW f \in Fetch, fetch' = [fetch EXCEPT ![f] = Idle],
         NEW g \in Fetch, NEW t \in Token
  PROVE  /\ InFlight(g, t)' => g # f
         /\ g # f => fetch'[g] = fetch[g]
         /\ InFlight(g, t)' => InFlight(g, t)
BY IdleFacts DEF InFlight, IsSeed, TypeOK

\* The venue's steps, and what the wire delivers.
LEMMA SeedsWire ==
  ASSUME TypeOK, Wire, Sockets, Seeds, NEW f \in Fetch, NEW t \in Token, Clean(f, t)',
         \/ \E q \in Token, l \in Level : Change(q, l)
         \/ \E sh \in Shard : Subscribed(sh)
         \/ \E q \in Token : Lose(q) \/ OnPriceChange(q) \/ OnBook(q)
  PROVE  Alone(f, t)' /\ Buffered(f, t)' /\ Delivering(t)'
<1> USE BoundAssumption
<1>1. ASSUME NEW q \in Token, NEW l \in Level, Change(q, l)
      PROVE  Alone(f, t)' /\ Buffered(f, t)' /\ Delivering(t)'
  BY <1>1 DEF Change, wireVars, sockVars, bookVars, seedVars, Seeds, Clean, InFlight, IsSeed,
              Alone, Buffered, Delivering
<1>2. ASSUME NEW D, NEW cause, fetch' = Tainted(D, cause)
      PROVE  /\ \A g \in Fetch : InFlight(g, t)' <=> InFlight(g, t)
             /\ Clean(f, t) /\ t \notin D[f] /\ fetch'[f].got = fetch[f].got
  BY <1>2, TaintedFacts DEF InFlight, IsSeed, Clean
<1>3. ASSUME NEW sh \in Shard, Subscribed(sh)
      PROVE  Alone(f, t)' /\ Buffered(f, t)' /\ Delivering(t)'
  <2>1. /\ seeded' = seeded /\ seeding' = seeding /\ pend' = pend /\ held' = held
        /\ retried' = retried /\ stopped' = stopped /\ live' = [live EXCEPT ![sh] = TRUE]
        /\ fetch' = Tainted(ReadOf(Assets(sh)), "gap")
        /\ next'[t] = IF t \in Assets(sh) THEN venue[t] + 1 ELSE next[t]
    BY <1>3 DEF Subscribed, seedVars, sockVars
  <2>2. /\ \A g \in Fetch : InFlight(g, t)' <=> InFlight(g, t)
        /\ Clean(f, t) /\ t \notin ReadOf(Assets(sh))[f] /\ fetch'[f].got = fetch[f].got
    BY <1>2, <2>1
  <2>3. Alone(f, t) /\ Buffered(f, t) /\ Delivering(t)
    BY <2>2 DEF Seeds
  <2>4. Alone(f, t)' /\ Delivering(t)'
    BY <2>1, <2>2, <2>3 DEF Alone, Delivering, TypeOK
  <2>5. CASE t \in Assets(sh)
    <3>1. ~(fetch[f].got[t] >= 0)
      BY <2>2, <2>5 DEF ReadOf, Clean, InFlight
    <3>2. pend[t] = {}
      <4>1. t \in held /\ ShardOf[t] = sh
        BY <2>5 DEF Assets
      <4>2. ~live[sh] /\ ~retried[sh] /\ ~stopped
        BY <1>3 DEF Subscribed, Sockets
      <4> QED BY <2>3, <4>1, <4>2 DEF Delivering
    <3> QED BY <2>1, <2>2, <2>4, <3>1, <3>2 DEF Buffered
  <2>6. CASE t \notin Assets(sh)
    BY <2>1, <2>2, <2>3, <2>4, <2>6 DEF Buffered
  <2> QED BY <2>5, <2>6
<1>4. ASSUME NEW q \in Token, Lose(q)
      PROVE  Alone(f, t)' /\ Buffered(f, t)' /\ Delivering(t)'
  <2>1. /\ seeded' = seeded /\ seeding' = seeding /\ pend' = pend /\ held' = held
        /\ live' = live /\ sockVars' = sockVars
        /\ fetch' = Tainted(SeedsOf({q}), "loss") /\ next' = [next EXCEPT ![q] = next[q] + 1]
    BY <1>4 DEF Lose, seedVars
  <2>2. /\ \A g \in Fetch : InFlight(g, t)' <=> InFlight(g, t)
        /\ Clean(f, t) /\ t \notin SeedsOf({q})[f] /\ fetch'[f].got = fetch[f].got
    BY <1>2, <2>1
  <2>3. t # q
    BY <2>2 DEF SeedsOf, Clean, InFlight
  <2>4. next'[t] = next[t]
    BY <2>1, <2>3 DEF TypeOK
  <2>5. Alone(f, t) /\ Buffered(f, t) /\ Delivering(t)
    BY <2>2 DEF Seeds
  <2>6. Alone(f, t)'
    BY <2>1, <2>2, <2>4, <2>5 DEF Alone
  <2>7. Buffered(f, t)'
    BY <2>1, <2>2, <2>4, <2>5 DEF Buffered
  <2>8. Delivering(t)'
    BY <2>1, <2>5 DEF Delivering, sockVars
  <2> QED BY <2>6, <2>7, <2>8
<1>5. ASSUME NEW q \in Token, OnPriceChange(q)
      PROVE  Alone(f, t)' /\ Buffered(f, t)' /\ Delivering(t)'
  <2>1. /\ seeded' = seeded /\ seeding' = seeding /\ held' = held /\ fetch' = fetch
        /\ live' = live /\ sockVars' = sockVars /\ next' = [next EXCEPT ![q] = next[q] + 1]
    BY <1>5 DEF OnPriceChange
  <2>2. (\A g \in Fetch : InFlight(g, t)' <=> InFlight(g, t)) /\ Clean(f, t)
    BY <2>1 DEF Clean, InFlight, IsSeed
  <2>3. Alone(f, t) /\ Buffered(f, t) /\ Delivering(t)
    BY <2>2 DEF Seeds
  <2>4. Alone(f, t)'
    BY <2>1, <2>2, <2>3 DEF Alone
  <2>5. CASE t # q
    <3>1. next'[t] = next[t] /\ pend'[t] = pend[t]
      BY <1>5, <2>1, <2>5 DEF OnPriceChange, ApplyChange, BufferChange, DropChange, TypeOK
    <3> QED BY <2>1, <2>3, <2>4, <3>1 DEF Buffered, Delivering, sockVars
  <2>6. CASE t = q
    <3>1. BufferChange(t)
      BY <1>5, <2>3, <2>6 DEF OnPriceChange, ApplyChange, DropChange, Alone
    <3>2. pend'[t] = pend[t] \cup {next[t]} /\ next'[t] = next[t] + 1 /\ live[ShardOf[t]]
      BY <1>5, <2>1, <2>6, <3>1 DEF OnPriceChange, BufferChange, TypeOK
    <3>3. next[t] \in Nat /\ pend[t] \subseteq Nat /\ fetch[f].got[t] \in Int
      <4>1. fetch[f] \in FetchRecord
        BY DEF TypeOK
      <4>2. fetch[f].got[t] \in Int
        BY <4>1 DEF FetchRecord, Version, Unread, Missing
      <4>3. next[t] \in 1..(MaxVersion + 1) /\ pend[t] \in SUBSET (1..MaxVersion)
        BY DEF TypeOK
      <4> QED BY <4>2, <4>3
    <3>4. \A u \in Int : u..(next'[t] - 1) \subseteq u..(next[t] - 1) \cup {next[t]}
      BY <3>2, <3>3
    <3>5. next[t]..(next'[t] - 1) = {next[t]}
      BY <3>2, <3>3
    <3>6. Buffered(f, t)'
      <4>1. \A v \in pend'[t] : v..(next'[t] - 1) \subseteq pend'[t]
        BY <2>3, <3>2, <3>3, <3>4, <3>5 DEF Buffered
      <4>2. fetch'[f].got[t] >= 0 => (fetch'[f].got[t] + 1)..(next'[t] - 1) \subseteq pend'[t]
        BY <2>1, <2>3, <3>2, <3>3, <3>4 DEF Buffered
      <4> QED BY <4>1, <4>2 DEF Buffered
    <3> QED BY <2>1, <2>4, <3>2, <3>6 DEF Delivering
  <2> QED BY <2>5, <2>6
<1>6. ASSUME NEW q \in Token, OnBook(q)
      PROVE  Alone(f, t)' /\ Buffered(f, t)' /\ Delivering(t)'
  <2>1. /\ seeding' = seeding /\ pend' = pend /\ held' = held /\ next' = next
        /\ live' = live /\ sockVars' = sockVars /\ fetch' = Tainted(SeedsOf({q}), "push")
        /\ seeded' = [seeded EXCEPT ![q] = TRUE]
    BY <1>6 DEF OnBook, seedVars, wireVars
  <2>2. /\ \A g \in Fetch : InFlight(g, t)' <=> InFlight(g, t)
        /\ Clean(f, t) /\ t \notin SeedsOf({q})[f] /\ fetch'[f].got = fetch[f].got
    BY <1>2, <2>1
  <2>3. t # q
    BY <2>2 DEF SeedsOf, Clean, InFlight
  <2>4. seeded'[t] = seeded[t]
    BY <2>1, <2>3 DEF TypeOK
  <2>5. Alone(f, t) /\ Buffered(f, t) /\ Delivering(t)
    BY <2>2 DEF Seeds
  <2>6. Alone(f, t)'
    BY <2>1, <2>2, <2>4, <2>5 DEF Alone
  <2>7. Buffered(f, t)'
    BY <2>1, <2>2, <2>4, <2>5 DEF Buffered
  <2>8. Delivering(t)'
    BY <2>1, <2>5 DEF Delivering, sockVars
  <2> QED BY <2>6, <2>7, <2>8
<1> QED BY <1>1, <1>3, <1>4, <1>5, <1>6

\* The sockets: a seed that begins disturbs whom it meets.
LEMMA SeedsSockets ==
  ASSUME TypeOK, Sockets, Seeds, NEW f \in Fetch, NEW t \in Token, Clean(f, t)',
         \/ \E sh \in Shard : Connect(sh) \/ OpenFirst(sh) \/ OpenAgain(sh) \/ SocketLost(sh)
         \/ \E W \in SUBSET Token : Start(W)
         \/ Stop
  PROVE  Alone(f, t)' /\ Buffered(f, t)' /\ Delivering(t)'
<1>1. ASSUME Stop \/ \E sh \in Shard : Connect(sh) \/ OpenFirst(sh) \/ SocketLost(sh)
      PROVE  Alone(f, t)' /\ Buffered(f, t)' /\ Delivering(t)'
  <2>1. /\ seeded' = seeded /\ seeding' = seeding /\ pend' = pend /\ held' = held
        /\ next' = next /\ fetch' = fetch
    BY <1>1 DEF Stop, Connect, OpenFirst, SocketLost, bookVars, seedVars, wireVars
  <2>2. (\A g \in Fetch : InFlight(g, t)' <=> InFlight(g, t)) /\ Clean(f, t)
    BY <2>1 DEF Clean, InFlight, IsSeed
  <2>3. live[ShardOf[t]] \/ retried[ShardOf[t]] \/ stopped
          => live'[ShardOf[t]] \/ retried'[ShardOf[t]] \/ stopped'
    BY <1>1, TokenAssumption DEF Stop, Connect, OpenFirst, SocketLost, TypeOK, wireVars
  <2> QED BY <2>1, <2>2, <2>3 DEF Seeds, Alone, Buffered, Delivering
<1>2. ASSUME NEW h \in Fetch, fetch[h] = Idle, NEW kind \in {"start", "reseed"},
             NEW W \in SUBSET Token,
             fetch' = Seeding(h, kind, W), seeding' = seeding \cup W, pend' = pend, next' = next,
             \A q \in Token : seeded'[q] => seeded[q] /\ q \notin W,
             t \notin W /\ t \in held' => /\ t \in held /\ live'[ShardOf[t]] = live[ShardOf[t]]
                                          /\ retried'[ShardOf[t]] = retried[ShardOf[t]]
                                          /\ stopped' = stopped
      PROVE  Alone(f, t)' /\ Buffered(f, t)' /\ Delivering(t)'
  <2>1. fetch'[h].kind = kind /\ fetch'[h].wanted = W /\ fetch'[h].got[t] = Unread
    BY <1>2, SeedingFacts
  <2>2. \A g \in Fetch : g # h => (InFlight(g, t)' <=> InFlight(g, t))
    BY <1>2, SeedingFacts DEF InFlight, IsSeed
  <2>3. CASE f = h
    <3>1. t \in W
      BY <2>1, <2>3 DEF Clean, InFlight
    <3>2. pend[t] = {} /\ \A g \in Fetch : ~InFlight(g, t)
      BY <1>2, <2>3, <3>1, SeedingFacts DEF Clean
    <3>3. Alone(f, t)'
      BY <1>2, <2>2, <2>3, <3>1, <3>2 DEF Alone
    <3> QED BY <1>2, <2>1, <2>3, <3>2, <3>3 DEF Buffered, Delivering, Unread
  <2>4. CASE f # h
    <3>1. Clean(f, t) /\ t \notin W /\ fetch'[f].got = fetch[f].got
      BY <1>2, <2>2, <2>4, SeedingFacts DEF Clean
    <3>2. Alone(f, t) /\ Buffered(f, t) /\ Delivering(t)
      BY <3>1 DEF Seeds
    <3>3. Alone(f, t)'
      <4>1. ~InFlight(h, t)'
        BY <2>1, <3>1 DEF InFlight
      <4> QED BY <1>2, <2>2, <3>2, <4>1 DEF Alone
    <3> QED BY <1>2, <3>1, <3>2, <3>3 DEF Buffered, Delivering
  <2> QED BY <2>3, <2>4
<1>3. ASSUME NEW sh \in Shard, OpenAgain(sh)
      PROVE  Alone(f, t)' /\ Buffered(f, t)' /\ Delivering(t)'
  <2>1. PICK h \in Fetch : fetch[h] = Idle /\ fetch' = Seeding(h, "reseed", Assets(sh))
    BY <1>3 DEF OpenAgain
  <2>2. /\ seeding' = seeding \cup Assets(sh) /\ pend' = pend /\ next' = next
        /\ live' = live /\ stopped' = stopped /\ held' = held
        /\ retried' = [retried EXCEPT ![sh] = FALSE]
        /\ \A q \in Token : seeded'[q] => seeded[q] /\ q \notin Assets(sh)
    BY <1>3 DEF OpenAgain, wireVars
  <2>3. t \notin Assets(sh) /\ t \in held => retried'[ShardOf[t]] = retried[ShardOf[t]]
    BY <2>2, TokenAssumption DEF Assets, TypeOK
  <2>4. Assets(sh) \in SUBSET Token
    BY DEF Assets, TypeOK
  <2> QED BY <1>2, <2>1, <2>2, <2>3, <2>4
<1>4. ASSUME NEW W \in SUBSET Token, Start(W)
      PROVE  Alone(f, t)' /\ Buffered(f, t)' /\ Delivering(t)'
  <2>1. PICK h \in Fetch : fetch[h] = Idle /\ fetch' = Seeding(h, "start", W)
    BY <1>4 DEF Start
  <2>2. /\ seeding' = seeding \cup W /\ pend' = pend /\ next' = next /\ held' = W
        /\ \A q \in Token : ~seeded'[q]
    BY <1>4 DEF Start
  <2> QED BY <1>2, <2>1, <2>2
<1> QED BY <1>1, <1>3, <1>4

\* Fetches: what one reads and how one ends is its own affair.
LEMMA SeedsRest ==
  ASSUME TypeOK, Wire, Seeds, NEW f \in Fetch, NEW t \in Token, Clean(f, t)', Rest
  PROVE  Alone(f, t)' /\ Buffered(f, t)' /\ Delivering(t)'
<1>1. ASSUME NEW g \in Fetch, NEW q \in Token, ReadBook(g, q) \/ ReadMissing(g, q)
      PROVE  Alone(f, t)' /\ Buffered(f, t)' /\ Delivering(t)'
  <2>1. /\ seeded' = seeded /\ seeding' = seeding /\ pend' = pend /\ held' = held
        /\ wireVars' = wireVars /\ sockVars' = sockVars
    BY <1>1 DEF ReadBook, ReadMissing, bookVars, seedVars
  <2>2. PICK s \in {venue[q], Missing} : fetch' = [fetch EXCEPT ![g].got[q] = s]
    BY <1>1 DEF ReadBook, ReadMissing
  <2>3. \A h \in Fetch : /\ fetch'[h].kind = fetch[h].kind /\ fetch'[h].wanted = fetch[h].wanted
                         /\ fetch'[h].taint = fetch[h].taint
                         /\ fetch'[h].got[t] \in {fetch[h].got[t], venue[t], Missing}
    <3>1. fetch[g] \in FetchRecord
      BY DEF TypeOK
    <3> QED BY <2>2, <3>1 DEF FetchRecord, TypeOK
  <2>4. (\A h \in Fetch : InFlight(h, t)' <=> InFlight(h, t)) /\ Clean(f, t)
    BY <2>3 DEF Clean, InFlight, IsSeed
  <2>5. Alone(f, t) /\ Buffered(f, t) /\ Delivering(t)
    BY <2>4 DEF Seeds
  <2>6. (venue[t] + 1)..(next[t] - 1) = {}
    BY DEF Wire, TypeOK, Version
  <2>7. ~(Missing >= 0)
    BY DEF Missing
  <2> QED BY <2>1, <2>3, <2>4, <2>5, <2>6, <2>7 DEF Alone, Buffered, Delivering, wireVars, sockVars
<1>2. ASSUME NEW g \in Fetch, g # f => fetch'[f] = fetch[f],
             \A h \in Fetch : InFlight(h, t)' => InFlight(h, t) /\ h # g,
             held' = held, wireVars' = wireVars, sockVars' = sockVars,
             \A q \in Token : seeded'[q] => \/ seeded[q]
                                            \/ q \in fetch[g].wanted /\ IsSeed(g),
             seeding \ seeding' \subseteq IF IsSeed(g) THEN fetch[g].wanted ELSE {},
             \A q \in Token : pend'[q] # pend[q] => \/ seeded[q]
                                                    \/ q \in fetch[g].wanted /\ IsSeed(g)
      PROVE  Alone(f, t)' /\ Buffered(f, t)' /\ Delivering(t)'
  <2>1. g # f /\ fetch'[f] = fetch[f] /\ Clean(f, t)
    BY <1>2 DEF Clean
  <2>2. Alone(f, t) /\ Buffered(f, t) /\ Delivering(t)
    BY <2>1 DEF Seeds
  <2>3. ~(t \in fetch[g].wanted /\ IsSeed(g))
    BY <2>1, <2>2 DEF Alone, InFlight
  <2>4. seeded'[t] = FALSE /\ t \in seeding' /\ pend'[t] = pend[t]
    <3>1. ~seeded'[t]
      BY <1>2, <2>2, <2>3 DEF Alone
    <3>2. TypeOK'
      BY TypeRest
    <3> QED BY <1>2, <2>2, <2>3, <3>1, <3>2 DEF Alone, TypeOK
  <2> QED BY <1>2, <2>1, <2>2, <2>4 DEF Alone, Buffered, Delivering, wireVars, sockVars
<1>3. ASSUME NEW g \in Fetch, FinishSeed(g)
      PROVE  Alone(f, t)' /\ Buffered(f, t)' /\ Delivering(t)'
  <2>1. /\ fetch' = [fetch EXCEPT ![g] = Idle] /\ IsSeed(g)
        /\ held' = held /\ wireVars' = wireVars /\ sockVars' = sockVars
        /\ \A q \in Token : seeded'[q] => seeded[q] \/ q \in Found(g)
        /\ seeding' = seeding \ fetch[g].wanted
        /\ \A q \in Token : pend'[q] # pend[q] => q \in Found(g) \/ q \in fetch[g].wanted
    BY <1>3 DEF FinishSeed, Install
  <2>2. Found(g) \subseteq fetch[g].wanted
    BY DEF Found
  <2>3. g # f => fetch'[f] = fetch[f]
    BY <2>1, EndedFacts
  <2>4. \A h \in Fetch : InFlight(h, t)' => InFlight(h, t) /\ h # g
    BY <2>1, EndedFacts
  <2> QED BY <1>2, <2>1, <2>2, <2>3, <2>4
<1>4. ASSUME NEW g \in Fetch, FailSeed(g)
      PROVE  Alone(f, t)' /\ Buffered(f, t)' /\ Delivering(t)'
  <2>1. /\ fetch' = [fetch EXCEPT ![g] = Idle] /\ IsSeed(g)
        /\ held' = held /\ wireVars' = wireVars /\ sockVars' = sockVars /\ seeded' = seeded
        /\ seeding' = seeding \ fetch[g].wanted
        /\ \A q \in Token : pend'[q] # pend[q] => q \in fetch[g].wanted
    BY <1>4 DEF FailSeed, bookVars
  <2>2. g # f => fetch'[f] = fetch[f]
    BY <2>1, EndedFacts
  <2>3. \A h \in Fetch : InFlight(h, t)' => InFlight(h, t) /\ h # g
    BY <2>1, EndedFacts
  <2> QED BY <1>2, <2>1, <2>2, <2>3
<1>5. ASSUME NEW g \in Fetch, FinishReconcile(g)
      PROVE  Alone(f, t)' /\ Buffered(f, t)' /\ Delivering(t)'
  <2>1. /\ fetch' = [fetch EXCEPT ![g] = Idle]
        /\ held' = held /\ wireVars' = wireVars /\ sockVars' = sockVars
        /\ \A q \in Token : seeded'[q] => seeded[q] \/ q \in Repaired(g)
        /\ seeding' = seeding
        /\ \A q \in Token : pend'[q] # pend[q] => q \in Repaired(g)
    BY <1>5 DEF FinishReconcile, Install
  <2>2. \A q \in Repaired(g) : seeded[q]
    BY DEF Repaired, Compared
  <2>3. g # f => fetch'[f] = fetch[f]
    BY <2>1, EndedFacts
  <2>4. \A h \in Fetch : InFlight(h, t)' => InFlight(h, t) /\ h # g
    BY <2>1, EndedFacts
  <2> QED BY <1>2, <2>1, <2>2, <2>3, <2>4
<1>6. ASSUME NEW g \in Fetch, FailReconcile(g)
      PROVE  Alone(f, t)' /\ Buffered(f, t)' /\ Delivering(t)'
  <2>1. /\ fetch' = [fetch EXCEPT ![g] = Idle]
        /\ held' = held /\ wireVars' = wireVars /\ sockVars' = sockVars /\ seeded' = seeded
        /\ seeding' = seeding /\ pend' = pend
    BY <1>6 DEF FailReconcile, bookVars, seedVars
  <2>2. g # f => fetch'[f] = fetch[f]
    BY <2>1, EndedFacts
  <2>3. \A h \in Fetch : InFlight(h, t)' => InFlight(h, t) /\ h # g
    BY <2>1, EndedFacts
  <2> QED BY <1>2, <2>1, <2>2, <2>3
<1>7. ASSUME NEW g \in Fetch, ReconcileStart(g)
      PROVE  Alone(f, t)' /\ Buffered(f, t)' /\ Delivering(t)'
  <2>1. PICK W : fetch' = [fetch EXCEPT ![g] = [Idle EXCEPT !.kind = "reconcile", !.wanted = W]]
    BY <1>7 DEF ReconcileStart
  <2>2. [Idle EXCEPT !.kind = "reconcile", !.wanted = W].kind = "reconcile"
    BY DEF Idle
  <2>3. fetch'[g].kind = "reconcile" /\ \A h \in Fetch : h # g => fetch'[h] = fetch[h]
    BY <2>1, <2>2 DEF TypeOK
  <2>4. \A h \in Fetch : InFlight(h, t)' => InFlight(h, t) /\ h # g
    BY <2>3 DEF InFlight, IsSeed
  <2>5. /\ held' = held /\ wireVars' = wireVars /\ sockVars' = sockVars /\ seeded' = seeded
        /\ seeding' = seeding /\ pend' = pend
    BY <1>7 DEF ReconcileStart, bookVars, seedVars
  <2> QED BY <1>2, <2>3, <2>4, <2>5
<1> QED BY <1>1, <1>3, <1>4, <1>5, <1>6, <1>7 DEF Rest

LEMMA SeedsStep ==
  ASSUME TypeOK, Wire, Sockets, Seeds, [Next]_vars
  PROVE  Seeds'
<1> SUFFICES ASSUME NEW f \in Fetch, NEW t \in Token, Clean(f, t)'
             PROVE  Alone(f, t)' /\ Buffered(f, t)' /\ Delivering(t)'
  BY DEF Seeds
<1>1. CASE UNCHANGED vars
  BY <1>1 DEF vars, wireVars, sockVars, bookVars, seedVars, Seeds, Clean, InFlight, IsSeed,
              Alone, Buffered, Delivering
<1>2. CASE Venue
  BY <1>2, SeedsWire DEF Venue
<1>3. CASE Feed
  BY <1>3, SeedsWire, SeedsSockets DEF Feed
<1>4. CASE Rest
  BY <1>4, SeedsRest, SMTT(30)
<1> QED BY <1>1, <1>2, <1>3, <1>4 DEF Next

-----------------------------------------------------------------------------
(* Books *)

\* A level of a replayed book was last written by the newest change replayed
\* that wrote it, or shows what the snapshot had.
LEMMA ReplayFacts ==
  ASSUME NEW t, NEW b, NEW S \in SUBSET Version, NEW l \in Level
  PROVE  LET W == {v \in S : hist[t][v][l] = v}
             r == Replay(t, b, S)[l]
         IN  IF W = {} THEN r = b[l] ELSE r \in W /\ \A w \in W : w <= r
<1> DEFINE W == {v \in S : hist[t][v][l] = v}
<1>1. Replay(t, b, S)[l] = IF W = {} THEN b[l] ELSE CHOOSE v \in W : \A w \in W : w <= v
  BY DEF Replay
<1>2. W \in SUBSET Version
  OBVIOUS
<1> HIDE DEF W
<1>3. W # {} => \E v \in W : \A w \in W : w <= v
  BY <1>2, Newest
<1>4. W # {} => Replay(t, b, S)[l] \in W /\ \A w \in W : w <= Replay(t, b, S)[l]
  BY <1>1, <1>3
<1> QED BY <1>1, <1>4 DEF W

\* What install makes of a snapshot and a buffer without a gap: every level is
\* at the wire's position, or ahead of it by a write the wire has yet to bring.
\* A change as old as the snapshot is replayed on it, but so is every later one
\* that was buffered, and the last write of a level among these is the level's.
LEMMA InstallUpToDate ==
  ASSUME TypeOK, History, Wire, NEW t \in Token, NEW s \in Version, s <= venue[t],
         \A v \in pend[t] : v..(next[t] - 1) \subseteq pend[t],
         (s + 1)..(next[t] - 1) \subseteq pend[t]
  PROVE  UpToDate(t, Installed(t, s), next[t])
<1> SUFFICES ASSUME NEW l \in Level
             PROVE  LET r == Installed(t, s)[l]
                    IN  \/ r = hist[t][next[t] - 1][l]
                        \/ r \in next[t]..venue[t] /\ WrittenBy(t, r, l)
  BY DEF UpToDate
<1> DEFINE n == next[t] - 1
           R == Replayed(t, s)
           W == {v \in R : hist[t][v][l] = v}
           r == Installed(t, s)[l]
           last == hist[t][n][l]
           base == hist[t][s][l]
<1>1. /\ venue[t] \in Version /\ MaxVersion \in Nat /\ n \in 0..venue[t] /\ s \in 0..venue[t]
      /\ next[t] = n + 1
  BY BoundAssumption DEF TypeOK, Wire, Version
<1>2. R \in SUBSET Version /\ \A v \in R : v \in pend[t] /\ v \in 0..n
  BY <1>1, SMTT(30) DEF Replayed, TypeOK, Version, Wire
<1>3. IF W = {} THEN r = base ELSE r \in W /\ \A w \in W : w <= r
  BY <1>2, ReplayFacts DEF Installed
<1>4. /\ last \in 0..n /\ hist[t][last][l] = last
      /\ base \in 0..s /\ hist[t][base][l] = base
  <2>1. last \in Version /\ base \in Version
    <3>1. n \in Version /\ s \in Version
      BY <1>1 DEF Version
    <3>2. hist[t][n] \in [Level -> Version] /\ hist[t][s] \in [Level -> Version]
      BY <3>1 DEF TypeOK, Book
    <3> HIDE DEF n
    <3> QED BY <3>2
  <2>2. last <= n /\ hist[t][last][l] = last /\ base <= s /\ hist[t][base][l] = base
    BY <1>1 DEF History
  <2> QED BY <1>1, <2>1, <2>2 DEF Version
\* The last write up to the wire's position is replayed with any before it.
<1>5. ASSUME NEW v \in R, v <= last PROVE last \in W
  <2>1. last \in pend[t]
    <3>1. last \in v..n
      <4>1. v \in 0..n /\ v <= last /\ last \in 0..n
        BY <1>2, <1>4, <1>5
      <4> HIDE DEF R, last, n
      <4> QED BY <1>1, <4>1
    <3>2. v..(next[t] - 1) \subseteq pend[t]
      BY <1>2
    <3> QED BY <1>1, <3>1, <3>2
  <2>2. stamp[t][last] >= stamp[t][s]
    <3>1. last \in 0..venue[t] /\ v \in 0..last
      <4>1. v \in 0..n /\ v <= last /\ last \in 0..n /\ n \in 0..venue[t]
        BY <1>1, <1>2, <1>4, <1>5
      <4> HIDE DEF R, last, n
      <4> QED BY <1>1, <4>1 DEF Version
    <3>2. stamp[t][v] <= stamp[t][last]
      BY <3>1 DEF History
    <3>3. stamp[t][v] >= stamp[t][s]
      BY DEF Replayed
    <3>4. stamp[t][v] \in Nat /\ stamp[t][s] \in Nat /\ stamp[t][last] \in Nat
      <4>1. v \in Version /\ s \in Version /\ last \in Version
        BY <1>1, <1>2, <3>1 DEF Version
      <4> HIDE DEF last
      <4> QED BY <4>1 DEF TypeOK
    <3> QED BY <3>2, <3>3, <3>4
  <2> QED BY <1>4, <2>1, <2>2 DEF Replayed
<1>6. ASSUME NEW w \in W PROVE w \in R /\ w <= last
  <2>1. w \in 0..n /\ hist[t][w][l] = w
    BY <1>2
  <2>2. hist[t][w][l] <= hist[t][n][l]
    BY <1>1, <2>1 DEF History
  <2> QED BY <2>1, <2>2
<1>7. CASE W # {}
  <2>1. r \in W /\ \A w \in W : w <= r
    BY <1>3, <1>7
  <2>2. r \in R /\ r <= last
    BY <1>6, <2>1
  <2>3. last <= r
    BY <1>5, <2>1, <2>2
  <2> QED BY <1>1, <1>2, <1>4, <2>2, <2>3
<1>8. CASE W = {}
  <2>1. r = base
    BY <1>3, <1>8
  <2>2. CASE base >= next[t]
    <3>1. base \in next[t]..venue[t]
      <4>1. base \in 0..s /\ s \in 0..venue[t] /\ base >= next[t] /\ next[t] \in Nat
        BY <1>1, <1>4, <2>2
      <4> HIDE DEF base
      <4> QED BY <1>1, <4>1 DEF Version
    <3> QED BY <1>4, <2>1, <3>1 DEF WrittenBy
  <2>3. CASE base < next[t] /\ s <= n
    <3>1. ~(last > s)
      <4> SUFFICES ASSUME last > s PROVE FALSE
        OBVIOUS
      <4>1. last \in (s + 1)..n
        BY <1>1, <1>4
      <4>2. last \in pend[t]
        BY <1>1, <4>1
      <4>3. stamp[t][s] <= stamp[t][last]
        <5>1. last \in 0..venue[t] /\ s \in 0..last
          <6>1. last \in 0..n /\ n \in 0..venue[t] /\ s \in 0..venue[t] /\ last > s
            BY <1>1, <1>4
          <6> HIDE DEF last, n
          <6> QED BY <1>1, <6>1 DEF Version
        <5> HIDE DEF last
        <5> QED BY <5>1 DEF History
      <4>4. stamp[t][s] \in Nat /\ stamp[t][last] \in Nat
        <5>1. last \in Version
          <6>1. last \in 0..n /\ n \in 0..venue[t]
            BY <1>1, <1>4
          <6> HIDE DEF last, n
          <6> QED BY <1>1, <6>1 DEF Version
        <5> HIDE DEF last
        <5> QED BY <5>1 DEF TypeOK
      <4>5. last \in R
        BY <4>2, <4>3, <4>4 DEF Replayed
      <4> QED BY <1>4, <1>8, <4>5
    <3>2. hist[t][s][l] = hist[t][n][l]
      <4>1. n \in 0..venue[t] /\ s \in 0..n /\ hist[t][n][l] <= s
        BY <1>1, <1>4, <2>3, <3>1
      <4> QED BY <4>1 DEF History
    <3> QED BY <2>1, <3>2
  <2>4. CASE base < next[t] /\ ~(s <= n)
    <3>1. s \in 0..venue[t] /\ n \in 0..s /\ hist[t][s][l] <= n
      BY <1>1, <1>4, <2>4
    <3>2. hist[t][n][l] = hist[t][s][l]
      BY <3>1 DEF History
    <3> QED BY <2>1, <3>2
  <2> QED BY <1>1, <1>4, <2>2, <2>3, <2>4
<1> QED BY <1>7, <1>8

\* A book is as up to date as before while neither the wire nor the venue moves.
LEMMA StillUpToDate ==
  ASSUME NEW t \in Token, NEW b, NEW n, UpToDate(t, b, n), venueVars' = venueVars,
         book'[t] = b, next'[t] = n
  PROVE  UpToDate(t, book[t], next[t])'
BY DEF UpToDate, WrittenBy, venueVars

LEMMA BooksInit == Init => Books
BY DEF Init, Books

LEMMA BooksChange ==
  ASSUME TypeOK, Wire, Books, NEW q \in Token, NEW k \in Level, Change(q, k)
  PROVE  Books'
<1> SUFFICES ASSUME NEW t \in Token, seeded'[t], suspect'[t] = {}
             PROVE  UpToDate(t, book[t], next[t])'
  BY DEF Books
<1> USE BoundAssumption
<1>1. /\ book' = book /\ next' = next /\ seeded' = seeded /\ suspect' = suspect
      /\ venue' = [venue EXCEPT ![q] = venue[q] + 1]
  BY DEF Change, bookVars, wireVars
<1>2. UpToDate(t, book[t], next[t])
  BY <1>1 DEF Books
<1>3. venue[t] \in Nat /\ venue'[t] \in Nat /\ venue[t] <= venue'[t]
  BY <1>1, SMTT(30) DEF TypeOK, Version
<1>4. \A v \in 0..venue[t] : hist'[t][v] = hist[t][v]
  <2>1. PICK new : hist' = [hist EXCEPT ![q][venue[q] + 1] = new]
    BY DEF Change
  <2>2. \A v \in 0..venue[t] : t = q => v # venue[q] + 1
    BY <1>3
  <2> QED BY <2>1, <2>2 DEF TypeOK
<1>5. next[t] \in Nat /\ next[t] - 1 \in 0..venue[t]
  <2>1. next[t] \in 1..(MaxVersion + 1) /\ next[t] <= venue[t] + 1 /\ venue[t] \in Nat
    BY DEF TypeOK, Wire, Version
  <2> QED BY <2>1
<1> SUFFICES ASSUME NEW l \in Level
             PROVE  \/ book[t][l] = hist'[t][next[t] - 1][l]
                    \/ book[t][l] \in next[t]..venue'[t] /\ hist'[t][book[t][l]][l] = book[t][l]
  BY <1>1 DEF UpToDate, WrittenBy
<1>6. CASE book[t][l] = hist[t][next[t] - 1][l]
  BY <1>4, <1>5, <1>6
<1>7. CASE book[t][l] \in next[t]..venue[t] /\ hist[t][book[t][l]][l] = book[t][l]
  <2>1. book[t][l] \in next[t]..venue'[t] /\ book[t][l] \in 0..venue[t]
    BY <1>3, <1>5, <1>7
  <2> QED BY <1>4, <1>7, <2>1
<1> QED BY <1>2, <1>6, <1>7 DEF UpToDate, WrittenBy

\* A delivered change brings its level to the wire's position, and the others
\* stay where they were or ahead.
LEMMA BooksPriceChange ==
  ASSUME TypeOK, History, Wire, Books, NEW q \in Token, OnPriceChange(q)
  PROVE  Books'
<1> SUFFICES ASSUME NEW t \in Token, seeded'[t], suspect'[t] = {}
             PROVE  UpToDate(t, book[t], next[t])'
  BY DEF Books
<1> USE BoundAssumption
<1>1. /\ venueVars' = venueVars /\ seeded' = seeded /\ suspect' = suspect
      /\ next' = [next EXCEPT ![q] = next[q] + 1] /\ next[q] <= venue[q]
  BY DEF OnPriceChange, venueVars
<1>2. UpToDate(t, book[t], next[t])
  BY <1>1 DEF Books
<1>3. CASE t # q
  <2>1. book'[t] = book[t] /\ next'[t] = next[t]
    BY <1>1, <1>3 DEF OnPriceChange, ApplyChange, BufferChange, DropChange, TypeOK
  <2> QED BY <1>1, <1>2, <2>1, StillUpToDate
<1>4. CASE t = q
  <2> DEFINE v == next[t]
  <2>1. ApplyChange(t)
    BY <1>1, <1>4 DEF OnPriceChange, BufferChange, DropChange
  <2>2. book'[t] = [l \in Level |-> IF hist[t][v][l] = v THEN v ELSE book[t][l]]
    BY <2>1 DEF ApplyChange, TypeOK
  <2>3. next'[t] = v + 1 /\ v \in 1..venue[t] /\ v \in Nat /\ venue[t] \in Nat
    BY <1>1, <1>4 DEF TypeOK, Version
  <2> HIDE DEF v
  <2>4. ASSUME NEW l \in Level
        PROVE  \/ book'[t][l] = hist[t][v][l]
               \/ book'[t][l] \in (v + 1)..venue[t] /\ hist[t][book'[t][l]][l] = book'[t][l]
    <3>1. CASE hist[t][v][l] = v
      BY <2>2, <3>1
    <3>2. CASE hist[t][v][l] # v
      <4>1. book'[t][l] = book[t][l]
        BY <2>2, <3>2
      <4>2. hist[t][v][l] = hist[t][v - 1][l]
        <5>1. v \in 0..venue[t] /\ v - 1 \in 0..v
          BY <2>3
        <5>2. hist[t][v][l] <= v /\ hist[t][v][l] \in Int
          <6>1. v \in Version
            BY <2>3 DEF TypeOK, Version
          <6>2. hist[t][v] \in [Level -> Version]
            BY <6>1 DEF TypeOK, Book
          <6> QED BY <5>1, <6>2 DEF History, Version
        <5>3. hist[t][v][l] <= v - 1
          BY <2>3, <3>2, <5>2
        <5> QED BY <5>1, <5>3 DEF History
      <4>3. CASE book[t][l] = hist[t][v - 1][l]
        BY <4>1, <4>2, <4>3
      <4>4. CASE book[t][l] \in v..venue[t] /\ hist[t][book[t][l]][l] = book[t][l]
        <5>1. book[t][l] # v
          BY <3>2, <4>4
        <5> QED BY <2>3, <4>1, <4>4, <5>1
      <4> QED BY <1>2, <4>3, <4>4 DEF UpToDate, WrittenBy, v
    <3> QED BY <3>1, <3>2
  <2>5. UpToDate(t, book'[t], v + 1)
    <3>1. (v + 1) - 1 = v
      BY <2>3
    <3> QED BY <2>4, <3>1 DEF UpToDate, WrittenBy
  <2> QED BY <1>1, <2>3, <2>5, StillUpToDate
<1> QED BY <1>3, <1>4

\* A seed nothing happened to, or a repair with nothing buffered and a snapshot
\* that is not late, installs a book that is up to date.
LEMMA BooksInstall ==
  ASSUME TypeOK, History, Wire, Seeds, Books, NEW f \in Fetch, FinishSeed(f) \/ FinishReconcile(f)
  PROVE  Books'
<1> SUFFICES ASSUME NEW t \in Token, seeded'[t], suspect'[t] = {}
             PROVE  UpToDate(t, book[t], next[t])'
  BY DEF Books
<1> USE BoundAssumption
<1>1. venueVars' = venueVars /\ next' = next
  BY DEF FinishSeed, FinishReconcile, venueVars, wireVars
<1>2. ASSUME NEW S \in SUBSET Found(f), Install(f, S), t \notin S, suspect'[t] = suspect[t]
      PROVE  UpToDate(t, book[t], next[t])'
  <2>1. book'[t] = book[t] /\ seeded[t]
    BY <1>2 DEF Install
  <2>2. UpToDate(t, book[t], next[t])
    BY <1>2, <2>1 DEF Books
  <2> QED BY <1>1, <2>1, <2>2, StillUpToDate
<1>3. ASSUME NEW S \in SUBSET Found(f), Install(f, S), t \in S,
             \A v \in pend[t] : v..(next[t] - 1) \subseteq pend[t],
             (fetch[f].got[t] + 1)..(next[t] - 1) \subseteq pend[t]
      PROVE  UpToDate(t, book[t], next[t])'
  <2> DEFINE s == fetch[f].got[t]
  <2>1. s \in Version /\ s <= venue[t]
    BY <1>3, FoundType DEF Wire
  <2>2. UpToDate(t, Installed(t, s), next[t])
    BY <1>3, <2>1, InstallUpToDate
  <2>3. book'[t] = Installed(t, s)
    BY <1>3 DEF Install
  <2> QED BY <1>1, <2>2, <2>3, StillUpToDate
<1>4. CASE FinishSeed(f)
  <2>1. Install(f, Found(f)) /\ IsSeed(f)
        /\ suspect'[t] = IF t \in Found(f) THEN fetch[f].taint[t] ELSE suspect[t]
    BY <1>4 DEF FinishSeed
  <2>2. CASE t \in Found(f)
    <3>1. Clean(f, t) /\ fetch[f].got[t] >= 0
      BY <2>1, <2>2 DEF Clean, InFlight, Found
    <3>2. Buffered(f, t)
      BY <3>1 DEF Seeds
    <3> QED BY <1>3, <2>1, <2>2, <3>1, <3>2 DEF Buffered
  <2>3. CASE t \notin Found(f)
    BY <1>2, <2>1, <2>3
  <2> QED BY <2>2, <2>3
<1>5. CASE FinishReconcile(f)
  <2>1. /\ Install(f, Repaired(f)) /\ Repaired(f) \in SUBSET Found(f)
        /\ suspect'[t] = IF t \notin Repaired(f) THEN suspect[t]
                         ELSE fetch[f].taint[t]
                              \cup (IF fetch[f].got[t] < next[t] - 1 THEN suspect[t] \cup {"late"} ELSE {})
                              \cup (IF pend[t] # {} THEN {"push"} ELSE {})
    BY <1>5, FoundType DEF FinishReconcile
  <2>2. CASE t \in Repaired(f)
    <3>1. pend[t] = {} /\ ~(fetch[f].got[t] < next[t] - 1)
      BY <2>1, <2>2
    <3>2. fetch[f].got[t] \in Int /\ next[t] \in Int
      <4>1. fetch[f].got[t] \in Version
        BY <2>1, <2>2, FoundType
      <4>2. next[t] \in 1..(MaxVersion + 1)
        BY DEF TypeOK
      <4> QED  BY <4>1, <4>2 DEF Version
    <3>3. (fetch[f].got[t] + 1)..(next[t] - 1) = {}
      BY <3>1, <3>2
    <3> QED BY <1>3, <2>1, <2>2, <3>1, <3>3
  <2>3. CASE t \notin Repaired(f)
    BY <1>2, <2>1, <2>3
  <2> QED BY <2>2, <2>3
<1> QED BY <1>4, <1>5

LEMMA BooksStep ==
  ASSUME TypeOK, History, Wire, Seeds, Books, [Next]_vars
  PROVE  Books'
<1> USE BoundAssumption
<1>1. ASSUME venueVars' = venueVars,
             \A t \in Token : seeded'[t] /\ suspect'[t] = {} =>
               \/ /\ seeded[t] /\ suspect[t] = {}
                  /\ book'[t] = book[t] /\ next'[t] = next[t]
               \/ UpToDate(t, book'[t], next[t]) /\ next'[t] = next[t]
      PROVE  Books'
  <2> SUFFICES ASSUME NEW t \in Token, seeded'[t], suspect'[t] = {}
               PROVE  UpToDate(t, book[t], next[t])'
    BY DEF Books
  <2>1. UpToDate(t, book'[t], next[t]) /\ next'[t] = next[t]
    BY <1>1 DEF Books
  <2> QED BY <1>1, <2>1, StillUpToDate
<1>2. ASSUME NEW sh \in Shard, Subscribed(sh) PROVE Books'
  <2>1. /\ venueVars' = venueVars /\ book' = book /\ seeded' = seeded
        /\ \A t \in Token : suspect'[t] = {} /\ seeded[t] =>
             suspect[t] = {} /\ next'[t] = next[t]
    BY <1>2 DEF Subscribed, venueVars
  <2> QED BY <1>1, <2>1
<1>3. ASSUME NEW q \in Token, Lose(q) PROVE Books'
  <2>1. /\ venueVars' = venueVars /\ book' = book /\ seeded' = seeded
        /\ \A t \in Token : suspect'[t] = {} => suspect[t] = {} /\ next'[t] = next[t]
    BY <1>3 DEF Lose, venueVars, TypeOK
  <2> QED BY <1>1, <2>1
<1>4. ASSUME NEW q \in Token, OnBook(q) PROVE Books'
  <2>1. /\ venueVars' = venueVars /\ next' = next
        /\ book' = [book EXCEPT ![q] = hist[q][next[q] - 1]]
        /\ seeded' = [seeded EXCEPT ![q] = TRUE] /\ suspect' = [suspect EXCEPT ![q] = {}]
    BY <1>4 DEF OnBook, venueVars, wireVars
  <2>2. UpToDate(q, hist[q][next[q] - 1], next[q])
    BY DEF UpToDate
  <2> QED BY <1>1, <2>1, <2>2 DEF TypeOK
<1>5. ASSUME (Stop \/ \E sh \in Shard : Connect(sh) \/ OpenFirst(sh) \/ SocketLost(sh))
             \/ (\E f \in Fetch, t \in Token : ReadBook(f, t) \/ ReadMissing(f, t))
             \/ (\E f \in Fetch : FailSeed(f) \/ ReconcileStart(f) \/ FailReconcile(f))
             \/ UNCHANGED vars
      PROVE  Books'
  <2>1. venueVars' = venueVars /\ next' = next /\ bookVars' = bookVars
    BY <1>5 DEF Stop, Connect, OpenFirst, SocketLost, ReadBook, ReadMissing, FailSeed,
                ReconcileStart, FailReconcile, wireVars, vars
  <2> QED BY <1>1, <2>1, SMTT(30) DEF bookVars
<1>6. ASSUME NEW sh \in Shard, OpenAgain(sh) PROVE Books'
  <2>1. /\ venueVars' = venueVars /\ next' = next /\ book' = book /\ suspect' = suspect
        /\ \A t \in Token : seeded'[t] => seeded[t]
    BY <1>6 DEF OpenAgain, venueVars, wireVars
  <2> QED BY <1>1, <2>1
<1>7. ASSUME NEW W \in SUBSET Token, Start(W) PROVE Books'
  BY <1>7 DEF Start, Books
<1> QED BY <1>2, <1>3, <1>4, <1>5, <1>6, <1>7, BooksChange, BooksPriceChange, BooksInstall
        DEF Next, Venue, Feed, Rest

-----------------------------------------------------------------------------
(* What listeners are not told *)

LEMMA UnheardInit == Init => Unheard
BY DEF Init, Unheard

\* What an install without replay leaves unheard is the snapshot it came from.
LEMMA UnheardInstall ==
  ASSUME TypeOK, Unheard, NEW f \in Fetch, NEW S \in SUBSET Found(f), Install(f, S),
         hist' = hist
  PROVE  Unheard'
<1> SUFFICES ASSUME NEW t \in unheard', seeded'[t]
             PROVE  hashes'[t][1] >= 0 /\ book'[t] = hist[t][hashes'[t][1]]
  BY DEF Unheard
<1>1. t \in Token
  BY FoundType DEF Install, TypeOK
<1>2. CASE t \notin S
  BY <1>1, <1>2 DEF Install, Unheard
<1>3. CASE t \in S
  <2> DEFINE s == fetch[f].got[t]
  <2>1. s \in Version /\ s >= 0
    BY <1>3, FoundType DEF Version
  <2>2. Replayed(t, s) = {}
    BY <1>3 DEF Install
  <2>3. hashes'[t] = InstalledHashes(t, s) /\ book'[t] = Installed(t, s)
    BY <1>1, <1>3 DEF Install
  <2> HIDE DEF s
  <2>4. hashes'[t][1] = s
    BY <1>1, <2>1, <2>2, <2>3, InstalledHash
  <2>5. Installed(t, s) = hist[t][s]
    <3>1. hist[t][s] \in [Level -> Version]
      BY <1>1, <2>1 DEF TypeOK, Book
    <3>2. Installed(t, s) = [l \in Level |-> hist[t][s][l]]
      BY <2>2 DEF Installed, Replay
    <3> QED BY <3>1, <3>2
  <2> QED BY <2>1, <2>3, <2>4, <2>5
<1> QED BY <1>2, <1>3

LEMMA UnheardStep ==
  ASSUME TypeOK, Wire, Unheard, [Next]_vars
  PROVE  Unheard'
<1>1. ASSUME hist' = hist, \A t \in Token : t \in unheard' /\ seeded'[t] =>
               t \in unheard /\ seeded[t] /\ book'[t] = book[t] /\ hashes'[t] = hashes[t],
             unheard' \in SUBSET Token
      PROVE  Unheard'
  BY <1>1 DEF Unheard
<1>2. ASSUME NEW q \in Token, NEW l \in Level, Change(q, l) PROVE Unheard'
  <2>1. bookVars' = bookVars
    BY <1>2 DEF Change
  <2>2. ASSUME NEW t \in unheard, hashes[t][1] >= 0
        PROVE  hist'[t][hashes[t][1]] = hist[t][hashes[t][1]]
    <3>1. t \in Token /\ hashes[t][1] \in Int /\ venue[t] \in Nat
      BY BoundAssumption, SMTT(30) DEF TypeOK, Version, Nobody
    <3>2. PICK new : hist' = [hist EXCEPT ![q][venue[q] + 1] = new]
      BY <1>2 DEF Change
    <3>3. t = q => hashes[t][1] # venue[q] + 1
      BY <3>1 DEF Wire
    <3> QED BY <3>1, <3>2, <3>3 DEF TypeOK
  <2> QED BY <2>1, <2>2 DEF Unheard, bookVars
<1>3. ASSUME NEW q \in Token, OnPriceChange(q) PROVE Unheard'
  <2>1. hist' = hist /\ seeded' = seeded
    BY <1>3 DEF OnPriceChange, venueVars
  <2>2. CASE ApplyChange(q)
    <3>1. unheard' = unheard \ {q}
          /\ \A t \in Token : t # q => book'[t] = book[t] /\ hashes'[t] = hashes[t]
      BY <2>2 DEF ApplyChange, TypeOK
    <3> QED BY <1>1, <2>1, <3>1 DEF TypeOK
  <2>3. CASE BufferChange(q) \/ DropChange(q)
    <3>1. unheard' = unheard /\ book' = book /\ hashes' = hashes
      BY <2>3 DEF BufferChange, DropChange
    <3> QED BY <1>1, <2>1, <3>1 DEF TypeOK
  <2> QED BY <1>3, <2>2, <2>3 DEF OnPriceChange
<1>4. ASSUME NEW q \in Token, OnBook(q) PROVE Unheard'
  <2>1. /\ hist' = hist /\ unheard' = unheard \ {q}
        /\ \A t \in Token : t # q => /\ seeded'[t] = seeded[t]
                                     /\ book'[t] = book[t] /\ hashes'[t] = hashes[t]
    BY <1>4 DEF OnBook, venueVars, TypeOK
  <2> QED BY <1>1, <2>1 DEF TypeOK
<1>5. ASSUME NEW f \in Fetch, FinishSeed(f) \/ FinishReconcile(f) PROVE Unheard'
  <2>1. hist' = hist /\ (Install(f, Found(f)) \/ Install(f, Repaired(f)))
    BY <1>5 DEF FinishSeed, FinishReconcile, venueVars
  <2> QED BY <2>1, FoundType, UnheardInstall
<1>6. ASSUME NEW W \in SUBSET Token, Start(W) PROVE Unheard'
  BY <1>6 DEF Start, Unheard, TypeOK
<1>7. ASSUME NEW sh \in Shard, OpenAgain(sh) PROVE Unheard'
  <2>1. /\ hist' = hist /\ book' = book /\ hashes' = hashes /\ unheard' = unheard
        /\ \A t \in Token : seeded'[t] => seeded[t]
    BY <1>7 DEF OpenAgain, venueVars
  <2> QED BY <1>1, <2>1 DEF TypeOK
<1>8. ASSUME \/ UNCHANGED vars
             \/ Stop \/ \E sh \in Shard : Subscribed(sh) \/ Connect(sh) \/ OpenFirst(sh) \/ SocketLost(sh)
             \/ \E t \in Token : Lose(t)
             \/ \E f \in Fetch, t \in Token : ReadBook(f, t) \/ ReadMissing(f, t)
             \/ \E f \in Fetch : FailSeed(f) \/ ReconcileStart(f) \/ FailReconcile(f)
      PROVE  Unheard'
  <2>1. hist' = hist /\ book' = book /\ hashes' = hashes /\ unheard' = unheard /\ seeded' = seeded
    BY <1>8 DEF vars, Stop, Subscribed, Connect, OpenFirst, SocketLost, Lose, ReadBook, ReadMissing,
                FailSeed, ReconcileStart, FailReconcile, venueVars, bookVars
  <2> QED BY <1>1, <2>1 DEF TypeOK
<1> QED BY <1>2, <1>3, <1>4, <1>5, <1>6, <1>7, <1>8 DEF Next, Venue, Feed, Rest

-----------------------------------------------------------------------------
(* The theorems *)

LEMMA FeedInit == Init => FeedInv
<1>1. Init => Sockets
  BY DEF Init, Sockets
<1> QED BY <1>1, TypeInit, HistoryInit, WireInit, SeedsInit, BooksInit, UnheardInit DEF FeedInv

LEMMA FeedStep ==
  ASSUME FeedInv, [Next]_vars
  PROVE  FeedInv'
BY TypeNext, HistoryStep, WireStep, SocketsStep, SeedsStep, BooksStep, UnheardStep DEF FeedInv

\* A book that is up to date shows the last write of every level, if that has
\* been delivered.
LEMMA UpToDateShows ==
  ASSUME TypeOK, History, Wire, NEW t \in Token, NEW l \in Level,
         UpToDate(t, book[t], next[t]), hist[t][venue[t]][l] < next[t]
  PROVE  book[t][l] = hist[t][venue[t]][l]
<1> DEFINE last == hist[t][venue[t]][l]
<1>1. venue[t] \in Nat /\ next[t] \in Nat \ {0} /\ next[t] - 1 \in 0..venue[t] /\ venue[t] \in 0..venue[t]
  BY BoundAssumption DEF TypeOK, Wire, Version
<1>2. last \in Nat /\ last < next[t]
  <2>1. venue[t] \in Version
    BY DEF TypeOK
  <2>2. hist[t][venue[t]] \in [Level -> Version]
    BY <2>1 DEF TypeOK, Book
  <2>3. hist[t][venue[t]][l] \in Version
    BY <2>2
  <2>4. last < next[t]
    OBVIOUS
  <2> QED BY <2>3, <2>4, BoundAssumption DEF Version
<1> HIDE DEF last
<1>3. hist[t][next[t] - 1][l] = last
  <2>1. last <= next[t] - 1
    BY <1>1, <1>2
  <2> QED BY <1>1, <2>1 DEF History, last
<1>4. ~(book[t][l] \in next[t]..venue[t] /\ WrittenBy(t, book[t][l], l))
  <2> SUFFICES ASSUME book[t][l] \in next[t]..venue[t], WrittenBy(t, book[t][l], l) PROVE FALSE
    OBVIOUS
  <2>1. book[t][l] \in 0..venue[t]
    BY <1>1
  <2>2. hist[t][book[t][l]][l] <= last
    BY <1>1, <2>1 DEF History, last
  <2> QED BY <1>1, <1>2, <2>2 DEF WrittenBy
<1> QED BY <1>3, <1>4 DEF UpToDate, last

\* A book nothing on the list of causes happened to misses no delivered update:
\* whatever seeds, reseeds, repairs and pushes overlap, buffering while a seed is in
\* flight and replaying by timestamp bring every level to the wire's position or beyond.
THEOREM NothingIsLost == Spec => []NoLostUpdate
<1>1. FeedInv => NoLostUpdate
  <2> SUFFICES ASSUME FeedInv, NEW t \in Token, NEW l \in Level, seeded[t], suspect[t] = {},
                      hist[t][venue[t]][l] < next[t]
               PROVE  book[t][l] = hist[t][venue[t]][l]
    BY DEF NoLostUpdate, NoLostUpdateExcept
  <2>1. UpToDate(t, book[t], next[t])
    BY DEF FeedInv, Books
  <2> QED BY <2>1, UpToDateShows DEF FeedInv
<1> QED BY <1>1, FeedInit, FeedStep, PTL DEF Spec

\* A readable book that listeners were not told of is the venue's book with the newest hash
\* known: only a snapshot on which nothing was replayed goes unannounced.
THEOREM SnapshotsOnlyUnheard == Spec => []OnlySnapshotsUnheard
<1>1. FeedInv => OnlySnapshotsUnheard
  BY DEF FeedInv, Unheard, OnlySnapshotsUnheard
<1> QED BY <1>1, FeedInit, FeedStep, PTL DEF Spec

=============================================================================
