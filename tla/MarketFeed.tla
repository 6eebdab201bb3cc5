----------------------------- MODULE MarketFeed -----------------------------
(***************************************************************************)
(* The market feed of src/polymarket/ws.ts: in-memory order books kept by   *)
(* a sharded WebSocket subscription, seeded and repaired from REST.         *)
(*                                                                         *)
(* The venue's history of a token is a numbered list of level changes.     *)
(* Version v of a book maps every price level to the number of the change  *)
(* that last wrote it (0: untouched), so a version number plays the part   *)
(* of the book's hash and two books are equal iff their levels are.  The   *)
(* size a change carries is absolute, which is what makes the last writer  *)
(* of a level all there is to know about it; a size of 0 is one more value. *)
(***************************************************************************)
EXTENDS Integers, Sequences, FiniteSets

CONSTANTS
  Token,        \* outcome tokens
  Level,        \* price levels of a book, both sides together
  Shard,        \* subscription shards, one socket each
  ShardOf,      \* the shard that carries a token
  Fetch,        \* slots for REST fetches in flight (bounds their number)
  TokenOrder,   \* insertion order of #books
  Limit,        \* reconcile's batch size
  HashHistory,  \* HASH_HISTORY
  CursorWrap,   \* a common multiple of 1..|Token|: wraps the cursor
  MaxVersion,   \* bound: changes the venue makes to one token
  MaxFaults,    \* bound: lost sockets and failed fetches, together
  MaxStarts,    \* bound: calls of start()
  StampSteps,   \* how far the venue's clock may move between two changes
  Lossy,        \* may the venue leave a change undelivered?
  Pushes        \* may the venue push whole books?

ASSUME TokenAssumption ==
  /\ IsFiniteSet(Token)
  /\ ShardOf \in [Token -> Shard]
  /\ TokenOrder \in Seq(Token)
  /\ {TokenOrder[i] : i \in DOMAIN TokenOrder} = Token

ASSUME BoundAssumption ==
  /\ MaxVersion \in Nat /\ MaxFaults \in Nat /\ MaxStarts \in Nat
  /\ StampSteps \subseteq Nat
  /\ HashHistory \in Nat \ {0} /\ Limit \in Nat \ {0} /\ CursorWrap \in Nat \ {0}
  /\ {Lossy, Pushes} \subseteq BOOLEAN

VARIABLES
  venue,    \* the venue: newest version of each token
  hist,     \* the venue: the book at each version
  stamp,    \* the venue: millisecond timestamp of each version
  live,     \* the venue: does the shard's subscription deliver?
  next,     \* the wire: next change of a token the socket delivers
  stopped,  \* #stopped
  socket,   \* Shard.socket and Shard.connected
  retried,  \* Shard.attempt > 0
  held,     \* domain of #books
  book,     \* LiveBook.bids / asks
  seeded,   \* LiveBook.seededAt !== null
  hashes,   \* LiveBook.hashes, newest first; LiveBook.hash is the newest
  pend,     \* #pendingChanges
  seeding,  \* #seedingTokens
  parked,   \* #unrecognised
  hints,    \* #resyncQueue
  cursor,   \* #cursor
  fetch,    \* clob.fetchBooks calls awaited by seed() and reconcile()
  unheard,  \* tokens whose book changed since listeners were last called
  suspect,  \* history: what happened to a book that may have cost it updates
  faults,   \* history: faults so far
  starts    \* history: calls of start() so far

venueVars == <<venue, hist, stamp>>
wireVars  == <<live, next>>
sockVars  == <<stopped, socket, retried>>
bookVars  == <<held, book, seeded, hashes, suspect, unheard>>
seedVars  == <<pend, seeding>>
recVars   == <<parked, hints, cursor>>
vars == <<venueVars, wireVars, sockVars, bookVars, seedVars, recVars,
          fetch, faults, starts>>

Version == 0..MaxVersion
Book    == [Level -> Version]
Cause   == {"gap", "overlap", "push", "loss", "late"}

\* What a fetch has learned of a token; Nobody is "nothing parked".
Unread  == -1
Missing == -2
Nobody  == -1

Idle == [kind |-> "idle", wanted |-> {}, got |-> [t \in Token |-> Unread],
         taint |-> [t \in Token |-> {}]]

IsSeed(f) == fetch[f].kind \in {"start", "reseed"}
InFlight(f, t) == IsSeed(f) /\ t \in fetch[f].wanted
Assets(sh) == {t \in held : ShardOf[t] = sh}

EmptyBook == [l \in Level |-> 0]
NoHashes == [i \in 1..HashHistory |-> Nobody]

Init ==
  /\ venue   = [t \in Token |-> 0]
  /\ hist    = [t \in Token |-> [v \in Version |-> EmptyBook]]
  /\ stamp   = [t \in Token |-> [v \in Version |-> 1]]
  /\ live    = [sh \in Shard |-> FALSE]
  /\ next    = [t \in Token |-> 1]
  /\ stopped = FALSE
  /\ socket  = [sh \in Shard |-> "none"]
  /\ retried = [sh \in Shard |-> FALSE]
  /\ held    = {}
  /\ book    = [t \in Token |-> EmptyBook]
  /\ seeded  = [t \in Token |-> FALSE]
  /\ hashes  = [t \in Token |-> NoHashes]
  /\ pend    = [t \in Token |-> {}]
  /\ seeding = {}
  /\ parked  = [t \in Token |-> Nobody]
  /\ hints   = {}
  /\ cursor  = 0
  /\ fetch   = [f \in Fetch |-> Idle]
  /\ unheard = {}
  /\ suspect = [t \in Token |-> {}]
  /\ faults  = 0
  /\ starts  = 0

-----------------------------------------------------------------------------
(* LiveBook *)

\* Variant: noteHash never forgets.
NotedForever(q, v) ==
  [i \in 1..(Cardinality(DOMAIN q) + 1) |-> IF i = 1 THEN v ELSE q[i - 1]]

\* noteHash: in at the new end, out at the old one.
Noted(q, v) == [i \in 1..HashHistory |-> IF i = 1 THEN v ELSE q[i - 1]]

KnowsHash(t, v) == \E i \in 1..HashHistory : hashes[t][i] = v
HashOf(t) == hashes[t][1]

\* The book b after the changes S of token t, applied in the order they came.
Replay(t, b, S) ==
  [l \in Level |->
     LET W == {v \in S : hist[t][v][l] = v} IN
     IF W = {} THEN b[l] ELSE CHOOSE v \in W : \A w \in W : w <= v]

\* Variant: drainPending also skips a change made in the snapshot's millisecond.
ReplayedStrictly(t, s) == {v \in pend[t] : stamp[t][v] > stamp[t][s]}

\* drainPending skips a buffered change older than the snapshot.
Replayed(t, s) == {v \in pend[t] : stamp[t][v] >= stamp[t][s]}

Installed(t, s) == Replay(t, hist[t][s], Replayed(t, s))

\* Variant: install keeps the hashes of the book it replaces.
InstalledHashesKept(t, s) ==
  [i \in 1..HashHistory |-> IF i = 1 THEN s ELSE hashes[t][i - 1]]

\* The snapshot's hash, then those of the changes replayed on it.
InstalledHashes(t, s) ==
  LET R == Replayed(t, s)
      Newer(v) == Cardinality({w \in R : w > v}) IN
  [i \in 1..HashHistory |->
     IF \E v \in R : Newer(v) = i - 1 THEN CHOOSE v \in R : Newer(v) = i - 1
     ELSE IF Cardinality(R) = i - 1 THEN s ELSE Nobody]

-----------------------------------------------------------------------------
(* History: causes a book may have lost updates for *)

\* Every fetch, with a cause added for the tokens in D[f].
Tainted(D, cause) ==
  [f \in Fetch |-> [fetch[f] EXCEPT !.taint =
     [t \in Token |-> IF t \in D[f] THEN fetch[f].taint[t] \cup {cause}
                                    ELSE fetch[f].taint[t]]]]

SeedsOf(S) == [f \in Fetch |-> IF IsSeed(f) THEN fetch[f].wanted \cap S ELSE {}]
ReadOf(S)  == [f \in Fetch |-> {t \in fetch[f].wanted \cap S : fetch[f].got[t] >= 0}]

\* The fetches after a seed of W begins in slot f.  A seed that shares a token
\* with another, or finds the token's buffer in use, is marked.
Seeding(f, kind, W) ==
  [Tainted(SeedsOf(W), "overlap") EXCEPT ![f] =
     [kind |-> kind, wanted |-> W, got |-> [t \in Token |-> Unread],
      taint |-> [t \in Token |->
        (IF t \in W /\ \E g \in Fetch : InFlight(g, t) THEN {"overlap"} ELSE {})
        \cup (IF t \in W /\ pend[t] # {} THEN {"push"} ELSE {})]]]

-----------------------------------------------------------------------------
(* The venue *)

Change(t, l) ==
  LET v == venue[t] + 1 IN
  /\ v <= MaxVersion
  /\ venue' = [venue EXCEPT ![t] = v]
  /\ hist'  = [hist EXCEPT ![t][v] = [hist[t][v - 1] EXCEPT ![l] = v]]
  /\ \E d \in StampSteps : stamp' = [stamp EXCEPT ![t][v] = stamp[t][v - 1] + d]
  /\ UNCHANGED <<wireVars, sockVars, bookVars, seedVars, recVars, fetch, faults, starts>>

\* The venue acts on a shard's subscribe message: from now on it delivers.
\* What it changed before is never replayed.
Subscribed(sh) ==
  /\ socket[sh] = "open" /\ ~live[sh]
  /\ live' = [live EXCEPT ![sh] = TRUE]
  /\ next' = [t \in Token |-> IF t \in Assets(sh) THEN venue[t] + 1 ELSE next[t]]
  /\ fetch' = Tainted(ReadOf(Assets(sh)), "gap")
  /\ suspect' = [t \in Token |-> IF t \in Assets(sh) /\ seeded[t]
                                   THEN suspect[t] \cup {"gap"} ELSE suspect[t]]
  /\ UNCHANGED <<venueVars, sockVars, held, book, seeded, hashes, unheard,
                 seedVars, recVars, faults, starts>>

\* Delivery thins out under load: a change that never arrives.
Lose(t) ==
  /\ Lossy /\ t \in held /\ live[ShardOf[t]] /\ next[t] <= venue[t]
  /\ next' = [next EXCEPT ![t] = @ + 1]
  /\ fetch' = Tainted(SeedsOf({t}), "loss")
  /\ suspect' = [suspect EXCEPT ![t] = @ \cup {"loss"}]
  /\ UNCHANGED <<venueVars, live, sockVars, held, book, seeded, hashes, unheard,
                 seedVars, recVars, faults, starts>>

-----------------------------------------------------------------------------
(* Messages *)

\* checkTop queues a book whose top trails the venue's for reconciliation; a
\* book equal to the venue's cannot.
Hinted(t, b) == IF b = hist[t][venue[t]] THEN {hints} ELSE {hints, hints \cup {t}}

\* onPriceChange on a seeded book.
ApplyChange(t) ==
  LET v == next[t]
      b == [l \in Level |-> IF hist[t][v][l] = v THEN v ELSE book[t][l]] IN
  /\ seeded[t]
  /\ book' = [book EXCEPT ![t] = b]
  /\ hashes' = [hashes EXCEPT ![t] = Noted(@, v)]
  /\ unheard' = unheard \ {t}
  /\ hints' \in Hinted(t, b)
  /\ UNCHANGED pend

\* onPriceChange on an unseeded book: buffered while a seed is in flight.
BufferChange(t) ==
  /\ ~seeded[t] /\ t \in seeding
  /\ pend' = [pend EXCEPT ![t] = @ \cup {next[t]}]
  /\ UNCHANGED <<book, hashes, unheard, hints>>

\* onPriceChange on an unseeded book nobody is seeding: dropped and counted.
DropChange(t) ==
  /\ ~seeded[t] /\ t \notin seeding
  /\ UNCHANGED <<book, hashes, unheard, hints, pend>>

OnPriceChange(t) ==
  /\ t \in held /\ live[ShardOf[t]] /\ next[t] <= venue[t]
  /\ next' = [next EXCEPT ![t] = @ + 1]
  /\ ApplyChange(t) \/ BufferChange(t) \/ DropChange(t)
  /\ UNCHANGED <<venueVars, live, sockVars, held, seeded, suspect, seeding,
                 parked, cursor, fetch, faults, starts>>

\* onBook: a whole book pushed at the wire's position becomes the base.
OnBook(t) ==
  /\ Pushes /\ t \in held /\ live[ShardOf[t]]
  /\ book' = [book EXCEPT ![t] = hist[t][next[t] - 1]]
  /\ seeded' = [seeded EXCEPT ![t] = TRUE]
  /\ hashes' = [hashes EXCEPT ![t] = Noted(@, next[t] - 1)]
  /\ unheard' = unheard \ {t}
  /\ suspect' = [suspect EXCEPT ![t] = {}]
  /\ fetch' = Tainted(SeedsOf({t}), "push")
  /\ UNCHANGED <<venueVars, wireVars, sockVars, held, seedVars, recVars, faults, starts>>

-----------------------------------------------------------------------------
(* Sockets *)

\* tick: the backoff of a shard without a socket has run out.  An attempt that
\* throws is an opening socket that is lost.
Connect(sh) ==
  /\ ~stopped /\ socket[sh] = "none" /\ Assets(sh) # {}
  /\ socket' = [socket EXCEPT ![sh] = "opening"]
  /\ UNCHANGED <<venueVars, wireVars, stopped, retried, bookVars, seedVars,
                 recVars, fetch, faults, starts>>

\* onopen of a first connection: subscribe.
OpenFirst(sh) ==
  /\ socket[sh] = "opening" /\ ~retried[sh]
  /\ socket' = [socket EXCEPT ![sh] = "open"]
  /\ UNCHANGED <<venueVars, wireVars, stopped, retried, bookVars, seedVars,
                 recVars, fetch, faults, starts>>

\* onopen of a reconnection: subscribe and reseed the shard's books.
OpenAgain(sh) ==
  /\ socket[sh] = "opening" /\ retried[sh]
  /\ socket'  = [socket EXCEPT ![sh] = "open"]
  /\ retried' = [retried EXCEPT ![sh] = FALSE]
  /\ seeded'  = [t \in Token |-> seeded[t] /\ t \notin Assets(sh)]
  /\ seeding' = seeding \cup Assets(sh)
  /\ \E f \in Fetch : /\ fetch[f] = Idle
                      /\ fetch' = Seeding(f, "reseed", Assets(sh))
  /\ UNCHANGED <<venueVars, wireVars, stopped, held, book, hashes, suspect,
                 unheard, pend, recVars, faults, starts>>

\* onclose, or drop after silence, a failed ping or a failed subscribe.
SocketLost(sh) ==
  /\ faults < MaxFaults /\ socket[sh] # "none"
  /\ socket'  = [socket EXCEPT ![sh] = "none"]
  /\ live'    = [live EXCEPT ![sh] = FALSE]
  /\ retried' = [retried EXCEPT ![sh] = TRUE]
  /\ faults'  = faults + 1
  /\ UNCHANGED <<venueVars, next, stopped, bookVars, seedVars, recVars, fetch, starts>>

\* start(W): tear down, mark every book unseeded, reconnect and seed.  The
\* caller awaits it, so no two run at once.
Start(W) ==
  /\ starts < MaxStarts
  /\ \A g \in Fetch : fetch[g].kind # "start"
  /\ stopped' = FALSE
  /\ held'    = W
  /\ book'    = [t \in Token |-> IF t \in W THEN book[t] ELSE EmptyBook]
  /\ hashes'  = [t \in Token |-> IF t \in W THEN hashes[t] ELSE NoHashes]
  /\ seeded'  = [t \in Token |-> FALSE]
  /\ socket'  = [sh \in Shard |-> IF \E t \in W : ShardOf[t] = sh
                                    THEN "opening" ELSE "none"]
  /\ retried' = [sh \in Shard |-> FALSE]
  /\ live'    = [sh \in Shard |-> FALSE]
  /\ seeding' = seeding \cup W
  /\ \E f \in Fetch : fetch[f] = Idle /\ fetch' = Seeding(f, "start", W)
  /\ starts'  = starts + 1
  /\ UNCHANGED <<venueVars, next, suspect, unheard, pend, recVars, faults>>

Stop ==
  /\ starts > 0 /\ ~stopped
  /\ stopped' = TRUE
  /\ socket' = [sh \in Shard |-> "none"]
  /\ live'   = [sh \in Shard |-> FALSE]
  /\ UNCHANGED <<venueVars, next, retried, bookVars, seedVars, recVars, fetch,
                 faults, starts>>

-----------------------------------------------------------------------------
(* REST *)

\* One batch's answer: the book as the venue has it when it answers.
ReadBook(f, t) ==
  /\ t \in fetch[f].wanted /\ fetch[f].got[t] = Unread
  /\ fetch' = [fetch EXCEPT ![f].got[t] = venue[t]]
  /\ UNCHANGED <<venueVars, wireVars, sockVars, bookVars, seedVars, recVars, faults, starts>>

ReadMissing(f, t) ==
  /\ faults < MaxFaults
  /\ t \in fetch[f].wanted /\ fetch[f].got[t] = Unread
  /\ fetch' = [fetch EXCEPT ![f].got[t] = Missing]
  /\ faults' = faults + 1
  /\ UNCHANGED <<venueVars, wireVars, sockVars, bookVars, seedVars, recVars, starts>>

Done(f) == \A t \in fetch[f].wanted : fetch[f].got[t] # Unread
Found(f) == {t \in fetch[f].wanted \cap held : fetch[f].got[t] >= 0}

\* Variant: a replay tells nobody either.
InstallSilently(f, S) ==
  LET got == fetch[f].got IN
  /\ book'   = [t \in Token |-> IF t \in S THEN Installed(t, got[t]) ELSE book[t]]
  /\ hashes' = [t \in Token |-> IF t \in S THEN InstalledHashes(t, got[t]) ELSE hashes[t]]
  /\ seeded' = [t \in Token |-> t \in S \/ seeded[t]]
  /\ unheard' = unheard \cup {t \in S : ~seeded[t] \/ Installed(t, got[t]) # book[t]}

\* install, with drainPending, for the tokens S from the snapshots of f.
Install(f, S) ==
  LET got == fetch[f].got IN
  /\ book'   = [t \in Token |-> IF t \in S THEN Installed(t, got[t]) ELSE book[t]]
  /\ hashes' = [t \in Token |-> IF t \in S THEN InstalledHashes(t, got[t]) ELSE hashes[t]]
  /\ seeded' = [t \in Token |-> t \in S \/ seeded[t]]
  /\ unheard' = (unheard \cup {t \in S : ~seeded[t] \/ Installed(t, got[t]) # book[t]})
                  \ {t \in S : Replayed(t, got[t]) # {}}

\* Variant: one flag for all seeds; the first to finish lowers it.
FinishSeedSharedFlag(f) ==
  /\ IsSeed(f) /\ Done(f)
  /\ Install(f, Found(f))
  /\ suspect' = [t \in Token |-> IF t \in Found(f) THEN fetch[f].taint[t] ELSE suspect[t]]
  /\ seeding' = {}
  /\ pend' = [t \in Token |-> IF t \in Found(f) \/ (t \in fetch[f].wanted /\ ~seeded[t])
                                THEN {} ELSE pend[t]]
  /\ fetch' = [fetch EXCEPT ![f] = Idle]
  /\ UNCHANGED <<venueVars, wireVars, sockVars, held, recVars, faults, starts>>

\* seed() resumes: install what was found, then its finally block.
FinishSeed(f) ==
  /\ IsSeed(f) /\ Done(f)
  /\ Install(f, Found(f))
  /\ suspect' = [t \in Token |-> IF t \in Found(f) THEN fetch[f].taint[t] ELSE suspect[t]]
  /\ seeding' = seeding \ fetch[f].wanted
  /\ pend' = [t \in Token |-> IF t \in Found(f) \/ (t \in fetch[f].wanted /\ ~seeded[t])
                                THEN {} ELSE pend[t]]
  /\ fetch' = [fetch EXCEPT ![f] = Idle]
  /\ UNCHANGED <<venueVars, wireVars, sockVars, held, recVars, faults, starts>>

\* fetchBooks throws: only the finally block of seed() runs.
FailSeed(f) ==
  /\ faults < MaxFaults /\ IsSeed(f)
  /\ seeding' = seeding \ fetch[f].wanted
  /\ pend' = [t \in Token |-> IF t \in fetch[f].wanted /\ ~seeded[t] THEN {} ELSE pend[t]]
  /\ fetch' = [fetch EXCEPT ![f] = Idle]
  /\ faults' = faults + 1
  /\ UNCHANGED <<venueVars, wireVars, sockVars, bookVars, recVars, starts>>

-----------------------------------------------------------------------------
(* Reconciliation *)

SeededTokens == SelectSeq(TokenOrder, LAMBDA t : t \in held /\ seeded[t])
Rotation(k) == {SeededTokens[((cursor + i) % Len(SeededTokens)) + 1] : i \in 0..(k - 1)}
HintBudget == IF Limit \div 2 = 0 THEN 1 ELSE Limit \div 2

\* reconcile: hinted tokens up to half the batch, the rotation for the rest.
ReconcileStart(f) ==
  LET n == Len(SeededTokens) IN
  /\ fetch[f] = Idle /\ ~stopped /\ n > 0
  /\ \E H \in SUBSET hints, k \in 0..Len(TokenOrder) :
       /\ Cardinality(H) = HintBudget \/ (H = hints /\ Cardinality(H) < HintBudget)
       /\ k = n \/ (k < n /\ Cardinality(H \cup Rotation(k)) >= Limit)
       /\ \A j \in 0..(k - 1) : Cardinality(H \cup Rotation(j)) < Limit
       /\ hints' = hints \ H
       /\ cursor' = (cursor + k) % CursorWrap
       /\ fetch' = [fetch EXCEPT ![f] = [Idle EXCEPT !.kind = "reconcile",
                      !.wanted = {t \in Token : t \in H \cup Rotation(k)}]]
  /\ UNCHANGED <<venueVars, wireVars, sockVars, bookVars, seedVars, parked, faults, starts>>

\* What reconcile makes of the snapshot s of a seeded token.
SameHash(t, s)  == s = HashOf(t)
Agreed(t, s)    == SameHash(t, s) /\ book[t] = hist[t][s]
Diverged(t, s)  == SameHash(t, s) /\ book[t] # hist[t][s]
Ahead(t, s)     == ~SameHash(t, s) /\ KnowsHash(t, s)
Unknown(t, s)   == ~SameHash(t, s) /\ ~KnowsHash(t, s)

Compared(f) == {t \in Found(f) : seeded[t]}
\* Variant: an unrecognised state is never taken for a missed one.
RepairedDiverged(f) == {t \in Compared(f) : Diverged(t, fetch[f].got[t])}

\* Variant: a book whose hash is the snapshot's is taken to agree with it.
RepairedUnknown(f) == {t \in Compared(f) : LET s == fetch[f].got[t] IN
                         Unknown(t, s) /\ parked[t] = s}

Repaired(f) == {t \in Compared(f) : LET s == fetch[f].got[t] IN
                  Diverged(t, s) \/ (Unknown(t, s) /\ parked[t] = s)}

FinishReconcile(f) ==
  LET got == fetch[f].got IN
  /\ fetch[f].kind = "reconcile" /\ Done(f)
  /\ Install(f, Repaired(f))
  /\ pend' = [t \in Token |-> IF t \in Repaired(f) THEN {} ELSE pend[t]]
  /\ parked' = [t \in Token |->
       IF t \notin Compared(f) THEN parked[t]
       ELSE IF Unknown(t, got[t]) /\ parked[t] # got[t] THEN got[t] ELSE Nobody]
  /\ suspect' = [t \in Token |->
       IF t \notin Repaired(f) THEN suspect[t]
       ELSE fetch[f].taint[t]
            \cup (IF got[t] < next[t] - 1 THEN suspect[t] \cup {"late"} ELSE {})
            \cup (IF pend[t] # {} THEN {"push"} ELSE {})]
  /\ fetch' = [fetch EXCEPT ![f] = Idle]
  /\ UNCHANGED <<venueVars, wireVars, sockVars, held, seeding, hints, cursor, faults, starts>>

FailReconcile(f) ==
  /\ faults < MaxFaults /\ fetch[f].kind = "reconcile"
  /\ fetch' = [fetch EXCEPT ![f] = Idle]
  /\ faults' = faults + 1
  /\ UNCHANGED <<venueVars, wireVars, sockVars, bookVars, seedVars, recVars, starts>>

-----------------------------------------------------------------------------
Venue ==
  \/ \E t \in Token, l \in Level : Change(t, l)
  \/ \E sh \in Shard : Subscribed(sh)
  \/ \E t \in Token : Lose(t)

Feed ==
  \/ \E t \in Token : OnPriceChange(t) \/ OnBook(t)
  \/ \E sh \in Shard : Connect(sh) \/ OpenFirst(sh) \/ OpenAgain(sh) \/ SocketLost(sh)
  \/ \E W \in (SUBSET Token) \ {{}} : Start(W)
  \/ Stop

Rest ==
  \/ \E f \in Fetch, t \in Token : ReadBook(f, t) \/ ReadMissing(f, t)
  \/ \E f \in Fetch : FinishSeed(f) \/ FailSeed(f) \/ ReconcileStart(f)
                      \/ FinishReconcile(f) \/ FailReconcile(f)

Next == Venue \/ Feed \/ Rest

Spec == Init /\ [][Next]_vars

\* Timers fire, sockets open, the venue answers and delivers; nothing obliges
\* the venue to change, to push or to fail, nor the caller to start or stop.
Fairness ==
  /\ \A t \in Token : WF_vars(OnPriceChange(t))
  /\ \A sh \in Shard : /\ WF_vars(Subscribed(sh)) /\ WF_vars(Connect(sh))
                       /\ WF_vars(OpenFirst(sh)) /\ SF_vars(OpenAgain(sh))
  /\ \A f \in Fetch : /\ WF_vars(\E t \in Token : ReadBook(f, t))
                      /\ WF_vars(FinishSeed(f)) /\ WF_vars(FinishReconcile(f))
  /\ WF_vars(\E f \in Fetch : ReconcileStart(f))

FairSpec == Spec /\ Fairness

-----------------------------------------------------------------------------
(* Properties *)

FetchRecord == [kind : {"idle", "start", "reseed", "reconcile"}, wanted : SUBSET Token,
                got : [Token -> Version \cup {Unread, Missing}],
                taint : [Token -> SUBSET Cause]]

\* Every variable has its type: a book holds only versions the venue can have
\* made, so install, drainPending and onBook never invent a level, and the hash
\* history never outgrows HASH_HISTORY.
TypeOK ==
  /\ venue \in [Token -> Version]
  /\ hist \in [Token -> [Version -> Book]]
  /\ stamp \in [Token -> [Version -> Nat]]
  /\ live \in [Shard -> BOOLEAN]
  /\ next \in [Token -> 1..(MaxVersion + 1)]
  /\ stopped \in BOOLEAN
  /\ socket \in [Shard -> {"none", "opening", "open"}]
  /\ retried \in [Shard -> BOOLEAN]
  /\ held \in SUBSET Token
  /\ book \in [Token -> Book]
  /\ seeded \in [Token -> BOOLEAN]
  /\ hashes \in [Token -> [1..HashHistory -> Version \cup {Nobody}]]
  /\ pend \in [Token -> SUBSET (1..MaxVersion)]
  /\ seeding \in SUBSET Token
  /\ parked \in [Token -> Version \cup {Nobody}]
  /\ hints \in SUBSET Token
  /\ cursor \in Nat
  /\ fetch \in [Fetch -> FetchRecord]
  /\ unheard \in SUBSET Token
  /\ suspect \in [Token -> SUBSET Cause]
  /\ faults \in Nat
  /\ starts \in Nat

\* No update is lost: a level whose last write is not still on the wire shows
\* that write, in every book that nothing on the list of causes happened to.
NoLostUpdateExcept(causes) ==
  \A t \in Token : \A l \in Level :
    LET last == hist[t][venue[t]][l] IN
    seeded[t] /\ suspect[t] \subseteq causes /\ last < next[t] => book[t][l] = last

NoLostUpdate == NoLostUpdateExcept({})

\* start opens the sockets first so that no update falls between the snapshot
\* and the stream (the comment on start).
SocketFirstLosesNothing == NoLostUpdateExcept({"gap"})

\* Listeners hear of every change of a book they can read (the comment on
\* BookUpdate), except of a snapshot on which nothing was replayed: a book they
\* were not told of is the state of the venue whose hash is the newest known.
OnlySnapshotsUnheard ==
  \A t \in unheard : seeded[t] => book[t] = hist[t][hashes[t][1]]

\* A readable book ends up equal to the venue's, whatever start, reseeds and
\* pushes did to it on the way: reconciliation repairs it, also where the hashes agree
\* and the levels do not, unless the feed is stopped, or the wire lost an update and
\* the hash of the venue's book is an older one of the history: the venue is then
\* taken to be behind.
Exact(t) == book[t] = hist[t][venue[t]]
TakenToBeBehind(t) == "loss" \in suspect[t] /\ Ahead(t, venue[t])
EventuallyRepaired ==
  \A t \in Token : <>[](stopped \/ ~seeded[t] \/ Exact(t) \/ TakenToBeBehind(t))

=============================================================================
