--------------------------- MODULE Liveness_proofs ---------------------------
(***************************************************************************)
(* What the watcher reports can be trusted: for any constraints and markets,  *)
(* its violating set is the truth about every constraint it has heard of.     *)
(* The dashboard never goes back in time nor asks the database twice at once,  *)
(* and a process that stops leaves every job its grace.                      *)
(***************************************************************************)
EXTENDS Liveness, FiniteSetTheorems, TLAPS

-----------------------------------------------------------------------------
(* The watcher *)

\* The variables WatcherAgrees is about, and those they are computed from.
Types ==
  /\ price \in [Market -> 0..1]
  /\ index \subseteq Key
  /\ refresh \in [at : {"none", "loading", "starting"}, loaded : SUBSET Key]
  /\ stored \subseteq Key

\* What the watcher has heard of is in its index, so a flush can screen it: without
\* this a dirty constraint would be forgotten by a flush that reports nothing of it.
HeardIsIndexed == heard \subseteq index

IInv == Types /\ HeardIsIndexed /\ WatcherAgrees

-----------------------------------------------------------------------------
\* A constraint is about a market exactly if that is one of its two members.
LEMMA MembersOf ==
  ASSUME NEW k \in Key, NEW m \in Market
  PROVE  /\ k \in Of(m) <=> (Members[k][1] = m \/ Members[k][2] = m)
         /\ Members[k][1] \in Market /\ Members[k][2] \in Market
<1>1. 1..2 = {1, 2}
  OBVIOUS
<1> QED  BY <1>1, MembersAssumption DEF Of

\* A constraint of which no member moves is violated as before.
LEMMA UnmovedVerdict ==
  ASSUME NEW k \in Key, NEW m \in Market, k \notin Of(m), Types,
         NEW p, price' = [price EXCEPT ![m] = p]
  PROVE  Violated(k)' = Violated(k)
<1>1. Members[k][1] # m /\ Members[k][2] # m
  BY MembersOf
<1>2. Members[k][1] \in Market /\ Members[k][2] \in Market
  BY MembersOf
<1>3. /\ price'[Members[k][1]] = price[Members[k][1]]
      /\ price'[Members[k][2]] = price[Members[k][2]]
  BY <1>1, <1>2 DEF Types
<1> QED  BY <1>3 DEF Violated

-----------------------------------------------------------------------------
LEMMA TypesPreserved ==
  ASSUME Types, [Next]_vars
  PROVE  Types'
<1>1. CASE UNCHANGED vars
  BY <1>1 DEF vars, Types, feed, watch
<1>2. ASSUME NEW m \in Market, Observe(m)
      PROVE  Types'
  BY <1>2 DEF Observe, Types
<1>3. ASSUME NEW m \in Market, MoveUnread(m)
      PROVE  Types'
  BY <1>3 DEF MoveUnread, Types, watch
<1>4. ASSUME NEW m \in Market, Replace(m)
      PROVE  Types'
  BY <1>4 DEF Replace, Types, watch
<1>5. CASE Tick
  BY <1>5 DEF Tick, Types, feed, watch
<1>6. CASE Flush
  BY <1>6 DEF Flush, Types, feed
<1>7. CASE StoreChanges
  BY <1>7 DEF StoreChanges, Types, watch
<1>8. CASE BeginRefresh
  BY <1>8 DEF BeginRefresh, Types, feed, watch
<1>9. CASE LoadIndex
  BY <1>9 DEF LoadIndex, Types
<1>10. CASE EndRefresh
  BY <1>10 DEF EndRefresh, Types, Idle, watch
<1>11. CASE RefreshFails
  BY <1>11 DEF RefreshFails, Types, Idle, feed, watch
<1>12. CASE Close
  BY <1>12 DEF Close, Types, watch
<1>13. CASE Schedule \/ Succeed \/ Skip \/ Fail
  BY <1>13 DEF Schedule, Succeed, Skip, Fail, Types, feed, watch
<1> QED  BY <1>1, <1>2, <1>3, <1>4, <1>5, <1>6, <1>7, <1>8, <1>9, <1>10, <1>11, <1>12,
            <1>13 DEF Next

LEMMA HeardPreserved ==
  ASSUME HeardIsIndexed, [Next]_vars
  PROVE  HeardIsIndexed'
<1>1. CASE UNCHANGED vars
  BY <1>1 DEF vars, HeardIsIndexed, watch
<1>2. ASSUME NEW m \in Market, Observe(m) \/ MoveUnread(m) \/ Replace(m)
      PROVE  HeardIsIndexed'
  BY <1>2 DEF Observe, MoveUnread, Replace, HeardIsIndexed, watch
<1>3. CASE Tick \/ Flush \/ StoreChanges \/ BeginRefresh \/ RefreshFails \/ Close
  BY <1>3 DEF Tick, Flush, StoreChanges, BeginRefresh, RefreshFails, Close, HeardIsIndexed, watch
<1>4. CASE LoadIndex \/ EndRefresh
  BY <1>4 DEF LoadIndex, EndRefresh, HeardIsIndexed, watch
<1>5. CASE Schedule \/ Succeed \/ Skip \/ Fail
  BY <1>5 DEF Schedule, Succeed, Skip, Fail, HeardIsIndexed, watch
<1> QED  BY <1>1, <1>2, <1>3, <1>4, <1>5 DEF Next

-----------------------------------------------------------------------------
\* One constraint's part of WatcherAgrees.
Agrees(k) == (k \notin dirty /\ Screenable(k)) => (k \in violating) = Violated(k)

\* Steps that touch nothing the invariant is about keep it.
LEMMA Untouched ==
  ASSUME IInv, UNCHANGED <<price, readable, dirty, violating, heard>>
  PROVE  WatcherAgrees'
  BY DEF IInv, WatcherAgrees, Screenable, Violated

\* An update marks every constraint of its market that is indexed; of the others no
\* member has moved.
LEMMA ObserveAgrees ==
  ASSUME IInv, NEW m \in Market, Observe(m)
  PROVE  WatcherAgrees'
<1> SUFFICES ASSUME NEW k \in heard', k \notin dirty', Screenable(k)'
             PROVE  (k \in violating') = Violated(k)'
  BY DEF WatcherAgrees
<1>1. k \notin index \cap Of(m) /\ k \notin dirty
  BY DEF Observe, Marked
<1>2. k \in heard /\ k \in Key /\ k \notin Of(m)
  BY <1>1 DEF Observe, IInv, HeardIsIndexed, Types
<1>3. Violated(k)' = Violated(k)
  BY <1>2, UnmovedVerdict DEF Observe, IInv
<1>4. Screenable(k) /\ violating' = violating
  BY DEF Observe, Screenable
<1> QED  BY <1>1, <1>2, <1>3, <1>4 DEF IInv, WatcherAgrees

\* A price that moves unread is that of no constraint that can be screened.
LEMMA MoveUnreadAgrees ==
  ASSUME IInv, NEW m \in Market, MoveUnread(m)
  PROVE  WatcherAgrees'
<1> SUFFICES ASSUME NEW k \in heard', k \notin dirty', Screenable(k)'
             PROVE  (k \in violating') = Violated(k)'
  BY DEF WatcherAgrees
<1>1. /\ k \in heard /\ k \notin dirty /\ Screenable(k)
      /\ violating' = violating
  BY DEF MoveUnread, Screenable, watch
<1>2. k \in Key
  BY <1>1 DEF IInv, HeardIsIndexed, Types
<1>3. k \notin Of(m)
  BY <1>1, <1>2, MembersOf DEF MoveUnread, Screenable
<1>4. Violated(k)' = Violated(k)
  BY <1>2, <1>3, UnmovedVerdict DEF MoveUnread, IInv
<1> QED  BY <1>1, <1>4 DEF IInv, WatcherAgrees

\* A book that is replaced in silence takes its constraints out of what was heard.
LEMMA ReplaceAgrees ==
  ASSUME IInv, NEW m \in Market, Replace(m)
  PROVE  WatcherAgrees'
<1> SUFFICES ASSUME NEW k \in heard', k \notin dirty', Screenable(k)'
             PROVE  (k \in violating') = Violated(k)'
  BY DEF WatcherAgrees
<1>1. /\ k \in heard /\ k \notin dirty /\ k \notin Of(m)
      /\ violating' = violating /\ price' = price
  BY DEF Replace, watch
<1>2. k \in Key
  BY <1>1 DEF IInv, HeardIsIndexed, Types
<1>3. Screenable(k)
  BY <1>1, <1>2, MembersOf DEF Replace, Screenable
<1> QED  BY <1>1, <1>3 DEF IInv, WatcherAgrees, Violated

\* A flush judges what is dirty and can be screened, and leaves the rest as it was.
LEMMA FlushAgrees ==
  ASSUME IInv, Flush
  PROVE  WatcherAgrees'
<1> SUFFICES ASSUME NEW k \in heard', Screenable(k)'
             PROVE  (k \in violating') = Violated(k)'
  BY DEF WatcherAgrees
<1>1. /\ k \in heard /\ Screenable(k) /\ Violated(k)' = Violated(k)
      /\ violating' = (violating \ Screened) \cup {c \in Screened : Violated(c)}
  BY DEF Flush, Screenable, Violated, feed
<1>2. k \in index
  BY <1>1 DEF IInv, HeardIsIndexed
<1>3. CASE k \in dirty
  <2>1. k \in Screened
    BY <1>1, <1>2, <1>3 DEF Screened
  <2>2. (k \in violating') <=> Violated(k)
    BY <1>1, <2>1
  <2> QED  BY <1>1, <2>2 DEF Violated
<1>4. CASE k \notin dirty
  <2>1. k \notin Screened
    BY <1>4 DEF Screened
  <2>2. (k \in violating) = Violated(k)
    BY <1>1, <1>4 DEF IInv, WatcherAgrees
  <2> QED  BY <1>1, <2>1, <2>2
<1> QED  BY <1>3, <1>4

\* The books a start has seeded take their constraints out of what was heard.
LEMMA EndRefreshAgrees ==
  ASSUME IInv, EndRefresh
  PROVE  WatcherAgrees'
<1> SUFFICES ASSUME NEW k \in heard', k \notin dirty', Screenable(k)'
             PROVE  (k \in violating') = Violated(k)'
  BY DEF WatcherAgrees
<1>1. /\ k \in heard /\ k \notin dirty /\ violating' = violating /\ price' = price
      /\ k \notin UNION {Of(m) : m \in readable' \ readable}
      /\ readable' \subseteq Market
  BY DEF EndRefresh, watch
<1>2. k \in Key
  BY <1>1 DEF IInv, HeardIsIndexed, Types
<1>3. \A m \in readable' \ readable : Members[k][1] # m /\ Members[k][2] # m
  <2> TAKE m \in readable' \ readable
  <2>1. m \in Market /\ k \notin Of(m)
    BY <1>1
  <2> QED  BY <1>2, <2>1, MembersOf
<1>4. Screenable(k)
  BY <1>3 DEF Screenable
<1> QED  BY <1>1, <1>4 DEF IInv, WatcherAgrees, Violated

LEMMA AgreementPreserved ==
  ASSUME IInv, [Next]_vars
  PROVE  WatcherAgrees'
<1>1. CASE UNCHANGED vars
  BY <1>1, Untouched DEF vars, feed, watch
<1>2. ASSUME NEW m \in Market, Observe(m)
      PROVE  WatcherAgrees'
  BY <1>2, ObserveAgrees
<1>3. ASSUME NEW m \in Market, MoveUnread(m)
      PROVE  WatcherAgrees'
  BY <1>3, MoveUnreadAgrees
<1>4. ASSUME NEW m \in Market, Replace(m)
      PROVE  WatcherAgrees'
  BY <1>4, ReplaceAgrees
<1>5. CASE Tick \/ StoreChanges \/ BeginRefresh \/ RefreshFails
  BY <1>5, Untouched DEF Tick, StoreChanges, BeginRefresh, RefreshFails, feed, watch
<1>6. CASE Schedule \/ Succeed \/ Skip \/ Fail
  BY <1>6, Untouched DEF Schedule, Succeed, Skip, Fail, feed, watch
<1>7. CASE Flush
  BY <1>7, FlushAgrees
<1>8. CASE LoadIndex
  \* Nothing has been heard since.
  BY <1>8 DEF LoadIndex, WatcherAgrees
<1>9. CASE EndRefresh
  BY <1>9, EndRefreshAgrees
<1>10. CASE Close
  \* Nothing can be screened.
  BY <1>10 DEF Close, WatcherAgrees, Screenable
<1> QED  BY <1>1, <1>2, <1>3, <1>4, <1>5, <1>6, <1>7, <1>8, <1>9, <1>10 DEF Next

-----------------------------------------------------------------------------
\* For any constraints between any markets, through index rebuilds, failed refreshes,
\* silent installs and flushes that could not price a constraint: the violating set
\* that watch.ts keeps is the truth about every constraint it can screen and has
\* heard of.
THEOREM WatcherIsRight == Spec => []WatcherAgrees
<1>1. Init => IInv
  BY DEF Init, IInv, Types, HeardIsIndexed, WatcherAgrees, Idle
<1>2. IInv /\ [Next]_vars => IInv'
  BY TypesPreserved, HeardPreserved, AgreementPreserved DEF IInv
<1>3. IInv => WatcherAgrees
  BY DEF IInv
<1> QED  BY <1>1, <1>2, <1>3, PTL DEF Spec

-----------------------------------------------------------------------------
(* The cache *)

\* What a query that is over has read of a database of which it saw no more than top.
Read(r, top) == r.counts \in Nat /\ r.open \in Nat /\ r.counts <= r.open /\ r.open <= top

\* A query in flight has read nothing, or all it has read is newer than what is cached.
Flight(q) ==
  /\ q \in [number : Cache!Numbers, read : [counts : Int, open : Int]]
  /\ \/ q.read = Cache!Unread
     \/ /\ q.read.counts \in Nat /\ cached.open <= q.read.counts /\ q.read.counts <= version
        /\ q.read.open = Cache!Null \/ Read(q.read, version)

\* One query at a time; whoever waits has nothing to be shown, and waits for that one;
\* what was served is no newer than what is cached; and without a query what is cached
\* was begun a TTL before it expires, or the last query failed.
CacheInv ==
  /\ version \in Nat /\ served \in Nat /\ expires \in 0..TTL /\ sinceStart \in 0..TTL
  /\ waiting \in [Client -> {Cache!Null} \cup Cache!Numbers] /\ DOMAIN answer = Client
  /\ inflight = {} \/ \E q \in inflight : inflight = {q} /\ Flight(q)
  /\ \A c \in Client : waiting[c] # Cache!Null =>
       cached = Cache!Unread /\ \E q \in inflight : q.number = waiting[c]
  /\ \/ cached = Cache!Unread /\ served = 0
     \/ Read(cached, version) /\ served <= cached.open
  /\ inflight = {} => failed \/ (cached # Cache!Unread /\ sinceStart + expires >= TTL)

\* A query that begins is the only one, and has read nothing.
LEMMA BeginsAlone ==
  ASSUME CacheInv, Cache!Refresh
  PROVE  /\ inflight # {} => inflight' = inflight
         /\ inflight = {} => \E n \in Cache!Numbers :
              inflight' = {[number |-> n, read |-> Cache!Unread]}
<1>1. CASE inflight # {}
  BY <1>1 DEF Cache!Refresh
<1>2. CASE inflight = {}
  <2>1. {q.number : q \in inflight} = {} /\ Cache!Numbers # {}
    BY <1>2 DEF Cache!Numbers
  <2>2. /\ Cache!Begun({}) = {[number |-> CHOOSE n \in Cache!Numbers : TRUE, read |-> Cache!Unread]}
        /\ (CHOOSE n \in Cache!Numbers : TRUE) \in Cache!Numbers
    BY <1>2, <2>1 DEF Cache!Begun
  <2> QED  BY <1>2, <2>2 DEF Cache!Refresh
<1> QED  BY <1>1, <1>2

\* The number of queries in flight.
LEMMA CountsOfFlights ==
  /\ Cache!Cardinality({}) = 0
  /\ \A q : Cache!Cardinality({q}) = 1
<1>1. \A S : Cache!Cardinality(S) = Cardinality(S)
  BY DEF Cache!Cardinality, Cardinality
<1> QED  BY <1>1, FS_EmptySet, FS_Singleton

LEMMA NoneBegins ==
  ASSUME CacheInv, inflight' = inflight
  PROVE  ~(Cache!Cardinality(inflight') > Cache!Cardinality(inflight))
<1>1. Cache!Cardinality(inflight) \in Nat
  <2>1. CASE inflight = {}
    BY <2>1, CountsOfFlights
  <2>2. CASE inflight # {}
    <3>1. PICK q : inflight = {q}
      BY <2>2 DEF CacheInv
    <3>2. Cache!Cardinality({q}) = 1
      BY CountsOfFlights
    <3> QED  BY <3>1, <3>2
  <2> QED  BY <2>1, <2>2
<1>2. Cache!Cardinality(inflight') = Cache!Cardinality(inflight)
  OBVIOUS
<1> QED  BY <1>1, <1>2

LEMMA CacheIdles ==
  ASSUME CacheInv, Cache!Change \/ Cache!Tick
  PROVE  CacheInv' /\ Cache!SteadyStep
<1> USE LivenessAssumption DEF CacheInv, Flight, Read
<1>1. CASE Cache!Change
  <2>1. /\ version' = version + 1
        /\ UNCHANGED <<cached, expires, inflight, waiting, served, failed, sinceStart, answer>>
    BY <1>1 DEF Cache!Change
  <2>2. \A q \in inflight : Flight(q) => Flight(q)'
    BY <2>1
  <2>3. Read(cached, version) => Read(cached, version)'
    BY <2>1
  <2>4. CacheInv'
    BY <2>1, <2>2, <2>3
  <2> QED  BY <2>1, <2>4, NoneBegins DEF Cache!SteadyStep
<1>2. CASE Cache!Tick
  <2>1. /\ UNCHANGED <<version, cached, inflight, waiting, served, failed, answer>>
        /\ expires' = IF expires > 0 THEN expires - 1 ELSE 0
        /\ sinceStart' = IF sinceStart < TTL THEN sinceStart + 1 ELSE TTL
    BY <1>2 DEF Cache!Tick, Cache!Down
  <2>2. /\ expires' \in 0..TTL /\ sinceStart' \in 0..TTL
        /\ sinceStart + expires >= TTL => sinceStart' + expires' >= TTL
    BY <2>1
  <2>3. \A q \in inflight : Flight(q) => Flight(q)'
    BY <2>1
  <2>4. CacheInv'
    BY <2>1, <2>2, <2>3
  <2> QED  BY <2>1, <2>4, NoneBegins DEF Cache!SteadyStep
<1> QED  BY <1>1, <1>2

\* A query begins only where there is none and nothing that was asked a TTL ago.
LEMMA BeginsInTime ==
  ASSUME CacheInv, Cache!Refresh, Cache!Started, cached = Cache!Unread \/ expires = 0,
         UNCHANGED <<version, cached>>
  PROVE  /\ \E q \in inflight' : inflight' = {q} /\ Flight(q)'
         /\ Cache!Cardinality(inflight') > Cache!Cardinality(inflight) => failed \/ sinceStart = TTL
         /\ sinceStart' \in 0..TTL
         /\ inflight # {} => inflight' = inflight
<1> USE LivenessAssumption DEF CacheInv
<1>1. CASE inflight # {}
  <2>1. inflight' = inflight /\ UNCHANGED <<sinceStart, failed>>
    BY <1>1, BeginsAlone DEF Cache!Started
  <2>2. PICK q \in inflight : inflight = {q} /\ Flight(q)
    BY <1>1
  <2>3. Flight(q)'
    BY <2>2 DEF Flight, Read
  <2> QED  BY <2>1, <2>2, <2>3, NoneBegins
<1>2. CASE inflight = {}
  <2>1. PICK n \in Cache!Numbers : inflight' = {[number |-> n, read |-> Cache!Unread]}
    BY <1>2, BeginsAlone
  <2>2. Flight([number |-> n, read |-> Cache!Unread])'
    BY DEF Flight, Cache!Unread, Cache!Null
  <2>3. sinceStart' = 0
    BY <1>2, <2>1 DEF Cache!Started
  <2>4. failed \/ sinceStart = TTL
    BY <1>2
  <2> QED  BY <1>2, <2>1, <2>2, <2>3, <2>4
<1> QED  BY <1>1, <1>2

LEMMA CachePrimes ==
  ASSUME CacheInv, Cache!Prime
  PROVE  CacheInv' /\ Cache!SteadyStep
<1>1. /\ cached = Cache!Unread /\ Cache!Refresh /\ Cache!Started
      /\ UNCHANGED <<version, cached, expires, waiting, served, answer>>
  BY DEF Cache!Prime
<1>2. \A c \in Client : waiting[c] # Cache!Null => inflight' = inflight
  BY <1>1, BeginsInTime DEF CacheInv
<1> QED  BY <1>1, <1>2, BeginsInTime DEF CacheInv, Cache!SteadyStep, Read

LEMMA CacheWaits ==
  ASSUME CacheInv, NEW c \in Client, Cache!GetCold(c)
  PROVE  CacheInv' /\ Cache!SteadyStep
<1>1. /\ cached = Cache!Unread /\ Cache!Refresh /\ Cache!Started
      /\ waiting' = [waiting EXCEPT ![c] = Cache!Awaited(inflight')]
      /\ UNCHANGED <<version, cached, expires, served, answer>>
  BY DEF Cache!GetCold
<1>2. PICK q \in inflight' : inflight' = {q} /\ Flight(q)'
  BY <1>1, BeginsInTime
<1>3. Cache!Awaited(inflight') = q.number
  <2>1. {f.number : f \in inflight'} = {q.number}
    BY <1>2
  <2> QED  BY <2>1 DEF Cache!Awaited
<1>4. q.number \in Cache!Numbers
  BY <1>2 DEF Flight
<1>5. \A d \in Client : waiting'[d] # Cache!Null =>
        cached' = Cache!Unread /\ \E f \in inflight' : f.number = waiting'[d]
  <2>1. \A d \in Client \ {c} : waiting'[d] = waiting[d]
    BY <1>1 DEF CacheInv
  <2>2. waiting'[c] = q.number
    BY <1>1, <1>3 DEF CacheInv
  <2>3. inflight # {} => inflight' = inflight
    BY <1>1, BeginsInTime
  <2> QED  BY <1>1, <1>2, <2>1, <2>2, <2>3 DEF CacheInv
<1>6. waiting' \in [Client -> {Cache!Null} \cup Cache!Numbers]
  BY <1>1, <1>3, <1>4 DEF CacheInv
<1> QED  BY <1>1, <1>2, <1>5, <1>6, BeginsInTime DEF CacheInv, Cache!SteadyStep, Read

LEMMA CacheServes ==
  ASSUME CacheInv, NEW c \in Client, Cache!GetWarm(c)
  PROVE  CacheInv' /\ Cache!SteadyStep
<1>1. /\ cached # Cache!Unread /\ Cache!Started
      /\ IF expires = 0 THEN Cache!Refresh ELSE inflight' = inflight
      /\ answer' = [answer EXCEPT ![c] = cached]
      /\ served' = IF served > cached.open THEN served ELSE cached.open
      /\ UNCHANGED <<version, cached, expires, waiting>>
  BY DEF Cache!GetWarm, Cache!Greater
<1>2. /\ Read(cached, version) /\ served <= cached.open
      /\ \A d \in Client : waiting[d] = Cache!Null
  BY <1>1 DEF CacheInv
<1>3. served' = cached.open
  BY <1>1, <1>2 DEF CacheInv, Read
<1>4. /\ \A d \in Client : answer'[d] # answer[d] => answer'[d] = cached
      /\ DOMAIN answer' = Client /\ cached # Cache!Failure
  BY <1>1, <1>2 DEF CacheInv, Read, Cache!Failure
<1>5. CASE expires = 0
  <2>1. /\ \E q \in inflight' : inflight' = {q} /\ Flight(q)'
        /\ Cache!Cardinality(inflight') > Cache!Cardinality(inflight) => failed \/ sinceStart = TTL
        /\ sinceStart' \in 0..TTL
    BY <1>1, <1>5, BeginsInTime
  <2> QED  BY <1>1, <1>2, <1>3, <1>4, <2>1 DEF CacheInv, Cache!SteadyStep, Read
<1>6. CASE expires # 0
  <2>1. inflight' = inflight /\ UNCHANGED <<sinceStart, failed>>
    BY <1>1, <1>6 DEF Cache!Started
  <2>2. \A q \in inflight : Flight(q) => Flight(q)'
    BY <1>1 DEF Flight, Read
  <2>3. ~(Cache!Cardinality(inflight') > Cache!Cardinality(inflight))
    BY <2>1, NoneBegins
  <2> QED  BY <1>1, <1>2, <1>3, <1>4, <2>1, <2>2, <2>3 DEF CacheInv, Cache!SteadyStep, Read
<1> QED  BY <1>5, <1>6

\* A statement reads what the database is by now.
LEMMA CacheReads ==
  ASSUME CacheInv, NEW q \in inflight, Cache!ReadCounts(q) \/ Cache!ReadOpen(q)
  PROVE  CacheInv' /\ Cache!SteadyStep
<1> DEFINE counted == [q EXCEPT !.read.counts = version]
           opened  == [q EXCEPT !.read.open = version]
<1>1. /\ inflight = {q} /\ Flight(q)
      /\ UNCHANGED <<version, cached, expires, waiting, served, failed, sinceStart, answer>>
  BY DEF CacheInv, Cache!ReadCounts, Cache!ReadOpen
<1>2. PICK f \in {counted, opened} : inflight' = {f} /\ f.number = q.number /\ Flight(f)'
  <2>1. CASE Cache!ReadCounts(q)
    <3>1. q.read = Cache!Unread /\ inflight' = {counted}
      BY <1>1, <2>1 DEF Cache!ReadCounts, Flight, Cache!Null, Cache!Unread
    <3>2. /\ counted = [number |-> q.number, read |-> [counts |-> version, open |-> Cache!Null]]
          /\ counted.number = q.number
      BY <1>1, <3>1 DEF Flight, Cache!Unread
    <3>3. cached.open <= version
      BY DEF CacheInv, Read, Cache!Unread, Cache!Null
    <3> QED  BY <1>1, <3>1, <3>2, <3>3 DEF Flight, CacheInv, Cache!Null
  <2>2. CASE Cache!ReadOpen(q)
    <3>1. /\ q.read # Cache!Unread /\ inflight' = {opened}
      BY <1>1, <2>2 DEF Cache!ReadOpen, Flight, Cache!Null, Cache!Unread
    <3>2. /\ opened = [number |-> q.number, read |-> [counts |-> q.read.counts, open |-> version]]
          /\ opened.number = q.number
      BY <1>1 DEF Flight
    <3> QED  BY <1>1, <3>1, <3>2 DEF Flight, Read, CacheInv
  <2> QED  BY <2>1, <2>2
<1>3. \A c \in Client : waiting'[c] # Cache!Null => \E g \in inflight' : g.number = waiting'[c]
  BY <1>1, <1>2 DEF CacheInv
<1>4. ~(Cache!Cardinality(inflight') > Cache!Cardinality(inflight))
  <2>1. Cache!Cardinality(inflight) = 1 /\ Cache!Cardinality(inflight') = 1
    BY <1>1, <1>2, CountsOfFlights
  <2> QED  BY <2>1
<1> QED  BY <1>1, <1>2, <1>3, <1>4 DEF CacheInv, Cache!SteadyStep, Read

\* Whoever waited, waited for the only query there was.
LEMMA AllReleased ==
  ASSUME CacheInv, NEW q \in inflight, NEW value, Cache!Release(q, value)
  PROVE  /\ waiting' = [c \in Client |-> Cache!Null]
         /\ DOMAIN answer' = Client
         /\ \A c \in Client : answer'[c] # answer[c] =>
              answer'[c] = value /\ waiting[c] = q.number
         /\ served' = served \/ (served' = IF served > value.open THEN served ELSE value.open)
<1>1. inflight = {q}
  BY DEF CacheInv
<1>2. \A c \in Client : waiting[c] # Cache!Null => waiting[c] = q.number
  BY <1>1 DEF CacheInv
<1> QED  BY <1>2 DEF Cache!Release, Cache!Greater, CacheInv

LEMMA CacheAnswers ==
  ASSUME CacheInv, NEW q \in inflight, Cache!Complete(q)
  PROVE  CacheInv' /\ Cache!SteadyStep
<1> USE LivenessAssumption
<1>1. /\ q.read.open >= 0 /\ cached' = q.read /\ expires' = TTL /\ inflight' = inflight \ {q}
      /\ Cache!Release(q, q.read) /\ UNCHANGED <<version, failed, sinceStart>>
  BY DEF Cache!Complete
<1>2. inflight = {q} /\ Flight(q) /\ inflight' = {}
  BY <1>1 DEF CacheInv
<1>3. Read(q.read, version) /\ cached.open <= q.read.counts
  BY <1>1, <1>2 DEF Flight, Cache!Null, Cache!Unread
<1>4. served <= q.read.counts /\ q.read # Cache!Failure /\ q.read # Cache!Unread
  BY <1>3 DEF CacheInv, Read, Cache!Failure, Cache!Unread, Cache!Null
<1>5. served' \in Nat /\ served' <= q.read.open
  BY <1>1, <1>3, <1>4, AllReleased DEF CacheInv, Read
<1>6. \A c \in Client : answer'[c] # answer[c] => answer'[c] = q.read
  BY <1>1, AllReleased
<1>7. CacheInv'
  BY <1>1, <1>2, <1>3, <1>4, <1>5, AllReleased DEF CacheInv, Read
<1>8. Cache!SteadyStep
  <2>1. Cache!Cardinality(inflight') = 0 /\ Cache!Cardinality(inflight) = 1
    BY <1>2, CountsOfFlights
  <2>2. q.read.open >= served /\ q.read.counts <= q.read.open
    BY <1>3, <1>4 DEF CacheInv, Read
  <2> QED  BY <1>4, <1>6, <2>1, <2>2 DEF Cache!SteadyStep
<1> QED  BY <1>7, <1>8

LEMMA CacheFails ==
  ASSUME CacheInv, NEW q \in inflight, Cache!Fail(q)
  PROVE  CacheInv' /\ Cache!SteadyStep
<1>1. /\ failed' = TRUE /\ inflight' = inflight \ {q} /\ Cache!Release(q, Cache!Failure)
      /\ UNCHANGED <<version, cached, expires, sinceStart>>
  BY DEF Cache!Fail
<1>2. inflight = {q} /\ inflight' = {}
  BY <1>1 DEF CacheInv
<1>3. served' = served
  BY <1>1, AllReleased DEF CacheInv, Cache!Failure
<1>4. \A c \in Client : answer'[c] # answer[c] =>
        answer'[c] = Cache!Failure /\ cached = Cache!Unread
  BY <1>1, AllReleased DEF CacheInv, Cache!Null, Cache!Numbers, Flight
<1>5. CacheInv'
  BY <1>1, <1>2, <1>3, AllReleased DEF CacheInv, Read
<1>6. Cache!SteadyStep
  BY <1>2, <1>4, CountsOfFlights DEF Cache!SteadyStep
<1> QED  BY <1>5, <1>6

LEMMA CacheStep ==
  ASSUME CacheInv, Cache!Next
  PROVE  CacheInv' /\ Cache!SteadyStep
BY CacheIdles, CachePrimes, CacheWaits, CacheServes, CacheReads, CacheAnswers, CacheFails
   DEF Cache!Next

\* index.ts: "stale but never backwards".  For any clients, TTL and failures: no client
\* gets older rows than some client has had, none is refused where there is something
\* to show, and a query begins a TTL after the last or after one that failed.
THEOREM CacheIsSteady == LivenessSpec => Steady
<1> DEFINE Inv == part = "cache" => CacheInv
<1>1. LivenessInit => Inv
  <2> SUFFICES ASSUME LivenessInit, part = "cache"
               PROVE  CacheInv
    OBVIOUS
  <2>1. Cache!Init
    BY DEF LivenessInit
  <2>2. TTL \in Nat
    BY LivenessAssumption
  <2>3. 0 \in 0..TTL /\ TTL \in 0..TTL
    BY <2>2
  <2>4. waiting \in [Client -> {Cache!Null} \cup Cache!Numbers] /\ DOMAIN answer = Client
    BY <2>1 DEF Cache!Init
  <2>5. \A c \in Client : waiting[c] = Cache!Null
    BY <2>1 DEF Cache!Init
  <2>6. /\ version = 0 /\ served = 0 /\ expires = 0 /\ sinceStart = TTL
        /\ inflight = {} /\ cached = Cache!Unread /\ failed
    BY <2>1 DEF Cache!Init
  <2>7. /\ version \in Nat /\ served \in Nat /\ expires \in 0..TTL /\ sinceStart \in 0..TTL
    BY <2>3, <2>6
  <2>8. inflight = {} => failed \/ (cached # Cache!Unread /\ sinceStart + expires >= TTL)
    BY <2>6
  <2>9. \A c \in Client : waiting[c] # Cache!Null =>
          cached = Cache!Unread /\ \E q \in inflight : q.number = waiting[c]
    BY <2>5
  <2> QED  BY <2>4, <2>6, <2>7, <2>8, <2>9 DEF CacheInv
<1>2. Inv /\ [LivenessNext]_livenessVars => Inv' /\ [part = "cache" => Cache!SteadyStep]_cacheVars
  <2> SUFFICES ASSUME Inv, [LivenessNext]_livenessVars
               PROVE  Inv' /\ [part = "cache" => Cache!SteadyStep]_cacheVars
    OBVIOUS
  <2>1. CASE UNCHANGED livenessVars
    BY <2>1 DEF livenessVars, cacheVars, CacheInv, Flight, Read
  <2>2. CASE Watching \/ Alerting \/ Stopping
    BY <2>2 DEF Watching, Alerting, Stopping
  <2>3. CASE Caching
    BY <2>3, CacheStep DEF Caching
  <2> QED  BY <2>1, <2>2, <2>3 DEF LivenessNext
<1> QED  BY <1>1, <1>2, PTL DEF LivenessSpec, Steady

-----------------------------------------------------------------------------
(* The shell *)

DrainState == {"none", "waiting", "forcing", "closing", "closed", "rejected"}

\* A job whose drain is under way was given what a drain may last, or is over; when
\* what jobs work with is let go of, every worker's drain is.
ShellInv ==
  /\ drain \in [Shell!Queue -> DrainState] /\ drained \in Nat /\ elapsed \in Nat
  /\ work \subseteq workers /\ workers \subseteq Shell!Queue
  /\ \A q \in Shell!Queue :
       /\ stage \in {"starting", "serving", "closing"} => drain[q] = "none"
       /\ stage \in {"draining", "releasing"} /\ q \in workers => drain[q] # "none"
       /\ drain[q] = "forcing" => drained >= DrainTimeout
       /\ drain[q] \in {"closing", "closed"} => q \notin work \/ drained >= DrainTimeout
  /\ stage = "releasing" => \A q \in workers : drain[q] \in {"closed", "rejected"}

\* What the invariant says is enough for a step out of the releasing stage, or in it.
LEMMA ReleasingGrants ==
  ASSUME ShellInv, \A q \in workers : drain[q] \in {"closed", "rejected"}
  PROVE  \A q \in work : Shell!HadItsGrace(q)
BY DEF ShellInv, Shell!HadItsGrace

LEMMA ShellStep ==
  ASSUME ShellInv, Shell!Next
  PROVE  ShellInv' /\ Shell!GraceStep
<1> USE LivenessAssumption
<1>1. CASE Shell!Serve \/ Shell!Signal \/ Shell!HttpFails
  BY <1>1 DEF Shell!Serve, Shell!Signal, Shell!HttpFails, ShellInv, Shell!GraceStep
<1>2. CASE Shell!FailToStart \/ Shell!TimeOut \/ Shell!Released
  BY <1>2, ReleasingGrants DEF Shell!FailToStart, Shell!TimeOut, Shell!Released, Shell!Exit,
     Shell!Stopping, Shell!HadItsGrace, ShellInv, Shell!GraceStep
<1>3. CASE Shell!HttpCloses
  BY <1>3 DEF Shell!HttpCloses, ShellInv, DrainState, Shell!GraceStep
<1>4. CASE Shell!DrainsSettled
  BY <1>4, ReleasingGrants DEF Shell!DrainsSettled, ShellInv, Shell!GraceStep
<1>5. CASE Shell!Tick
  <2>1. /\ drained' \in Nat /\ drained' >= drained /\ elapsed' \in Nat
        /\ UNCHANGED <<stage, workers, work, drain>> /\ Shell!Stopping
    BY <1>5 DEF Shell!Tick, ShellInv
  <2> QED  BY <2>1, ReleasingGrants DEF ShellInv, Shell!GraceStep, Shell!Stopping
<1>6. ASSUME NEW q \in Shell!Queue, Shell!StartWorker(q) \/ Shell!TakeJob(q) \/ Shell!FinishJob(q)
      PROVE  ShellInv' /\ Shell!GraceStep
  BY <1>6, ReleasingGrants DEF Shell!StartWorker, Shell!TakeJob, Shell!FinishJob,
     Shell!Alive, Shell!Ended,
     Shell!Stopping, ShellInv, Shell!GraceStep
<1>7. ASSUME NEW q \in Shell!Queue,
             Shell!Drained(q) \/ Shell!DrainDeadline(q) \/ Shell!Forced(q) \/ Shell!Closed(q)
               \/ Shell!CloseFails(q)
      PROVE  ShellInv' /\ Shell!GraceStep
  <2>1. PICK from \in DrainState, to \in DrainState :
          /\ Shell!Move(q, from, to) /\ from # "none" /\ to # "none"
          /\ to = "forcing" => drained >= DrainTimeout
          /\ to = "closing" => q \notin work \/ from = "forcing"
          /\ to = "closed" => from = "closing"
    BY <1>7 DEF Shell!Drained, Shell!DrainDeadline, Shell!Forced, Shell!Closed, Shell!CloseFails,
                DrainState
  <2>2. /\ stage = "draining" /\ drain[q] = from /\ drain' = [drain EXCEPT ![q] = to]
        /\ UNCHANGED <<stage, workers, work, elapsed, drained>>
    BY <2>1 DEF Shell!Move
  <2> QED  BY <2>1, <2>2 DEF ShellInv, Shell!GraceStep
<1> QED  BY <1>1, <1>2, <1>3, <1>4, <1>5, <1>6, <1>7 DEF Shell!Next

\* index.ts: "a coherence worker that will not drain must not stop the catalog worker
\* from finishing its transaction".  For any two timeouts, whatever hangs, and whatever
\* drain fails: the process lets go of a job, or of what it works with, only after its
\* drain failed or had its time, or the shutdown had -- unless the closing of the feed or
\* the server has failed, which aborts the shutdown before the drains.
THEOREM JobsHaveTheirGrace == LivenessSpec => Graceful
<1> DEFINE Inv == part = "shell" => ShellInv
<1>1. LivenessInit => Inv
  BY DEF LivenessInit, ShellInv, DrainState, Shell!Init
<1>2. Inv /\ [LivenessNext]_livenessVars => Inv' /\ [part = "shell" => Shell!GraceStep]_shellVars
  <2> SUFFICES ASSUME Inv, [LivenessNext]_livenessVars
               PROVE  Inv' /\ [part = "shell" => Shell!GraceStep]_shellVars
    OBVIOUS
  <2>1. CASE UNCHANGED livenessVars
    BY <2>1 DEF livenessVars, shellVars, ShellInv
  <2>2. CASE Watching \/ Alerting \/ Caching
    BY <2>2 DEF Watching, Alerting, Caching
  <2>3. CASE Stopping
    BY <2>3, ShellStep DEF Stopping
  <2> QED  BY <2>1, <2>2, <2>3 DEF LivenessNext
<1> QED  BY <1>1, <1>2, PTL DEF LivenessSpec, Graceful

=============================================================================
