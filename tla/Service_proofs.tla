--------------------------- MODULE Service_proofs ---------------------------
(***************************************************************************)
(* For any number of replicas and episodes, whatever fails or dies on the     *)
(* way: one alert and one follow-up per episode, a resend only for an edge    *)
(* that has earned it, and one whole digest of an hour; and what is proved of *)
(* the other parts, of the service they are parts of.                         *)
(***************************************************************************)
EXTENDS Service, SequenceTheorems, FiniteSetTheorems, TLAPS

\* A replica between the claim and the record of a message has an episode whose
\* row exists, and what it loaded exists still.
Owned ==
  /\ \A r \in Replica : pc[r] \in {"sending", "naming", "resending", "resolving"} =>
       current[r] \in Episode /\ delivery[current[r]] # None
  /\ \A r \in Replica, e \in Episode : known[r][e] # None => delivery[e] # None

IndType == TypeOK /\ Owned

LEMMA Appending ==
  ASSUME NEW s \in Seq(Message), NEW n \in 0..2, NEW c \in [1..n -> Message], NEW u,
         u = s \o c
  PROVE  /\ u \in Seq(Message) /\ DOMAIN u = 1..(Len(s) + n)
         /\ \A i \in 1..Len(s) : u[i] = s[i]
         /\ \A i \in (Len(s) + 1)..(Len(s) + n) : u[i] = c[i - Len(s)]
<1>1. c \in Seq(Message) /\ Len(c) = n
  OBVIOUS
<1>2. u \in Seq(Message) /\ Len(u) = Len(s) + n
  BY <1>1
<1>3. \A i \in 1..Len(s) : u[i] = s[i]
  BY <1>1
<1>4. \A i \in (Len(s) + 1)..(Len(s) + n) : u[i] = c[i - Len(s)]
  BY <1>1
<1> QED BY <1>2, <1>3, <1>4

\* A post appends at most two messages to one channel, the second a copy, which say
\* what the replica has loaded; if it goes well, at least one.
Appended(r, e, kind, n) ==
  /\ \A f \in Episode : f # e => posted'[f] = posted[f]
  /\ DOMAIN posted'[e] = 1..(Len(posted[e]) + n)
  /\ \A i \in 1..Len(posted[e]) : posted'[e][i] = posted[e][i]
  /\ \A i \in (Len(posted[e]) + 1)..(Len(posted[e]) + n) :
       /\ posted'[e][i].kind = kind /\ (posted'[e][i].copy <=> i > Len(posted[e]) + 1)
       /\ posted'[e][i].at = now[r] /\ posted'[e][i].value = quoted[r][e]

LEMMA PostAppends ==
  ASSUME TypeOK, NEW r \in Replica, NEW e \in Episode,
         NEW kind \in {"first", "escalation", "resolution"}, NEW good, NEW bad,
         Post(r, e, kind, good, bad)
  PROVE  /\ posted' \in [Episode -> Seq(Message)]
         /\ faults' \in Nat
         /\ pc' = [pc EXCEPT ![r] = good] \/ pc' = [pc EXCEPT ![r] = bad]
         /\ \E n \in 0..2 : /\ Appended(r, e, kind, n)
                            /\ n = 0 => pc' = [pc EXCEPT ![r] = bad]
<1> DEFINE m(i) == [kind |-> kind, value |-> quoted[r][e], at |-> now[r], copy |-> i > 1]
<1>1. PICK o \in Outcomes :
        /\ posted' = [posted EXCEPT ![e] = @ \o [i \in 1..o.copies |-> m(i)]]
        /\ pc' = [pc EXCEPT ![r] = IF o.ok THEN good ELSE bad]
        /\ faults' = IF o = [copies |-> 1, ok |-> TRUE] THEN faults ELSE faults + 1
  BY DEF Post
<1> DEFINE n == o.copies
           s == posted[e]
           u == posted'[e]
           c == [i \in 1..n |-> m(i)]
           Says(x, i) == /\ x.kind = kind /\ (x.copy <=> i > 1)
                         /\ x.at = now[r] /\ x.value = quoted[r][e]
<1>2. n \in 0..2
  BY DEF Outcomes
<1>3. c \in [1..n -> Message] /\ \A i \in 1..n : Says(c[i], i)
  <2>1. quoted[r][e] \in 0..MaxEdge /\ now[r] \in 0..MaxTime
    BY DEF TypeOK
  <2>2. ASSUME NEW i \in 1..n
        PROVE  m(i) \in Message /\ Says(m(i), i)
    <3>1. (i > 1) \in BOOLEAN
      BY <1>2
    <3> QED BY <2>1, <3>1 DEF Message
  <2> HIDE DEF m, Says
  <2> QED BY <2>2
<1>4. s \in Seq(Message) /\ u = s \o c
  BY <1>1 DEF TypeOK
<1>5. /\ \A f \in Episode : f # e => posted'[f] = posted[f]
      /\ faults' \in Nat
      /\ posted' = [posted EXCEPT ![e] = u]
  BY <1>1 DEF TypeOK
<1>6. /\ pc' = [pc EXCEPT ![r] = good] \/ pc' = [pc EXCEPT ![r] = bad]
      /\ n = 0 => pc' = [pc EXCEPT ![r] = bad]
  <2>1. n = 0 => ~o.ok
    BY DEF Outcomes
  <2> QED BY <1>1, <2>1
<1> HIDE DEF n, s, u, c, Says
<1>7. /\ u \in Seq(Message) /\ DOMAIN u = 1..(Len(s) + n)
      /\ \A i \in 1..Len(s) : u[i] = s[i]
      /\ \A i \in (Len(s) + 1)..(Len(s) + n) : u[i] = c[i - Len(s)]
  BY <1>2, <1>3, <1>4, Appending
<1>8. \A i \in (Len(s) + 1)..(Len(s) + n) :
        /\ u[i].kind = kind /\ (u[i].copy <=> i > Len(s) + 1)
        /\ u[i].at = now[r] /\ u[i].value = quoted[r][e]
  <2> SUFFICES ASSUME NEW i \in (Len(s) + 1)..(Len(s) + n)
               PROVE  /\ u[i].kind = kind /\ (u[i].copy <=> i > Len(s) + 1)
                      /\ u[i].at = now[r] /\ u[i].value = quoted[r][e]
    OBVIOUS
  <2>1. Len(s) \in Nat
    BY <1>4
  <2>2. i - Len(s) \in 1..n /\ (i - Len(s) > 1 <=> i > Len(s) + 1)
    BY <1>2, <2>1
  <2>3. Says(u[i], i - Len(s))
    BY <1>3, <1>7, <2>2
  <2> QED BY <2>2, <2>3 DEF Says
<1>9. posted' \in [Episode -> Seq(Message)]
  BY <1>5, <1>7 DEF TypeOK
<1>10. Appended(r, e, kind, n)
  BY <1>5, <1>7, <1>8 DEF s, u, Appended
<1> QED BY <1>2, <1>5, <1>6, <1>9, <1>10

-----------------------------------------------------------------------------
LEMMA TypeInit == Init => IndType
<1> SUFFICES ASSUME Init PROVE IndType
  OBVIOUS
<1> USE AlertAssumption DEF Init
<1>1. TypeOK
  BY DEF TypeOK, None
<1>2. Owned
  BY DEF Owned, None
<1> QED BY <1>1, <1>2 DEF IndType

\* Every step keeps the types, and no step takes a row away.
LEMMA TypeNext == IndType /\ [Next]_vars => IndType'
<1> SUFFICES ASSUME IndType, [Next]_vars PROVE IndType'
  OBVIOUS
<1> USE AlertAssumption DEF IndType, world, run
<1>1. CASE UNCHANGED vars
  BY <1>1 DEF vars, TypeOK, Owned
<1>2. CASE Tick
  BY <1>2 DEF Tick, TypeOK, Owned
<1>3. ASSUME NEW e \in Episode, NEW v \in 0..MaxEdge, Observe(e, v) PROVE IndType'
  BY <1>3 DEF Observe, TypeOK, Owned
<1>4. ASSUME NEW e \in Episode, Resolve(e) PROVE IndType'
  BY <1>4 DEF Resolve, TypeOK, Owned
<1>5. ASSUME NEW r \in Replica, LoadConfirmed(r) PROVE IndType'
  BY <1>5 DEF LoadConfirmed, TypeOK, Owned
<1>6. ASSUME NEW r \in Replica, LoadResolved(r) PROVE IndType'
  BY <1>6 DEF LoadResolved, TypeOK, Owned
<1>7. ASSUME NEW r \in Replica, LoadDeliveries(r) PROVE IndType'
  BY <1>7 DEF LoadDeliveries, TypeOK, Owned
<1>8. ASSUME NEW r \in Replica, NEW e \in Episode, Suppress(r, e) PROVE IndType'
  BY <1>8 DEF Suppress, Delivery, None, TypeOK, Owned
<1>9. ASSUME NEW r \in Replica, NEW e \in Episode, Claim(r, e) PROVE IndType'
  <2>1. CASE delivery[e] = None
    <3> DEFINE entry == [sentAt |-> now[r], value |-> quoted[r][e], resolved |-> FALSE, message |-> FALSE]
    <3>1. entry \in Delivery /\ entry # None
      BY DEF TypeOK, Delivery, None
    <3>2. /\ delivery' = [delivery EXCEPT ![e] = entry]
          /\ pc' = [pc EXCEPT ![r] = "sending"] /\ current' = [current EXCEPT ![r] = e]
          /\ todo' = [todo EXCEPT ![r] = @ \ {e}]
          /\ UNCHANGED <<world, posted, now, quoted, ended, known, excused, faults>>
      BY <1>9, <2>1 DEF Claim
    <3> HIDE DEF entry
    <3>3. TypeOK'
      BY <3>1, <3>2 DEF TypeOK
    <3>4. Owned'
      BY <3>1, <3>2 DEF TypeOK, Owned
    <3> QED BY <3>3, <3>4
  <2>2. CASE delivery[e] # None
    BY <1>9, <2>2 DEF Claim, TypeOK, Owned
  <2> QED BY <2>1, <2>2
<1>10. ASSUME NEW r \in Replica, NEW e \in Episode, Escalate(r, e) PROVE IndType'
  <2>1. /\ posted' \in [Episode -> Seq(Message)] /\ faults' \in Nat
        /\ pc' = [pc EXCEPT ![r] = "resending"] \/ pc' = [pc EXCEPT ![r] = "alerting"]
    BY <1>10, PostAppends DEF Escalate
  <2>2. delivery[e] # None
    BY <1>10 DEF Escalate, Decision, Decide, Owned
  <2> QED BY <1>10, <2>1, <2>2 DEF Escalate, TypeOK, Owned
<1>11. ASSUME NEW r \in Replica, Send(r) PROVE IndType'
  <2>1. current[r] \in Episode
    BY <1>11 DEF Send, Owned
  <2>2. /\ posted' \in [Episode -> Seq(Message)] /\ faults' \in Nat
        /\ pc' = [pc EXCEPT ![r] = "naming"] \/ pc' = [pc EXCEPT ![r] = "alerting"]
    BY <1>11, <2>1, PostAppends DEF Send
  <2> QED BY <1>11, <2>2 DEF Send, TypeOK, Owned
<1>12. ASSUME NEW r \in Replica, PostResolution(r) PROVE IndType'
  <2>1. current[r] \in Episode
    BY <1>12 DEF PostResolution, Owned
  <2>2. /\ posted' \in [Episode -> Seq(Message)] /\ faults' \in Nat
        /\ pc' = [pc EXCEPT ![r] = "following"] \/ pc' = [pc EXCEPT ![r] = "following"]
    BY <1>12, <2>1, PostAppends DEF PostResolution
  <2> QED BY <1>12, <2>2 DEF PostResolution, TypeOK, Owned
<1>13. ASSUME NEW r \in Replica, RecordMessageId(r) PROVE IndType'
  <2>1. current[r] \in Episode /\ delivery[current[r]] \in Delivery
    BY <1>13 DEF RecordMessageId, TypeOK, Owned
  <2> QED BY <1>13, <2>1 DEF RecordMessageId, TypeOK, Owned, Delivery, None
<1>14. ASSUME NEW r \in Replica, RecordResend(r) PROVE IndType'
  <2>1. current[r] \in Episode /\ delivery[current[r]] \in Delivery
    BY <1>14 DEF RecordResend, TypeOK, Owned
  <2> DEFINE entry == [delivery[current[r]] EXCEPT !.sentAt = now[r], !.value = quoted[r][current[r]]]
  <2>2. entry \in Delivery /\ entry # None
    <3>1. now[r] \in 0..MaxTime /\ quoted[r][current[r]] \in 0..MaxEdge
      BY <2>1 DEF TypeOK
    <3> DEFINE q == quoted[r][current[r]]
               d == delivery[current[r]]
    <3>2. d \in Delivery /\ q \in 0..MaxEdge
      BY <2>1, <3>1
    <3> HIDE DEF q, d
    <3>3. [d EXCEPT !.sentAt = now[r], !.value = q] \in Delivery
      BY <3>1, <3>2 DEF Delivery
    <3>4. [d EXCEPT !.sentAt = now[r], !.value = q].sentAt = now[r]
      BY <3>2 DEF Delivery
    <3>5. now[r] # -1
      BY <3>1
    <3> QED BY <3>3, <3>4, <3>5 DEF q, d, None
  <2>3. /\ delivery' = [delivery EXCEPT ![current[r]] = entry]
        /\ pc' = [pc EXCEPT ![r] = "alerting"]
        /\ UNCHANGED <<world, posted, run, excused, faults>>
    BY <1>14, <2>1 DEF RecordResend, TypeOK, Delivery
  <2> HIDE DEF entry
  <2> QED BY <2>1, <2>2, <2>3 DEF TypeOK, Owned
<1>15. ASSUME NEW r \in Replica, LoadEnded(r) PROVE IndType'
  BY <1>15 DEF LoadEnded, TypeOK, Owned
<1>16. ASSUME NEW r \in Replica, NEW e \in Episode, ClaimResolution(r, e) PROVE IndType'
  <2> DEFINE taken == known[r][e] = None \/ known[r][e].resolved \/ delivery[e].resolved
  <2>1. CASE taken
    <3>1. /\ ended' = [ended EXCEPT ![r] = @ \ {e}]
          /\ UNCHANGED <<world, posted, now, todo, quoted, known, excused, faults, delivery, pc, current>>
      BY <1>16, <2>1 DEF ClaimResolution
    <3> QED BY <3>1 DEF TypeOK, Owned
  <2>2. CASE ~taken
    <3> DEFINE entry == [delivery[e] EXCEPT !.resolved = TRUE]
    <3>1. delivery[e] \in Delivery
      BY <1>16, <2>2 DEF ClaimResolution, TypeOK, Owned
    <3>2. entry \in Delivery /\ entry # None
      BY <3>1 DEF Delivery, None
    <3>3. /\ delivery' = [delivery EXCEPT ![e] = entry]
          /\ pc' = [pc EXCEPT ![r] = "resolving"] /\ current' = [current EXCEPT ![r] = e]
          /\ ended' = [ended EXCEPT ![r] = @ \ {e}]
          /\ UNCHANGED <<world, posted, now, todo, quoted, known, excused, faults>>
      BY <1>16, <2>2, <3>1 DEF ClaimResolution, Delivery
    <3> HIDE DEF entry
    <3> QED BY <3>1, <3>2, <3>3 DEF TypeOK, Owned
  <2> QED BY <2>1, <2>2
<1>17. ASSUME NEW r \in Replica, Done(r) PROVE IndType'
  BY <1>17 DEF Done, TypeOK, Owned
<1>18. ASSUME NEW r \in Replica, StatementFails(r) PROVE IndType'
  <2>0. excused' \in SUBSET Episode
    BY <1>18 DEF StatementFails, Unrecorded, TypeOK, Owned
  <2>1. TypeOK'
    BY <1>18, <2>0 DEF StatementFails, TypeOK
  <2>2. Owned'
    BY <1>18 DEF StatementFails, TypeOK, Owned
  <2> QED BY <2>1, <2>2
<1>19. ASSUME NEW r \in Replica, Die(r) PROVE IndType'
  <2>1. excused' \in SUBSET Episode
    BY <1>19 DEF Die, Unrecorded, TypeOK, Owned
  <2>2. TypeOK'
    BY <1>19, <2>1 DEF Die, TypeOK
  <2>3. Owned'
    BY <1>19 DEF Die, TypeOK, Owned
  <2> QED BY <2>2, <2>3
<1>20. ASSUME NEW r \in Replica, ClaimFails(r) PROVE IndType'
  <2>1. \/ \E e \in Episode : todo' = [todo EXCEPT ![r] = todo[r] \ {e}] /\ ended' = ended
        \/ \E e \in Episode : ended' = [ended EXCEPT ![r] = ended[r] \ {e}] /\ todo' = todo
    BY <1>20 DEF ClaimFails, TypeOK
  <2>2. todo' \in [Replica -> SUBSET Episode] /\ ended' \in [Replica -> SUBSET Episode]
    <3>1. CASE \E e \in Episode : todo' = [todo EXCEPT ![r] = todo[r] \ {e}] /\ ended' = ended
      <4> PICK e \in Episode : todo' = [todo EXCEPT ![r] = todo[r] \ {e}] /\ ended' = ended
        BY <3>1
      <4> QED BY DEF TypeOK
    <3>2. CASE \E e \in Episode : ended' = [ended EXCEPT ![r] = ended[r] \ {e}] /\ todo' = todo
      <4> PICK e \in Episode : ended' = [ended EXCEPT ![r] = ended[r] \ {e}] /\ todo' = todo
        BY <3>2
      <4> QED BY DEF TypeOK
    <3> QED BY <2>1, <3>1, <3>2
  <2>3. faults' \in Nat /\ UNCHANGED <<world, delivery, posted, pc, now, quoted, known, current, excused>>
    BY <1>20 DEF ClaimFails, TypeOK
  <2>4. TypeOK'
    BY <2>2, <2>3 DEF TypeOK, world
  <2>5. Owned'
    BY <2>3 DEF Owned, world
  <2> QED BY <2>4, <2>5
<1> QED
  BY <1>1, <1>2, <1>3, <1>4, <1>5, <1>6, <1>7, <1>8, <1>9, <1>10, <1>11, <1>12, <1>13, <1>14, <1>15, <1>16, <1>17, <1>18, <1>19, <1>20 DEF Next, Announce

\* Rows, messages and the replicas' copies of them keep their types: no statement
\* ever writes to a row that is not there.
THEOREM TypeCorrect == Spec => []TypeOK
<1>1. Init => IndType
  BY TypeInit
<1>2. IndType /\ [Next]_vars => IndType'
  BY TypeNext
<1>3. IndType => TypeOK
  BY DEF IndType
<1> QED BY <1>1, <1>2, <1>3, PTL DEF Spec

-----------------------------------------------------------------------------
(* One alert and one follow-up *)

Claimed(e, kind) == IF kind = "first" THEN delivery[e] # None ELSE delivery[e].resolved
Posting(r, e, kind) ==
  current[r] = e /\ pc[r] = IF kind = "first" THEN "sending" ELSE "resolving"

\* Who posts has claimed, alone, and has not posted yet; what nobody claimed
\* nobody posted.
ClaimedOnce(e, kind) ==
  /\ \A i, j \in Posts(e, kind) : i = j
  /\ ~Claimed(e, kind) => Posts(e, kind) = {} /\ \A r \in Replica : ~Posting(r, e, kind)
  /\ \A r \in Replica : Posting(r, e, kind) =>
       Posts(e, kind) = {} /\ \A q \in Replica : Posting(q, e, kind) => q = r

Kind == {"first", "resolution"}
OneClaimEach == \A e \in Episode, kind \in Kind : ClaimedOnce(e, kind)

Inv == IndType /\ OneClaimEach

\* A step that posts nothing, takes no claim back and lets nobody begin to post.
LEMMA QuietStep ==
  ASSUME Inv, posted' = posted,
         NEW e \in Episode, NEW kind \in Kind,
         Claimed(e, kind) => Claimed(e, kind)',
         \A r \in Replica : Posting(r, e, kind)' => Posting(r, e, kind)
  PROVE  ClaimedOnce(e, kind)'
<1>1. Posts(e, kind)' = Posts(e, kind)
  BY DEF Posts
<1>2. ClaimedOnce(e, kind)
  BY DEF Inv, OneClaimEach
<1> QED BY <1>1, <1>2 DEF ClaimedOnce

\* A step that claims what nobody had claimed.
LEMMA ClaimStep ==
  ASSUME Inv, posted' = posted,
         NEW e \in Episode, NEW kind \in Kind, NEW r \in Replica,
         ~Claimed(e, kind), Claimed(e, kind)',
         \A q \in Replica : q # r => (Posting(q, e, kind)' => Posting(q, e, kind))
  PROVE  ClaimedOnce(e, kind)'
<1>1. Posts(e, kind)' = Posts(e, kind)
  BY DEF Posts
<1>2. ClaimedOnce(e, kind)
  BY DEF Inv, OneClaimEach
<1> QED BY <1>1, <1>2 DEF ClaimedOnce

\* Posting leaves the channels of other episodes and the messages of other kinds
\* as they were, and adds at most one.
LEMMA PostsAfter ==
  ASSUME TypeOK, NEW r \in Replica, NEW e \in Episode,
         NEW kind \in {"first", "escalation", "resolution"}, NEW good, NEW bad,
         Post(r, e, kind, good, bad)
  PROVE  /\ \A f \in Episode, k \in Kind : f # e \/ k # kind => Posts(f, k)' = Posts(f, k)
         /\ Posts(e, kind) = {} => \A i, j \in Posts(e, kind)' : i = j
<1>0. PICK n \in 0..2 : Appended(r, e, kind, n)
  BY PostAppends
<1>1. /\ \A f \in Episode : f # e => posted'[f] = posted[f]
      /\ DOMAIN posted'[e] = 1..(Len(posted[e]) + n)
      /\ \A i \in 1..Len(posted[e]) : posted'[e][i] = posted[e][i]
      /\ \A i \in (Len(posted[e]) + 1)..(Len(posted[e]) + n) :
           posted'[e][i].kind = kind /\ (posted'[e][i].copy <=> i > Len(posted[e]) + 1)
  BY <1>0 DEF Appended
<1>2. posted[e] \in Seq(Message)
  BY DEF TypeOK
<1>3. Len(posted[e]) \in Nat /\ DOMAIN posted[e] = 1..Len(posted[e])
  BY <1>2
<1>4. ASSUME NEW f \in Episode, NEW k \in Kind, f # e
      PROVE  Posts(f, k)' = Posts(f, k)
  BY <1>1, <1>4 DEF Posts
<1>5. ASSUME NEW k \in Kind, k # kind
      PROVE  Posts(e, k)' = Posts(e, k)
  BY <1>1, <1>3, <1>5 DEF Posts
<1>6. ASSUME Posts(e, kind) = {}, NEW i \in Posts(e, kind)', NEW j \in Posts(e, kind)'
      PROVE  i = j
  BY <1>1, <1>3, <1>6 DEF Posts
<1> QED BY <1>4, <1>5, <1>6

LEMMA InvInit == Init => Inv
<1> SUFFICES ASSUME Init PROVE OneClaimEach
  BY TypeInit DEF Inv
<1> QED BY DEF Init, OneClaimEach, ClaimedOnce, Claimed, Posting, Posts, None, Kind

LEMMA InvNext == Inv /\ [Next]_vars => Inv'
<1> SUFFICES ASSUME Inv, [Next]_vars PROVE OneClaimEach'
  BY TypeNext DEF Inv
<1> USE DEF world, run
<1> SUFFICES ASSUME NEW e \in Episode, NEW kind \in Kind PROVE ClaimedOnce(e, kind)'
  BY DEF OneClaimEach
<1>a. TypeOK /\ Owned /\ ClaimedOnce(e, kind)
  BY DEF Inv, IndType, OneClaimEach
<1>1. CASE UNCHANGED vars
  BY <1>1, QuietStep DEF vars, Claimed, Posting
<1>2. CASE Tick
  BY <1>2, QuietStep DEF Tick, Claimed, Posting
<1>3. ASSUME NEW f \in Episode, NEW v \in 0..MaxEdge, Observe(f, v) PROVE ClaimedOnce(e, kind)'
  BY <1>3, QuietStep DEF Observe, Claimed, Posting
<1>4. ASSUME NEW f \in Episode, Resolve(f) PROVE ClaimedOnce(e, kind)'
  BY <1>4, QuietStep DEF Resolve, Claimed, Posting
<1>5. ASSUME NEW r \in Replica, LoadConfirmed(r) PROVE ClaimedOnce(e, kind)'
  BY <1>5, <1>a, QuietStep DEF LoadConfirmed, TypeOK, Claimed, Posting
<1>6. ASSUME NEW r \in Replica, LoadResolved(r) PROVE ClaimedOnce(e, kind)'
  BY <1>6, <1>a, QuietStep DEF LoadResolved, TypeOK, Claimed, Posting
<1>7. ASSUME NEW r \in Replica, LoadDeliveries(r) PROVE ClaimedOnce(e, kind)'
  BY <1>7, <1>a, QuietStep DEF LoadDeliveries, TypeOK, Claimed, Posting
<1>8. ASSUME NEW r \in Replica, LoadEnded(r) PROVE ClaimedOnce(e, kind)'
  BY <1>8, <1>a, QuietStep DEF LoadEnded, TypeOK, Claimed, Posting
<1>9. ASSUME NEW r \in Replica, Done(r) PROVE ClaimedOnce(e, kind)'
  BY <1>9, <1>a, QuietStep DEF Done, TypeOK, Claimed, Posting
<1>10. ASSUME NEW r \in Replica, StatementFails(r) PROVE ClaimedOnce(e, kind)'
  BY <1>10, <1>a, QuietStep DEF StatementFails, TypeOK, Claimed, Posting
<1>11. ASSUME NEW r \in Replica, Die(r) PROVE ClaimedOnce(e, kind)'
  BY <1>11, <1>a, QuietStep DEF Die, TypeOK, Claimed, Posting
<1>12. ASSUME NEW r \in Replica, NEW f \in Episode, Suppress(r, f) PROVE ClaimedOnce(e, kind)'
  BY <1>12, QuietStep DEF Suppress, Claimed, Posting
<1>13. ASSUME NEW r \in Replica, NEW f \in Episode, Claim(r, f) PROVE ClaimedOnce(e, kind)'
  <2>1. CASE delivery[f] # None \/ f # e \/ kind # "first"
    <3>1. Claimed(e, kind) => Claimed(e, kind)'
      <4>1. CASE delivery'[e] = delivery[e]
        BY <4>1 DEF Claimed
      <4>2. CASE delivery'[e] # delivery[e]
        <5>1. f = e /\ delivery[e] = None
          BY <1>13, <1>a, <4>2 DEF Claim, TypeOK
        <5>2. ~Claimed(e, kind)
          BY <2>1, <5>1 DEF Claimed, Kind, None
        <5> QED BY <5>2
      <4> QED BY <4>1, <4>2
    <3>2. \A q \in Replica : Posting(q, e, kind)' => Posting(q, e, kind)
      BY <1>13, <1>a, <2>1 DEF Claim, Posting, TypeOK, Kind
    <3> QED BY <1>13, <3>1, <3>2, QuietStep DEF Claim
  <2>2. CASE delivery[f] = None /\ f = e /\ kind = "first"
    <3>1. ~Claimed(e, kind) /\ Claimed(e, kind)'
      BY <1>13, <1>a, <2>2 DEF Claim, Claimed, TypeOK, None
    <3>2. \A q \in Replica : q # r => (Posting(q, e, kind)' => Posting(q, e, kind))
      BY <1>13, <1>a, <2>2 DEF Claim, Posting, TypeOK
    <3> QED BY <1>13, <3>1, <3>2, ClaimStep DEF Claim
  <2> QED BY <2>1, <2>2
<1>14. ASSUME NEW r \in Replica, NEW f \in Episode, ClaimResolution(r, f) PROVE ClaimedOnce(e, kind)'
  <2> DEFINE taken == known[r][f] = None \/ known[r][f].resolved \/ delivery[f].resolved
  <2>1. CASE taken
    BY <1>14, <2>1, QuietStep DEF ClaimResolution, Claimed, Posting
  <2>2. CASE ~taken
    <3>1. delivery[f] \in Delivery
      BY <1>14, <1>a, <2>2 DEF TypeOK, Owned
    <3>2. /\ delivery' = [delivery EXCEPT ![f].resolved = TRUE]
          /\ pc' = [pc EXCEPT ![r] = "resolving"] /\ current' = [current EXCEPT ![r] = f]
          /\ posted' = posted
      BY <1>14, <2>2 DEF ClaimResolution
    <3>3. CASE f # e \/ kind # "resolution"
      <4>1. Claimed(e, kind) => Claimed(e, kind)'
        <5>1. CASE f # e
          BY <1>a, <3>2, <5>1 DEF Claimed, TypeOK
        <5>2. CASE f = e /\ kind = "first"
          <6>1. delivery'[e] = [delivery[e] EXCEPT !.resolved = TRUE]
            BY <1>a, <3>2, <5>2 DEF TypeOK
          <6>2. delivery'[e].sentAt # -1
            BY <3>1, <5>2, <6>1 DEF Delivery
          <6> QED BY <5>2, <6>2 DEF Claimed, None
        <5> QED BY <3>3, <5>1, <5>2 DEF Kind
      <4>2. \A q \in Replica : Posting(q, e, kind)' => Posting(q, e, kind)
        BY <1>a, <3>2, <3>3 DEF Posting, TypeOK, Kind
      <4> QED BY <3>2, <4>1, <4>2, QuietStep
    <3>4. CASE f = e /\ kind = "resolution"
      <4>1. ~Claimed(e, kind) /\ Claimed(e, kind)'
        BY <1>a, <2>2, <3>1, <3>2, <3>4 DEF Claimed, TypeOK, Delivery
      <4>2. \A q \in Replica : q # r => (Posting(q, e, kind)' => Posting(q, e, kind))
        BY <1>a, <3>2, <3>4 DEF Posting, TypeOK
      <4> QED BY <3>2, <4>1, <4>2, ClaimStep
    <3> QED BY <3>3, <3>4 DEF Kind
  <2> QED BY <2>1, <2>2
<1>15. ASSUME NEW r \in Replica, Send(r) PROVE ClaimedOnce(e, kind)'
  <2>1. PICK f \in Episode : f = current[r] /\ Posting(r, f, "first") /\ ClaimedOnce(f, "first")
    BY <1>15, <1>a DEF Send, Owned, Posting, Inv, OneClaimEach, Kind
  <2>2. Posts(f, "first") = {} /\ \A q \in Replica : Posting(q, f, "first") => q = r
    BY <2>1 DEF ClaimedOnce
  <2>3. /\ pc' = [pc EXCEPT ![r] = "naming"] \/ pc' = [pc EXCEPT ![r] = "alerting"]
        /\ delivery' = delivery /\ current' = current
    BY <1>15, <1>a, <2>1, PostAppends DEF Send
  <2>4. /\ \A g \in Episode, k \in Kind : g # f \/ k # "first" => Posts(g, k)' = Posts(g, k)
        /\ \A i, j \in Posts(f, "first")' : i = j
    BY <1>15, <1>a, <2>1, <2>2, PostsAfter DEF Send
  <2>5. /\ Claimed(e, kind)' <=> Claimed(e, kind)
        /\ \A q \in Replica : Posting(q, e, kind)' => Posting(q, e, kind) /\ q # r
    BY <1>a, <2>3 DEF Claimed, Posting, TypeOK, Kind
  <2>6. CASE e # f \/ kind # "first"
    BY <1>a, <2>4, <2>5, <2>6 DEF ClaimedOnce
  <2>7. CASE e = f /\ kind = "first"
    <3>1. \A q \in Replica : ~Posting(q, e, kind)'
      BY <2>2, <2>5, <2>7
    <3>2. Claimed(e, kind)'
      BY <2>1, <2>5, <2>7 DEF ClaimedOnce
    <3> QED BY <2>4, <2>7, <3>1, <3>2 DEF ClaimedOnce
  <2> QED BY <2>6, <2>7
<1>16. ASSUME NEW r \in Replica, PostResolution(r) PROVE ClaimedOnce(e, kind)'
  <2>1. PICK f \in Episode : f = current[r] /\ Posting(r, f, "resolution") /\ ClaimedOnce(f, "resolution")
    BY <1>16, <1>a DEF PostResolution, Owned, Posting, Inv, OneClaimEach, Kind
  <2>2. Posts(f, "resolution") = {} /\ \A q \in Replica : Posting(q, f, "resolution") => q = r
    BY <2>1 DEF ClaimedOnce
  <2>3. /\ pc' = [pc EXCEPT ![r] = "following"] \/ pc' = [pc EXCEPT ![r] = "following"]
        /\ delivery' = delivery /\ current' = current
    BY <1>16, <1>a, <2>1, PostAppends DEF PostResolution
  <2>4. /\ \A g \in Episode, k \in Kind : g # f \/ k # "resolution" => Posts(g, k)' = Posts(g, k)
        /\ \A i, j \in Posts(f, "resolution")' : i = j
    BY <1>16, <1>a, <2>1, <2>2, PostsAfter DEF PostResolution
  <2>5. /\ Claimed(e, kind)' <=> Claimed(e, kind)
        /\ \A q \in Replica : Posting(q, e, kind)' => Posting(q, e, kind) /\ q # r
    BY <1>a, <2>3 DEF Claimed, Posting, TypeOK, Kind
  <2>6. CASE e # f \/ kind # "resolution"
    BY <1>a, <2>4, <2>5, <2>6 DEF ClaimedOnce
  <2>7. CASE e = f /\ kind = "resolution"
    <3>1. \A q \in Replica : ~Posting(q, e, kind)'
      BY <2>2, <2>5, <2>7
    <3>2. Claimed(e, kind)'
      BY <2>1, <2>5, <2>7 DEF ClaimedOnce
    <3> QED BY <2>4, <2>7, <3>1, <3>2 DEF ClaimedOnce
  <2> QED BY <2>6, <2>7
<1>17. ASSUME NEW r \in Replica, RecordMessageId(r) PROVE ClaimedOnce(e, kind)'
  <2>1. current[r] \in Episode /\ delivery[current[r]] \in Delivery
    BY <1>17, <1>a DEF RecordMessageId, TypeOK, Owned
  <2>2. Claimed(e, kind) => Claimed(e, kind)'
    <3>1. CASE e # current[r]
      BY <1>17, <1>a, <3>1 DEF RecordMessageId, Claimed, TypeOK
    <3>2. CASE e = current[r]
      <4>1. delivery'[e].resolved = delivery[e].resolved
        BY <1>17, <1>a, <2>1, <3>2 DEF RecordMessageId, TypeOK, Delivery
      <4>2. delivery'[e].sentAt # -1
        BY <1>17, <1>a, <2>1, <3>2 DEF RecordMessageId, TypeOK, Delivery
      <4> QED BY <4>1, <4>2 DEF Claimed, None
    <3> QED BY <3>1, <3>2
  <2>3. \A q \in Replica : Posting(q, e, kind)' => Posting(q, e, kind)
    BY <1>17, <1>a DEF RecordMessageId, Posting, TypeOK, Kind
  <2> QED BY <1>17, <2>2, <2>3, QuietStep DEF RecordMessageId
<1>18. ASSUME NEW r \in Replica, RecordResend(r) PROVE ClaimedOnce(e, kind)'
  <2>1. current[r] \in Episode /\ delivery[current[r]] \in Delivery
    BY <1>18, <1>a DEF RecordResend, TypeOK, Owned
  <2>2. Claimed(e, kind) => Claimed(e, kind)'
    <3>1. CASE e # current[r]
      BY <1>18, <1>a, <3>1 DEF RecordResend, Claimed, TypeOK
    <3>2. CASE e = current[r]
      <4>1. delivery'[e].resolved = delivery[e].resolved
        BY <1>18, <1>a, <2>1, <3>2 DEF RecordResend, TypeOK, Delivery
      <4>2. delivery'[e].sentAt # -1
        BY <1>18, <1>a, <2>1, <3>2 DEF RecordResend, TypeOK, Delivery
      <4> QED BY <4>1, <4>2 DEF Claimed, None
    <3> QED BY <3>1, <3>2
  <2>3. \A q \in Replica : Posting(q, e, kind)' => Posting(q, e, kind)
    BY <1>18, <1>a DEF RecordResend, Posting, TypeOK, Kind
  <2> QED BY <1>18, <2>2, <2>3, QuietStep DEF RecordResend
<1>19. ASSUME NEW r \in Replica, NEW f \in Episode, Escalate(r, f) PROVE ClaimedOnce(e, kind)'
  <2>1. \A g \in Episode, k \in Kind : Posts(g, k)' = Posts(g, k)
    BY <1>19, <1>a, PostsAfter DEF Escalate, Kind
  <2>2. /\ pc' = [pc EXCEPT ![r] = "resending"] \/ pc' = [pc EXCEPT ![r] = "alerting"]
        /\ delivery' = delivery /\ current' = [current EXCEPT ![r] = f]
    BY <1>19, <1>a, PostAppends DEF Escalate
  <2>3. /\ Claimed(e, kind)' <=> Claimed(e, kind)
        /\ \A q \in Replica : Posting(q, e, kind)' => Posting(q, e, kind)
    BY <1>a, <2>2 DEF Claimed, Posting, TypeOK, Kind
  <2> QED BY <1>a, <2>1, <2>3 DEF ClaimedOnce
<1>20. ASSUME NEW r \in Replica, ClaimFails(r) PROVE ClaimedOnce(e, kind)'
  BY <1>20, <1>a, QuietStep DEF ClaimFails, TypeOK, Claimed, Posting
<1> QED
  BY <1>1, <1>2, <1>3, <1>4, <1>5, <1>6, <1>7, <1>8, <1>9, <1>10, <1>11, <1>12, <1>13, <1>14, <1>15, <1>16, <1>17, <1>18, <1>19, <1>20 DEF Next, Announce

\* Whatever replicas see an episode, fail or die, the channel gets one alert and
\* one follow-up about it: the claim of src/alerts/store.ts.
THEOREM AnnouncedOnce == Spec => []OneAnnouncement
<1>1. Init => Inv
  BY InvInit
<1>2. Inv /\ [Next]_vars => Inv'
  BY InvNext
<1>3. Inv => OneAnnouncement
  BY DEF Inv, OneClaimEach, ClaimedOnce, OneAnnouncement, Kind
<1> QED BY <1>1, <1>2, <1>3, PTL DEF Spec

-----------------------------------------------------------------------------
(* Escalations that are earned *)

\* The last message about e, if there is one, was posted then and said so much.
Baseline(e, at, value) ==
  posted[e] # <<>> => LET m == posted[e][Len(posted[e])] IN m.at = at /\ m.value = value

Resending(r, e) == pc[r] = "resending" /\ current[r] = e

\* The row of e is the last message about it, but while a replica that has posted is
\* about to record, or an ended episode's follow-up is the last.
Recorded(e) ==
  /\ delivery[e] = None => posted[e] = <<>>
  /\ delivery[e].resolved \/ Baseline(e, delivery[e].sentAt, delivery[e].value)
       \/ \E r \in Replica : Resending(r, e)

\* What a replica has in hand is in the row, or was posted and is about to be, and
\* what it has yet to decide on is still as it loaded it.
InHand(r, e) ==
  /\ Resending(r, e) => Baseline(e, now[r], quoted[r][e])
  /\ pc[r] = "sending" /\ current[r] = e =>
       delivery[e].sentAt = now[r] /\ delivery[e].value = quoted[r][e]
  /\ pc[r] = "resolving" /\ current[r] = e => delivery[e].resolved
  /\ pc[r] \in {"alerting", "sending", "naming", "resending"} /\ e \in todo[r] =>
       known[r][e] = delivery[e]
  /\ pc[r] \in {"sending", "naming", "resending"} /\ current[r] = e => e \notin todo[r]

Alone == \A r, s \in Replica : Announcing(r) /\ Announcing(s) => r = s

Lone(e) == Alone /\ Earned(e) /\ Recorded(e) /\ \A r \in Replica : InHand(r, e)

LoneInv == \A e \in Episode \ excused : Lone(e)

LEMMA Extensional ==
  ASSUME NEW S, NEW u \in Seq(S), NEW v \in Seq(S), DOMAIN u = DOMAIN v,
         \A i \in DOMAIN u : u[i] = v[i]
  PROVE  u = v
<1>1. DOMAIN u = 1..Len(u) /\ DOMAIN v = 1..Len(v) /\ Len(u) \in Nat /\ Len(v) \in Nat
  OBVIOUS
<1>2. Len(u) = Len(v)
  <2> DEFINE a == Len(u)
             b == Len(v)
  <2>1. a \in Nat /\ b \in Nat /\ \A i \in Nat : i \in 1..a <=> i \in 1..b
    BY <1>1
  <2> HIDE DEF a, b
  <2>2. a \in 1..a => a \in 1..b
    BY <2>1
  <2>3. b \in 1..b => b \in 1..a
    BY <2>1
  <2>4. a = b
    BY <2>1, <2>2, <2>3
  <2> QED BY <2>4 DEF a, b
<1> QED BY <1>1, <1>2, SeqEqual

\* What a post of s's leaves of a channel: its escalations stay earned, and its last
\* message is what s had to say, if anything arrived.
LEMMA PostSays ==
  ASSUME TypeOK, NEW s \in Replica, NEW e \in Episode, NEW kind, NEW n \in 0..2,
         posted' \in [Episode -> Seq(Message)], Appended(s, e, kind, n),
         now'[s] = now[s], quoted'[s] = quoted[s]
  PROVE  /\ n = 0 => posted'[e] = posted[e]
         /\ n # 0 => Baseline(e, now[s], quoted[s][e])' /\ posted'[e] # <<>>
<1> DEFINE k == Len(posted[e])
<1>1. posted[e] \in Seq(Message) /\ posted'[e] \in Seq(Message) /\ k \in Nat
  BY DEF TypeOK
<1>2. DOMAIN posted[e] = 1..k /\ DOMAIN posted'[e] = 1..(k + n)
  BY <1>1 DEF Appended
<1>3. CASE n = 0
  <2>1. DOMAIN posted'[e] = DOMAIN posted[e] /\ \A i \in DOMAIN posted[e] : posted'[e][i] = posted[e][i]
    BY <1>1, <1>2, <1>3 DEF Appended
  <2> QED BY <1>1, <1>3, <2>1, Extensional
<1>4. CASE n # 0
  <2>1. Len(posted'[e]) = k + n
    BY <1>1, <1>2
  <2>2. k + n \in (k + 1)..(k + n)
    BY <1>1, <1>4
  <2>3. posted'[e][k + n].at = now[s] /\ posted'[e][k + n].value = quoted[s][e]
    BY <2>2 DEF Appended
  <2>4. posted'[e] # <<>>
    BY <1>1, <2>1, <1>4
  <2> QED BY <1>4, <2>1, <2>3, <2>4 DEF Baseline
<1> QED BY <1>3, <1>4

LEMMA PostEarned ==
  ASSUME TypeOK, NEW s \in Replica, NEW e \in Episode, NEW kind, NEW n \in 0..2,
         Appended(s, e, kind, n), Earned(e),
         kind = "escalation" /\ posted[e] # <<>> =>
           LET m == posted[e][Len(posted[e])]
           IN  now[s] >= m.at + Cooldown /\ quoted[s][e] >= m.value * Factor
  PROVE  Earned(e)'
<1> DEFINE k == Len(posted[e])
<1>1. posted[e] \in Seq(Message) /\ k \in Nat /\ DOMAIN posted[e] = 1..k
  BY DEF TypeOK
<1> SUFFICES ASSUME NEW i \in Posts(e, "escalation")', i > 1
             PROVE  /\ posted'[e][i].at >= posted'[e][i - 1].at + Cooldown
                    /\ posted'[e][i].value >= posted'[e][i - 1].value * Factor
  BY DEF Earned
<1>2. i \in 1..(k + n) /\ posted'[e][i].kind = "escalation" /\ ~posted'[e][i].copy
  BY DEF Posts, Appended
<1>3. CASE i <= k
  <2>1. i \in 1..k /\ i - 1 \in 1..k
    BY <1>1, <1>2, <1>3
  <2>2. posted'[e][i] = posted[e][i] /\ posted'[e][i - 1] = posted[e][i - 1]
    BY <2>1 DEF Appended
  <2>3. i \in Posts(e, "escalation")
    BY <1>1, <1>2, <2>1, <2>2 DEF Posts
  <2> QED BY <2>2, <2>3 DEF Earned
<1>4. CASE i > k
  <2>1. i \in (k + 1)..(k + n)
    BY <1>1, <1>2, <1>4
  <2>2. /\ kind = "escalation" /\ i = k + 1
        /\ posted'[e][i].at = now[s] /\ posted'[e][i].value = quoted[s][e]
    BY <1>1, <1>2, <2>1 DEF Appended
  <2>3. k \in 1..k /\ i - 1 = k
    BY <1>1, <2>2
  <2>4. posted'[e][i - 1] = posted[e][k]
    BY <2>3 DEF Appended
  <2>5. posted[e] # <<>>
    BY <1>1, <2>3
  <2> QED BY <2>2, <2>4, <2>5
<1> QED BY <1>1, <1>2, <1>3, <1>4

\* While s announces, nobody else does.
LEMMA Sole ==
  ASSUME NEW e \in Episode, Lone(e), NEW s \in Replica, Announcing(s),
         \A q \in Replica \ {s} : pc'[q] = pc[q]
  PROVE  /\ Alone'
         /\ \A q \in Replica \ {s} : InHand(q, e)' /\ ~Resending(q, e) /\ ~Resending(q, e)'
<1>1. \A q \in Replica \ {s} : ~Announcing(q) /\ ~Announcing(q)'
  BY DEF Lone, Alone, Announcing
<1>2. Alone'
  BY <1>1 DEF Alone
<1> QED BY <1>1, <1>2 DEF Announcing, InHand, Resending

LEMMA SoleQuiet ==
  ASSUME NEW e \in Episode, Lone(e), NEW s \in Replica, Announcing(s),
         \A q \in Replica \ {s} : pc'[q] = pc[q],
         posted'[e] = posted[e], delivery'[e] = delivery[e],
         ~Resending(s, e), InHand(s, e)'
  PROVE  Lone(e)'
<1>1. Alone' /\ \A q \in Replica \ {s} : InHand(q, e)' /\ ~Resending(q, e)
  BY Sole
<1>2. Recorded(e)'
  BY <1>1 DEF Lone, Recorded, Baseline
<1>3. Earned(e)'
  BY DEF Lone, Earned, Posts
<1> QED BY <1>1, <1>2, <1>3 DEF Lone

\* A step of the world, or of a replica that does not announce.
LEMMA Aside ==
  ASSUME NEW e \in Episode, Lone(e), posted' = posted, delivery' = delivery,
         \A q \in Replica :
           \/ /\ pc'[q] = pc[q] /\ current'[q] = current[q] /\ now'[q] = now[q]
              /\ quoted'[q] = quoted[q] /\ known'[q] = known[q] /\ todo'[q] = todo[q]
           \/ ~Announcing(q) /\ ~Announcing(q)'
  PROVE  Lone(e)'
<1>1. Alone'
  BY DEF Lone, Alone, Announcing
<1>2. \A q \in Replica : InHand(q, e)' /\ (Resending(q, e) => Resending(q, e)')
  <2> SUFFICES ASSUME NEW q \in Replica PROVE InHand(q, e)' /\ (Resending(q, e) => Resending(q, e)')
    OBVIOUS
  <2>1. CASE ~Announcing(q) /\ ~Announcing(q)'
    BY <2>1 DEF Announcing, InHand, Resending
  <2>2. CASE /\ pc'[q] = pc[q] /\ current'[q] = current[q] /\ now'[q] = now[q]
             /\ quoted'[q] = quoted[q] /\ known'[q] = known[q] /\ todo'[q] = todo[q]
    BY <2>2 DEF Lone, InHand, Resending, Baseline
  <2> QED BY <2>1, <2>2
<1>3. Recorded(e)'
  BY <1>2 DEF Lone, Recorded, Baseline
<1>4. Earned(e)'
  BY DEF Lone, Earned, Posts
<1> QED BY <1>1, <1>2, <1>3, <1>4 DEF Lone

\* One step of a replica that announces.
LEMMA LoneAnnounces ==
  ASSUME IndType, NEW e \in Episode, e \notin excused', Lone(e),
         NEW s \in Replica, Announcing(s), Announce(s) \/ StatementFails(s) \/ ClaimFails(s) \/ Die(s)
  PROVE  Lone(e)'
<1> USE DEF world, run
<1>a. TypeOK /\ Owned /\ Earned(e) /\ Recorded(e) /\ InHand(s, e)
  BY DEF IndType, Lone
<1>b. \A q \in Replica \ {s} : ~Resending(q, e)
  BY DEF Lone, Alone, Announcing, Resending
<1>1. ASSUME LoadConfirmed(s) \/ LoadResolved(s) \/ LoadDeliveries(s) PROVE FALSE
  BY <1>1 DEF LoadConfirmed, LoadResolved, LoadDeliveries, Announcing
<1>2. ASSUME NEW f \in Episode, Suppress(s, f) PROVE Lone(e)'
  BY <1>2, <1>a, SoleQuiet DEF Suppress, InHand, Resending, Baseline, TypeOK
<1>3. ASSUME NEW f \in Episode, Claim(s, f) PROVE Lone(e)'
  <2>0. \A q \in Replica \ {s} : pc'[q] = pc[q]
    BY <1>3, <1>a DEF Claim, TypeOK
  <2>1. CASE f # e \/ delivery[f] # None
    <3>1. posted'[e] = posted[e] /\ delivery'[e] = delivery[e]
      BY <1>3, <1>a, <2>1 DEF Claim, TypeOK
    <3>2. InHand(s, e)' /\ ~Resending(s, e)
      BY <1>3, <1>a, <2>1, <3>1 DEF Claim, InHand, Resending, Baseline, TypeOK
    <3> QED BY <2>0, <3>1, <3>2, SoleQuiet
  <2>2. CASE f = e /\ delivery[f] = None
    <3> DEFINE entry == [sentAt |-> now[s], value |-> quoted[s][e], resolved |-> FALSE, message |-> FALSE]
    <3>1. posted' = posted /\ posted[e] = <<>> /\ delivery'[e] = entry
      BY <1>3, <1>a, <2>2 DEF Claim, TypeOK, Recorded
    <3>2. Earned(e)' /\ Baseline(e, delivery[e].sentAt, delivery[e].value)'
      BY <1>a, <3>1 DEF Earned, Posts, Baseline
    <3>3. entry # None
      BY <1>a DEF None, TypeOK
    <3>4. Recorded(e)'
      BY <3>1, <3>2, <3>3 DEF Recorded
    <3>5. InHand(s, e)'
      BY <1>3, <1>a, <2>2, <3>1 DEF Claim, InHand, Resending, TypeOK
    <3> QED BY <2>0, <3>2, <3>4, <3>5, Sole DEF Lone
  <2> QED BY <2>1, <2>2
<1>4. ASSUME NEW f \in Episode, Escalate(s, f) PROVE Lone(e)'
  <2>0. PICK n \in 0..2 : /\ Appended(s, f, "escalation", n)
                          /\ n = 0 => pc' = [pc EXCEPT ![s] = "alerting"]
    BY <1>4, <1>a, PostAppends DEF Escalate
  <2>1. /\ posted' \in [Episode -> Seq(Message)] /\ delivery' = delivery
        /\ now' = now /\ quoted' = quoted /\ known' = known
        /\ current' = [current EXCEPT ![s] = f] /\ todo' = [todo EXCEPT ![s] = @ \ {f}]
        /\ pc' = [pc EXCEPT ![s] = "resending"] \/ pc' = [pc EXCEPT ![s] = "alerting"]
    BY <1>4, <1>a, PostAppends DEF Escalate
  <2>2. ~Resending(s, e) /\ \A q \in Replica \ {s} : pc'[q] = pc[q]
    BY <1>4, <1>a, <2>1 DEF Escalate, Resending, TypeOK
  <2>3. CASE f # e
    <3>1. posted'[e] = posted[e]
      BY <2>0, <2>3 DEF Appended
    <3>2. InHand(s, e)'
      BY <1>4, <1>a, <2>1, <2>3 DEF Escalate, InHand, Resending, TypeOK
    <3> QED BY <2>1, <2>2, <3>1, <3>2, SoleQuiet
  <2>4. CASE f = e /\ pc'[s] = "alerting"
    <3>1. posted' = posted
      BY <1>4, <2>4 DEF Escalate
    <3>2. InHand(s, e)'
      BY <1>4, <1>a, <2>1, <2>4 DEF Escalate, InHand, Resending, TypeOK
    <3> QED BY <2>1, <2>2, <3>1, <3>2, SoleQuiet
  <2>5. CASE f = e /\ pc'[s] # "alerting"
    <3>1. pc'[s] = "resending" /\ current'[s] = e /\ n # 0
      BY <1>a, <2>0, <2>1, <2>5 DEF TypeOK
    <3>2. known[s][e] = delivery[e] /\ Decision(s, e) = "escalate"
      BY <1>4, <1>a, <2>5 DEF Escalate, InHand
    <3>3. /\ delivery[e] # None /\ ~delivery[e].resolved
          /\ now[s] - delivery[e].sentAt >= Cooldown
          /\ quoted[s][e] >= delivery[e].value * Factor
      BY <3>2 DEF Decision, Decide
    <3>4. Baseline(e, delivery[e].sentAt, delivery[e].value)
      BY <1>a, <1>b, <2>2, <3>3 DEF Recorded
    <3>5. delivery[e].sentAt \in Int /\ now[s] \in Int /\ Cooldown \in Int
      BY <1>a, <3>3, AlertAssumption DEF TypeOK, Delivery
    <3>6. Earned(e)'
      <4>1. ASSUME posted[e] # <<>>
            PROVE  LET m == posted[e][Len(posted[e])]
                   IN  now[s] >= m.at + Cooldown /\ quoted[s][e] >= m.value * Factor
        BY <3>3, <3>4, <3>5, <4>1 DEF Baseline
      <4> QED BY <1>a, <2>0, <2>5, <4>1, PostEarned
    <3>7. Baseline(e, now[s], quoted[s][e])' /\ posted'[e] # <<>>
      BY <1>a, <2>0, <2>1, <2>5, <3>1, PostSays
    <3>8. Recorded(e)'
      BY <2>1, <3>1, <3>3 DEF Recorded, Resending
    <3>9. InHand(s, e)'
      BY <1>a, <2>1, <2>5, <3>1, <3>7 DEF InHand, TypeOK
    <3> QED BY <2>2, <3>6, <3>8, <3>9, Sole DEF Lone
  <2> QED BY <2>3, <2>4, <2>5
<1>5. ASSUME Send(s) PROVE Lone(e)'
  <2> DEFINE f == current[s]
  <2>a. f \in Episode
    BY <1>5, <1>a DEF Send, Owned
  <2>0. PICK n \in 0..2 : Appended(s, f, "first", n)
    BY <1>5, <1>a, <2>a, PostAppends DEF Send
  <2>1. /\ posted' \in [Episode -> Seq(Message)] /\ delivery' = delivery
        /\ now' = now /\ quoted' = quoted /\ known' = known /\ current' = current /\ todo' = todo
        /\ pc' = [pc EXCEPT ![s] = "naming"] \/ pc' = [pc EXCEPT ![s] = "alerting"]
    BY <1>5, <1>a, <2>a, PostAppends DEF Send
  <2>2. ~Resending(s, e) /\ \A q \in Replica \ {s} : pc'[q] = pc[q]
    BY <1>5, <1>a, <2>1 DEF Send, Resending, TypeOK
  <2>3. InHand(s, e)'
    BY <1>5, <1>a, <2>1 DEF Send, InHand, Resending, TypeOK
  <2> HIDE DEF f
  <2>4. CASE f # e
    <3>1. posted'[e] = posted[e]
      BY <2>0, <2>4 DEF Appended
    <3> QED BY <2>1, <2>2, <2>3, <3>1, SoleQuiet
  <2>5. CASE f = e
    <3>1. /\ n = 0 => posted'[e] = posted[e]
          /\ n # 0 => Baseline(e, now[s], quoted[s][e])'
      BY <1>a, <2>0, <2>1, <2>5, PostSays
    <3>2. Earned(e)'
      BY <1>a, <2>0, <2>5, PostEarned
    <3>3. delivery[e] # None /\ delivery[e].sentAt = now[s] /\ delivery[e].value = quoted[s][e]
      BY <1>5, <1>a, <2>5 DEF Send, InHand, Owned, f
    <3>4. Recorded(e)'
      <4>1. CASE n = 0
        BY <1>a, <1>b, <2>1, <2>2, <3>1, <3>3, <4>1 DEF Recorded, Baseline
      <4>2. CASE n # 0
        BY <2>1, <3>1, <3>3, <4>2 DEF Recorded
      <4> QED BY <4>1, <4>2
    <3> QED BY <2>2, <2>3, <3>2, <3>4, Sole DEF Lone
  <2> QED BY <2>4, <2>5
<1>6. ASSUME RecordMessageId(s) PROVE Lone(e)'
  <2>1. current[s] \in Episode /\ delivery[current[s]] \in Delivery
    BY <1>6, <1>a DEF RecordMessageId, TypeOK, Owned
  <2>2. ~Resending(s, e) /\ \A q \in Replica \ {s} : pc'[q] = pc[q]
    BY <1>6, <1>a DEF RecordMessageId, Resending, TypeOK
  <2>3. CASE current[s] # e
    <3>1. posted' = posted /\ delivery'[e] = delivery[e]
      BY <1>6, <1>a, <2>1, <2>3 DEF RecordMessageId, TypeOK
    <3>2. InHand(s, e)'
      BY <1>6, <1>a, <2>3, <3>1 DEF RecordMessageId, InHand, Resending, TypeOK
    <3> QED BY <2>2, <3>1, <3>2, SoleQuiet
  <2>4. CASE current[s] = e
    <3>1. /\ posted' = posted /\ delivery'[e] = [delivery[e] EXCEPT !.message = TRUE]
          /\ delivery[e] \in Delivery
      BY <1>6, <1>a, <2>1, <2>4 DEF RecordMessageId, TypeOK
    <3>2. /\ delivery'[e].sentAt = delivery[e].sentAt /\ delivery'[e].value = delivery[e].value
          /\ delivery'[e].resolved = delivery[e].resolved /\ delivery'[e].sentAt # -1
      BY <3>1 DEF Delivery
    <3>3. Recorded(e)' /\ Earned(e)'
      BY <1>a, <1>b, <2>2, <3>1, <3>2 DEF Recorded, Earned, Posts, Baseline, None
    <3>4. InHand(s, e)'
      BY <1>6, <1>a, <2>4 DEF RecordMessageId, InHand, Resending, TypeOK
    <3> QED BY <2>2, <3>3, <3>4, Sole DEF Lone
  <2> QED BY <2>3, <2>4
<1>7. ASSUME RecordResend(s) PROVE Lone(e)'
  <2>1. current[s] \in Episode /\ delivery[current[s]] \in Delivery
    BY <1>7, <1>a DEF RecordResend, TypeOK, Owned
  <2>2. \A q \in Replica \ {s} : pc'[q] = pc[q]
    BY <1>7, <1>a DEF RecordResend, TypeOK
  <2>3. CASE current[s] # e
    <3>1. posted' = posted /\ delivery'[e] = delivery[e] /\ ~Resending(s, e)
      BY <1>7, <1>a, <2>1, <2>3 DEF RecordResend, TypeOK, Resending
    <3>2. InHand(s, e)'
      BY <1>7, <1>a, <2>3, <3>1 DEF RecordResend, InHand, Resending, TypeOK
    <3> QED BY <2>2, <3>1, <3>2, SoleQuiet
  <2>4. CASE current[s] = e
    <3>1. /\ posted' = posted /\ delivery[e] \in Delivery /\ now' = now /\ quoted' = quoted
          /\ delivery'[e] = [delivery[e] EXCEPT !.sentAt = now[s], !.value = quoted[s][e]]
      BY <1>7, <1>a, <2>1, <2>4 DEF RecordResend, TypeOK
    <3>2. delivery'[e].sentAt = now[s] /\ delivery'[e].value = quoted[s][e] /\ now[s] # -1
      BY <1>a, <3>1 DEF Delivery, TypeOK
    <3>3. Baseline(e, now[s], quoted[s][e])
      BY <1>7, <1>a, <2>4 DEF RecordResend, InHand, Resending
    <3>4. Recorded(e)'
      <4>1. Baseline(e, delivery[e].sentAt, delivery[e].value)'
        BY <3>1, <3>2, <3>3 DEF Baseline
      <4>2. delivery'[e] # None
        BY <3>2 DEF None
      <4> QED BY <4>1, <4>2 DEF Recorded
    <3>6. Earned(e)'
      BY <1>a, <3>1 DEF Earned, Posts
    <3>5. InHand(s, e)'
      BY <1>7, <1>a, <2>4 DEF RecordResend, InHand, Resending, TypeOK
    <3> QED BY <2>2, <3>4, <3>5, <3>6, Sole DEF Lone
  <2> QED BY <2>3, <2>4
<1>8. ASSUME LoadEnded(s) PROVE Lone(e)'
  BY <1>8, <1>a, SoleQuiet DEF LoadEnded, InHand, Resending, Baseline, TypeOK
<1>9. ASSUME NEW f \in Episode, ClaimResolution(s, f) PROVE Lone(e)'
  <2>0. posted' = posted /\ ~Resending(s, e) /\ \A q \in Replica \ {s} : pc'[q] = pc[q]
    BY <1>9, <1>a DEF ClaimResolution, TypeOK, Resending
  <2>1. CASE delivery'[e] = delivery[e]
    <3>1. InHand(s, e)'
      <4>1. CASE pc'[s] = "following"
        BY <4>1 DEF InHand, Resending
      <4>2. CASE pc'[s] # "following"
        <5>1. pc'[s] = "resolving" /\ current'[s] = f /\ delivery' = [delivery EXCEPT ![f].resolved = TRUE]
              /\ known[s][f] # None
          BY <1>9, <1>a, <4>2 DEF ClaimResolution, TypeOK
        <5>2. ASSUME f = e PROVE delivery'[e].resolved
          <6>1. delivery[e] \in Delivery
            BY <1>a, <5>1, <5>2 DEF TypeOK, Owned
          <6> QED BY <1>a, <5>1, <5>2, <6>1 DEF TypeOK, Delivery
        <5> QED BY <5>1, <5>2 DEF InHand, Resending
      <4> QED BY <4>1, <4>2
    <3> QED BY <2>0, <2>1, <3>1, SoleQuiet
  <2>2. CASE delivery'[e] # delivery[e]
    <3>1. /\ f = e /\ pc'[s] = "resolving"
          /\ delivery'[e] = [delivery[e] EXCEPT !.resolved = TRUE] /\ known[s][e] # None
      <4>1. /\ delivery' = [delivery EXCEPT ![f].resolved = TRUE]
            /\ pc' = [pc EXCEPT ![s] = "resolving"] /\ known[s][f] # None
        BY <1>9, <2>2 DEF ClaimResolution
      <4>2. f = e
        BY <1>a, <2>2, <4>1 DEF TypeOK
      <4> QED BY <1>a, <4>1, <4>2 DEF TypeOK
    <3>2. delivery[e] \in Delivery
      BY <1>a, <3>1 DEF TypeOK, Owned
    <3>3. delivery'[e].resolved /\ delivery'[e].sentAt # -1
      BY <3>1, <3>2 DEF Delivery
    <3>4. Recorded(e)' /\ Earned(e)'
      BY <1>a, <2>0, <3>3 DEF Recorded, Earned, Posts, None
    <3>5. InHand(s, e)'
      BY <3>1, <3>3 DEF InHand, Resending
    <3> QED BY <2>0, <3>4, <3>5, Sole DEF Lone
  <2> QED BY <2>1, <2>2
<1>10. ASSUME PostResolution(s) PROVE Lone(e)'
  <2> DEFINE f == current[s]
  <2>a. f \in Episode
    BY <1>10, <1>a DEF PostResolution, Owned
  <2>0. PICK n \in 0..2 : Appended(s, f, "resolution", n)
    BY <1>10, <1>a, <2>a, PostAppends DEF PostResolution
  <2>1. /\ posted' \in [Episode -> Seq(Message)] /\ delivery' = delivery
        /\ pc' = [pc EXCEPT ![s] = "following"] \/ pc' = [pc EXCEPT ![s] = "following"]
    BY <1>10, <1>a, <2>a, PostAppends DEF PostResolution
  <2>2. ~Resending(s, e) /\ \A q \in Replica \ {s} : pc'[q] = pc[q]
    BY <1>10, <1>a, <2>1 DEF PostResolution, Resending, TypeOK
  <2>3. InHand(s, e)'
    BY <1>a, <2>1 DEF InHand, Resending, TypeOK
  <2>4. CASE f # e
    <3>1. posted'[e] = posted[e]
      BY <2>0, <2>4 DEF Appended
    <3> QED BY <2>1, <2>2, <2>3, <3>1, SoleQuiet
  <2>5. CASE f = e
    <3>1. Earned(e)'
      BY <1>a, <2>0, <2>5, PostEarned
    <3>2. delivery[e] # None /\ delivery[e].resolved
      BY <1>10, <1>a, <2>5 DEF PostResolution, InHand, Owned
    <3>3. Recorded(e)'
      BY <2>1, <3>2 DEF Recorded
    <3> QED BY <2>2, <2>3, <3>1, <3>3, Sole DEF Lone
  <2> QED BY <2>4, <2>5
<1>11. ASSUME Done(s) PROVE Lone(e)'
  BY <1>11, <1>a, SoleQuiet DEF Done, InHand, Resending, Baseline, TypeOK
<1>12. ASSUME StatementFails(s) PROVE Lone(e)'
  <2>1. ~Resending(s, e)
    BY <1>12 DEF StatementFails, Unrecorded, Resending
  <2> QED BY <1>12, <2>1, <1>a, SoleQuiet DEF StatementFails, InHand, Resending, Baseline, TypeOK
<1>13. ASSUME ClaimFails(s) PROVE Lone(e)'
  <2>1. /\ UNCHANGED <<posted, delivery, pc, now, quoted, known, current>>
        /\ pc[s] \in {"alerting", "following"} /\ todo'[s] \subseteq todo[s]
    BY <1>13, <1>a DEF ClaimFails, TypeOK
  <2> QED BY <2>1, <1>a, SoleQuiet DEF InHand, Resending, Baseline
<1>14. ASSUME Die(s) PROVE Lone(e)'
  <2>1. ~Resending(s, e)
    BY <1>14 DEF Die, Unrecorded, Resending
  <2> QED BY <1>14, <2>1, <1>a, SoleQuiet DEF Die, InHand, Resending, Baseline, TypeOK
<1> QED
  BY <1>1, <1>2, <1>3, <1>4, <1>5, <1>6, <1>7, <1>8, <1>9, <1>10, <1>11, <1>12, <1>13, <1>14 DEF Announce

LEMMA LoneNext ==
  ASSUME IndType, LoneInv, [Next]_vars
  PROVE  LoneInv'
<1> SUFFICES ASSUME NEW e \in Episode, e \notin excused' PROVE Lone(e)'
  BY DEF LoneInv
<1> USE DEF world, run
<1>a. TypeOK
  BY DEF IndType
<1>1. excused \subseteq excused' /\ Lone(e)
  <2>1. excused \subseteq excused'
    <3>1. CASE UNCHANGED vars
      BY <3>1 DEF vars
    <3>2. ASSUME Tick \/ \E f \in Episode : Resolve(f) \/ \E v \in 0..MaxEdge : Observe(f, v)
          PROVE  excused' = excused
      BY <3>2 DEF Tick, Resolve, Observe
    <3>3. ASSUME NEW s \in Replica, Announce(s) PROVE excused \subseteq excused'
      <4>1. ASSUME LoadDeliveries(s) PROVE excused \subseteq excused'
        BY <1>a, <4>1 DEF LoadDeliveries, TypeOK
      <4>2. ASSUME NEW f \in Episode, Escalate(s, f) PROVE excused \subseteq excused'
        BY <4>2 DEF Escalate
      <4>3. ASSUME NEW f \in Episode, Suppress(s, f) \/ Claim(s, f) \/ ClaimResolution(s, f)
            PROVE  excused' = excused
        BY <4>3 DEF Suppress, Claim, ClaimResolution
      <4>4. ASSUME \/ LoadConfirmed(s) \/ LoadResolved(s) \/ Send(s) \/ RecordMessageId(s)
                   \/ RecordResend(s) \/ LoadEnded(s) \/ PostResolution(s) \/ Done(s)
            PROVE  excused' = excused
        BY <4>4 DEF LoadConfirmed, LoadResolved, Send, RecordMessageId, RecordResend, LoadEnded,
          PostResolution, Done
      <4> QED BY <3>3, <4>1, <4>2, <4>3, <4>4 DEF Announce
    <3>4. ASSUME NEW s \in Replica, StatementFails(s) \/ ClaimFails(s) \/ Die(s)
          PROVE  excused \subseteq excused'
      BY <3>4 DEF StatementFails, ClaimFails, Die, Unrecorded
    <3> QED BY <3>1, <3>2, <3>3, <3>4 DEF Next
  <2> QED BY <2>1 DEF LoneInv
<1>2. CASE UNCHANGED vars \/ Tick \/ \E f \in Episode : Resolve(f) \/ \E v \in 0..MaxEdge : Observe(f, v)
  BY <1>1, <1>2, Aside DEF vars, Tick, Resolve, Observe
<1>3. ASSUME NEW s \in Replica, Announcing(s),
             Announce(s) \/ StatementFails(s) \/ ClaimFails(s) \/ Die(s)
      PROVE  Lone(e)'
  BY <1>1, <1>3, LoneAnnounces
<1>4. ASSUME NEW s \in Replica, ~Announcing(s),
             Announce(s) \/ StatementFails(s) \/ ClaimFails(s) \/ Die(s)
      PROVE  Lone(e)'
  <2>1. CASE LoadConfirmed(s)
    BY <1>a, <1>1, <2>1, Aside DEF LoadConfirmed, Announcing, TypeOK
  <2>2. CASE LoadResolved(s)
    BY <1>a, <1>1, <2>2, Aside DEF LoadResolved, Announcing, TypeOK
  <2>3. CASE LoadDeliveries(s)
    <3>1. \A q \in Replica \ {s} : ~Announcing(q) /\ ~Announcing(q)'
      BY <1>a, <2>3 DEF LoadDeliveries, Announcing, TypeOK
    <3>2. Alone'
      BY <3>1 DEF Alone
    <3>3. \A q \in Replica : ~Resending(q, e)
      BY <2>3, <3>1 DEF LoadDeliveries, Announcing, Resending
    <3>4. Recorded(e)' /\ Earned(e)'
      BY <1>1, <2>3, <3>3 DEF LoadDeliveries, Lone, Recorded, Earned, Posts, Baseline
    <3>5. InHand(s, e)'
      BY <1>a, <2>3 DEF LoadDeliveries, InHand, Resending, TypeOK
    <3>6. \A q \in Replica \ {s} : InHand(q, e)'
      BY <3>1 DEF Announcing, InHand, Resending
    <3> QED BY <3>2, <3>4, <3>5, <3>6 DEF Lone
  <2>4. CASE Die(s)
    <3>1. /\ pc' = [pc EXCEPT ![s] = "idle"] /\ posted' = posted /\ delivery' = delivery
          /\ current' = current /\ now' = now /\ quoted' = quoted /\ known' = known /\ todo' = todo
      BY <2>4 DEF Die
    <3>2. ~Announcing(s)' /\ \A q \in Replica \ {s} : pc'[q] = pc[q]
      BY <1>a, <3>1 DEF Announcing, TypeOK
    <3> QED BY <1>1, <1>4, <3>1, <3>2, Aside
  <2> QED
    BY <1>4, <2>1, <2>2, <2>3, <2>4 DEF Announcing, Announce, Suppress, Claim, Escalate, Send,
      RecordMessageId, RecordResend, LoadEnded, ClaimResolution, PostResolution, Done,
      StatementFails, ClaimFails
<1> QED BY <1>2, <1>3, <1>4 DEF Next

LEMMA LoneInit == Init => LoneInv
BY DEF Init, LoneInv, Lone, Alone, Announcing, Earned, Posts, Recorded, InHand, Resending, Baseline

\* An escalation comes a cooldown after what was last said of its episode and quotes a
\* Factor more, for any number of replicas and whatever fails, unless two announced at
\* once or an escalation was not recorded.
THEOREM EscalationsAreEarned == Spec => []LoneEscalationIsEarned
<1>1. IndType /\ LoneInv => LoneEscalationIsEarned
  BY DEF LoneInv, Lone, LoneEscalationIsEarned
<1> QED BY <1>1, TypeInit, TypeNext, LoneInit, LoneNext, PTL DEF Spec

-----------------------------------------------------------------------------
(* The digest: a job of a replica, and what is sent *)

DigestJob  == [pc : {"idle", "recording", "listing", "counting", "claiming", "sending", "noting"},
         now : Nat, entries : SUBSET DigestEpisode, confirmed : SUBSET DigestEpisode]
DigestPost == [hour : Int, entries : SUBSET DigestEpisode, confirmed : SUBSET DigestEpisode]

DigestTypes ==
  /\ clock \in Nat /\ faults \in Nat
  /\ episodes \in [DigestEpisode -> [detected : Nat \cup {Digest!Never}, confirmed : BOOLEAN]]
  /\ jobs \in [Replica -> DigestJob] /\ posts \in Seq(DigestPost)
  /\ claimed \subseteq Int /\ done \subseteq Int /\ late \subseteq DigestEpisode

\* Nobody's time is ahead, and only hours that are over are dealt with.
InTime ==
  /\ \A r \in Replica : jobs[r].now <= clock
  /\ \A hour \in done \cup claimed : hour < Digest!HourOf(clock)

\* A claimed hour has one replica that sends its digest, or has it sent.
HoursOwned ==
  /\ \A i \in DOMAIN posts : posts[i].hour \in claimed
  /\ \A r \in Replica : Digest!At(r, "sending") \/ Digest!At(r, "noting") =>
       Digest!Window(r) \in claimed
  /\ \A r \in Replica : Digest!At(r, "sending") =>
       \A i \in DOMAIN posts : posts[i].hour # Digest!Window(r)
  /\ \A r, s \in Replica :
       Digest!At(r, "sending") /\ Digest!At(s, "sending") /\ Digest!Window(r) = Digest!Window(s)
         => r = s
  /\ \A i, k \in DOMAIN posts : posts[i].hour = posts[k].hour => i = k

Holding(r) == Digest!At(r, "counting") \/ Digest!At(r, "claiming") \/ Digest!At(r, "sending")

\* A list that is not cut stays whole from the moment it is read: its hour is over.
ListsWhole ==
  \A r \in Replica : Holding(r) =>
    /\ jobs[r].entries \subseteq Digest!DetectedIn(Digest!Window(r))
    /\ \/ Digest!Cardinality(jobs[r].entries) = DigestLimit
       \/ Digest!DetectedIn(Digest!Window(r)) \cap Digest!Unconfirmed
            \subseteq jobs[r].entries \cup late

PostsWhole == \A i \in DOMAIN posts : posts[i].entries \subseteq Digest!DetectedIn(posts[i].hour)

HoursWhole ==
  faults = 0 =>
    \A hour \in done \cup claimed : Digest!Full(hour) \/ Digest!Missed(hour) \subseteq late

DigestInv == DigestTypes /\ InTime /\ HoursOwned /\ ListsWhole /\ PostsWhole /\ HoursWhole

-----------------------------------------------------------------------------
LEMMA HoursInOrder ==
  ASSUME HourLength \in Nat \ {0}
  PROVE  /\ \A t \in Nat : Digest!HourOf(t) \in Nat
         /\ \A s, t \in Nat : s <= t => Digest!HourOf(s) <= Digest!HourOf(t)
<1>1. \A t \in Nat : Digest!HourOf(t) \in Nat
  BY DEF Digest!HourOf
<1>2. ASSUME NEW s \in Nat, NEW t \in Nat, s <= t
      PROVE  Digest!HourOf(s) <= Digest!HourOf(t)
  BY <1>2 DEF Digest!HourOf
<1> QED  BY <1>1, <1>2

\* The window of a digest is an hour that is over.
LEMMA WindowIsOver ==
  ASSUME HourLength \in Nat \ {0}, DigestTypes, InTime, NEW r \in Replica
  PROVE  Digest!Window(r) \in Int /\ Digest!Window(r) < Digest!HourOf(clock)
<1>1. jobs[r].now \in Nat /\ clock \in Nat /\ jobs[r].now <= clock
  BY DEF DigestTypes, InTime, DigestJob
<1>2. /\ Digest!HourOf(jobs[r].now) \in Nat
      /\ Digest!HourOf(clock) \in Nat
      /\ Digest!HourOf(jobs[r].now) <= Digest!HourOf(clock)
  BY <1>1, HoursInOrder
<1> QED  BY <1>2 DEF Digest!Window

\* What an action leaves of the job of its replica, and of the others.
LEMMA JobsAfter ==
  ASSUME DigestTypes, NEW r \in Replica, NEW j \in DigestJob, jobs' = [jobs EXCEPT ![r] = j]
  PROVE  /\ jobs' \in [Replica -> DigestJob] /\ jobs'[r] = j
         /\ \A s \in Replica \ {r} : jobs'[s] = jobs[s]
  BY DEF DigestTypes

LEMMA NoJob ==
  /\ Digest!None \in DigestJob
  /\ Digest!None.pc = "idle" /\ Digest!None.now = 0 /\ Digest!None.entries = {}
  BY DEF Digest!None, DigestJob

LEMMA JobGoes ==
  ASSUME DigestTypes, NEW r \in Replica, NEW stage \in {"sending", "noting"},
         Digest!GoTo(r, stage)
  PROVE  /\ jobs' \in [Replica -> DigestJob]
         /\ jobs'[r].pc = stage
         /\ jobs'[r].now = jobs[r].now
         /\ jobs'[r].entries = jobs[r].entries
         /\ \A s \in Replica \ {r} : jobs'[s] = jobs[s]
<1> DEFINE j == [jobs[r] EXCEPT !.pc = stage]
<1>1. /\ j \in DigestJob
      /\ j.pc = stage /\ j.now = jobs[r].now /\ j.entries = jobs[r].entries
  BY DEF DigestTypes, DigestJob
<1>2. jobs' = [jobs EXCEPT ![r] = j]
  BY DEF Digest!GoTo
<1> HIDE DEF j
<1> QED  BY <1>1, <1>2, JobsAfter

LEMMA JobBegins ==
  ASSUME DigestTypes, NEW r \in Replica, NEW stage \in {"recording", "listing"},
         jobs' = [jobs EXCEPT ![r] = [Digest!None EXCEPT !.pc = stage, !.now = clock]]
  PROVE  /\ jobs' \in [Replica -> DigestJob] /\ jobs'[r].pc = stage /\ jobs'[r].now = clock
         /\ \A s \in Replica \ {r} : jobs'[s] = jobs[s]
<1> DEFINE j == [Digest!None EXCEPT !.pc = stage, !.now = clock]
<1>1. j \in DigestJob /\ j.pc = stage /\ j.now = clock
  BY DEF DigestTypes, Digest!None, DigestJob
<1> HIDE DEF j
<1> QED  BY <1>1, JobsAfter DEF j

LEMMA JobLists ==
  ASSUME DigestTypes, NEW r \in Replica, Digest!List(r)
  PROVE  /\ jobs' \in [Replica -> DigestJob]
         /\ jobs'[r].pc = "counting" /\ jobs'[r].now = jobs[r].now
         /\ jobs'[r].entries \in Digest!Listed(Digest!DetectedIn(Digest!Window(r)) \cap Digest!Unconfirmed)
         /\ \A s \in Replica \ {r} : jobs'[s] = jobs[s]
<1> DEFINE found == Digest!DetectedIn(Digest!Window(r)) \cap Digest!Unconfirmed
<1>1. PICK E \in Digest!Listed(found) :
        jobs' = [jobs EXCEPT ![r].pc = "counting", ![r].entries = E]
  BY DEF Digest!List
<1>2. E \in SUBSET DigestEpisode
  BY DEF Digest!Listed, Digest!DetectedIn
<1> HIDE DEF found
<1> DEFINE j == [jobs[r] EXCEPT !.pc = "counting", !.entries = E]
<1>3. /\ j \in DigestJob
      /\ j.pc = "counting" /\ j.now = jobs[r].now /\ j.entries = E
  BY <1>2 DEF DigestTypes, DigestJob
<1>4. jobs' = [jobs EXCEPT ![r] = j]
  BY <1>1 DEF DigestTypes, DigestJob
<1> HIDE DEF j
<1> QED  BY <1>1, <1>3, <1>4, JobsAfter DEF found

\* What is listed is all that was found, or as much as the limit allows.
LEMMA ListedOrFull ==
  ASSUME NEW found, NEW E \in Digest!Listed(found)
  PROVE  E \subseteq found /\ (E = found \/ Digest!Cardinality(E) = DigestLimit)
BY DEF Digest!Listed

\* With nothing to list the job is over, otherwise it keeps its list.
LEMMA JobCounts ==
  ASSUME DigestTypes, NEW r \in Replica, Digest!Count(r)
  PROVE  /\ jobs' \in [Replica -> DigestJob]
         /\ \A s \in Replica \ {r} : jobs'[s] = jobs[s]
         /\ IF jobs[r].entries = {} THEN jobs'[r] = Digest!None
            ELSE /\ jobs'[r].pc = "claiming" /\ jobs'[r].now = jobs[r].now
                 /\ jobs'[r].entries = jobs[r].entries
<1>1. CASE jobs[r].entries = {}
  BY <1>1, NoJob, JobsAfter DEF Digest!Count, Digest!Leave
<1>2. CASE jobs[r].entries # {}
  <2> DEFINE C == Digest!DetectedIn(Digest!Window(r)) \ Digest!Unconfirmed
             j == [jobs[r] EXCEPT !.pc = "claiming", !.confirmed = C]
  <2>1. C \in SUBSET DigestEpisode
    BY DEF Digest!DetectedIn
  <2>2. jobs' = [jobs EXCEPT ![r].pc = "claiming", ![r].confirmed = C]
    BY <1>2 DEF Digest!Count
  <2> HIDE DEF C
  <2>3. /\ j \in DigestJob
        /\ j.pc = "claiming" /\ j.now = jobs[r].now /\ j.entries = jobs[r].entries
    BY <2>1 DEF DigestTypes, DigestJob
  <2>4. jobs' = [jobs EXCEPT ![r] = j]
    BY <2>2 DEF DigestTypes, DigestJob
  <2> HIDE DEF j
  <2> QED  BY <1>2, <2>3, <2>4, JobsAfter
<1> QED  BY <1>1, <1>2

LEMMA JobLeaves ==
  ASSUME DigestTypes, NEW r \in Replica, Digest!Leave(r)
  PROVE  /\ jobs' \in [Replica -> DigestJob] /\ jobs'[r] = Digest!None
         /\ \A s \in Replica \ {r} : jobs'[s] = jobs[s]
  BY NoJob, JobsAfter DEF Digest!Leave

\* What is sent.
LEMMA PostAfter ==
  ASSUME HourLength \in Nat \ {0}, DigestTypes, InTime, NEW r \in Replica, Digest!Send(r)
  PROVE  /\ posts' \in Seq(DigestPost) /\ DOMAIN posts' = DOMAIN posts \cup {Len(posts) + 1}
         /\ Len(posts) + 1 \notin DOMAIN posts
         /\ \A i \in DOMAIN posts : posts'[i] = posts[i]
         /\ posts'[Len(posts) + 1].hour = Digest!Window(r)
         /\ posts'[Len(posts) + 1].entries = jobs[r].entries
<1> DEFINE p == [hour |-> Digest!Window(r), entries |-> jobs[r].entries,
                 confirmed |-> jobs[r].confirmed]
<1>1. p \in DigestPost /\ p.hour = Digest!Window(r) /\ p.entries = jobs[r].entries
  BY WindowIsOver DEF DigestTypes, DigestPost, DigestJob
<1>2. posts' = Append(posts, p) /\ posts \in Seq(DigestPost)
  BY DEF Digest!Send, DigestTypes
<1> HIDE DEF p
<1> QED  BY <1>1, <1>2

\* The episode a statement of recordViolations touches.
LEMMA EpisodesAfter ==
  ASSUME DigestTypes, NEW r \in Replica, NEW e \in DigestEpisode,
         Digest!InsertEpisode(r, e) \/ Digest!Upgrade(r, e)
  PROVE  /\ episodes' \in
              [DigestEpisode -> [detected : Nat \cup {Digest!Never}, confirmed : BOOLEAN]]
         /\ \A x \in DigestEpisode \ {e} : episodes'[x] = episodes[x]
         /\ Digest!InsertEpisode(r, e) => episodes'[e].detected = jobs[r].now
         /\ Digest!Upgrade(r, e) =>
              episodes'[e].detected = episodes[e].detected /\ episodes'[e].confirmed
<1>1. CASE Digest!InsertEpisode(r, e)
  <2>1. PICK confirmed \in BOOLEAN :
          episodes' = [episodes EXCEPT ![e] = [detected |-> jobs[r].now, confirmed |-> confirmed]]
    BY <1>1 DEF Digest!InsertEpisode
  <2>2. jobs[r].now \in Nat /\ episodes[e].detected = Digest!Never
    BY <1>1 DEF Digest!InsertEpisode, DigestTypes, DigestJob
  <2>3. ~Digest!Upgrade(r, e)
    BY <2>2 DEF Digest!Upgrade
  <2> QED  BY <2>1, <2>2, <2>3 DEF DigestTypes
<1>2. CASE Digest!Upgrade(r, e)
  <2>1. ~Digest!InsertEpisode(r, e)
    BY <1>2 DEF Digest!Upgrade, Digest!InsertEpisode
  <2>2. episodes' = [episodes EXCEPT ![e].confirmed = TRUE]
    BY <1>2 DEF Digest!Upgrade
  <2> QED  BY <2>1, <2>2 DEF DigestTypes
<1> QED  BY <1>1, <1>2

LEMMA DigestTypesKept ==
  ASSUME HourLength \in Nat \ {0}, DigestTypes, InTime, [Digest!Next]_Digest!vars
  PROVE  DigestTypes'
<1>1. CASE UNCHANGED Digest!vars
  BY <1>1 DEF DigestTypes, Digest!vars
<1>2. CASE Digest!Tick
  BY <1>2 DEF DigestTypes, Digest!Tick
<1>3. ASSUME NEW r \in Replica, Digest!BeginRecording(r) \/ Digest!BeginDigest(r)
      PROVE  DigestTypes'
  BY <1>3, JobBegins DEF Digest!BeginRecording, Digest!BeginDigest, DigestTypes
<1>4. ASSUME NEW r \in Replica, Digest!List(r)
      PROVE  DigestTypes'
  BY <1>4, JobLists DEF Digest!List, DigestTypes
<1>5. ASSUME NEW r \in Replica, Digest!Count(r)
      PROVE  DigestTypes'
  <2>1. Digest!Window(r) \in Int /\ jobs' \in [Replica -> DigestJob]
    BY <1>5, JobCounts, WindowIsOver
  <2>2. done' \subseteq done \cup {Digest!Window(r)}
    BY <1>5 DEF Digest!Count
  <2>3. done' \subseteq Int
    BY <2>1, <2>2 DEF DigestTypes
  <2> QED  BY <1>5, <2>1, <2>3 DEF Digest!Count, DigestTypes
<1>6. ASSUME NEW r \in Replica, Digest!Claim(r)
      PROVE  DigestTypes'
  <2>1. Digest!Window(r) \in Int /\ jobs' \in [Replica -> DigestJob]
    BY <1>6, JobLeaves, JobGoes, WindowIsOver DEF Digest!Claim
  <2>2. /\ done' \subseteq done \cup {Digest!Window(r)}
        /\ claimed' \subseteq claimed \cup {Digest!Window(r)}
    BY <1>6 DEF Digest!Claim
  <2>3. done' \subseteq Int /\ claimed' \subseteq Int
    BY <2>1, <2>2 DEF DigestTypes
  <2> QED  BY <1>6, <2>1, <2>3 DEF Digest!Claim, DigestTypes
<1>7. ASSUME NEW r \in Replica, Digest!Send(r)
      PROVE  DigestTypes'
  <2>1. jobs' \in [Replica -> DigestJob] /\ posts' \in Seq(DigestPost)
    BY <1>7, JobGoes, PostAfter DEF Digest!Send
  <2> QED  BY <1>7, <2>1 DEF Digest!Send, DigestTypes
<1>8. ASSUME NEW r \in Replica, Digest!Note(r) \/ Digest!Fail(r)
      PROVE  DigestTypes'
  <2>1. Digest!Window(r) \in Int /\ jobs' \in [Replica -> DigestJob]
    BY <1>8, JobLeaves, WindowIsOver DEF Digest!Note, Digest!Fail
  <2>2. done' \subseteq done \cup {Digest!Window(r)}
    BY <1>8 DEF Digest!Note, Digest!Fail
  <2>3. done' \subseteq Int
    BY <2>1, <2>2 DEF DigestTypes
  <2>4. faults' \in Nat /\ UNCHANGED <<clock, episodes, claimed, posts, late>>
    BY <1>8 DEF Digest!Note, Digest!Fail, DigestTypes
  <2> QED  BY <2>1, <2>3, <2>4 DEF DigestTypes
<1>9. ASSUME NEW r \in Replica, NEW e \in DigestEpisode,
             Digest!InsertEpisode(r, e) \/ Digest!Upgrade(r, e)
      PROVE  DigestTypes'
  BY <1>9, EpisodesAfter DEF Digest!InsertEpisode, Digest!Upgrade, DigestTypes
<1> QED  BY <1>1, <1>2, <1>3, <1>4, <1>5, <1>6, <1>7, <1>8, <1>9 DEF Digest!Next

LEMMA InTimeKept ==
  ASSUME HourLength \in Nat \ {0}, DigestTypes, InTime, [Digest!Next]_Digest!vars
  PROVE  InTime'
<1> USE DEF InTime
<1>1. CASE UNCHANGED Digest!vars
  BY <1>1 DEF Digest!vars
<1>2. CASE Digest!Tick
  <2>1. clock \in Nat /\ clock' = clock + 1
    BY <1>2 DEF Digest!Tick, DigestTypes
  <2>2. /\ Digest!HourOf(clock) \in Nat
        /\ Digest!HourOf(clock') \in Nat
        /\ Digest!HourOf(clock) <= Digest!HourOf(clock')
    BY <2>1, HoursInOrder
  <2>3. \A hour \in (done \cup claimed)' : hour < Digest!HourOf(clock')
    BY <1>2, <2>2 DEF Digest!Tick, DigestTypes
  <2> QED  BY <1>2, <2>1, <2>3 DEF Digest!Tick, DigestTypes, DigestJob
<1>3. ASSUME NEW r \in Replica, Digest!BeginRecording(r) \/ Digest!BeginDigest(r)
      PROVE  InTime'
  <2>1. jobs'[r].now = clock /\ \A s \in Replica \ {r} : jobs'[s] = jobs[s]
    BY <1>3, JobBegins DEF Digest!BeginRecording, Digest!BeginDigest
  <2>2. UNCHANGED <<clock, done, claimed>> /\ clock \in Nat
    BY <1>3 DEF Digest!BeginRecording, Digest!BeginDigest, DigestTypes
  <2>3. \A s \in Replica : jobs'[s].now <= clock
    BY <2>1, <2>2
  <2> QED  BY <2>2, <2>3
<1>4. ASSUME NEW r \in Replica,
             Digest!List(r) \/ Digest!Count(r) \/ Digest!Claim(r)
               \/ Digest!Send(r) \/ Digest!Note(r) \/ Digest!Fail(r)
      PROVE  InTime'
  <2>1. Digest!Window(r) < Digest!HourOf(clock)
    BY WindowIsOver
  <2>2. clock' = clock /\ clock \in Nat
    BY <1>4 DEF Digest!List, Digest!Count, Digest!Claim, Digest!Send, Digest!Note, Digest!Fail,
       DigestTypes
  <2>3. \A s \in Replica : jobs'[s].now = jobs[s].now \/ jobs'[s].now = 0
    BY <1>4, NoJob, JobLists, JobCounts, JobLeaves, JobGoes
       DEF Digest!Claim, Digest!Send, Digest!Note, Digest!Fail
  <2>4. (done \cup claimed)' \subseteq done \cup claimed \cup {Digest!Window(r)}
    BY <1>4 DEF Digest!List, Digest!Count, Digest!Claim, Digest!Send, Digest!Note, Digest!Fail
  <2> QED  BY <2>1, <2>2, <2>3, <2>4
<1>5. ASSUME NEW r \in Replica, NEW e \in DigestEpisode,
             Digest!InsertEpisode(r, e) \/ Digest!Upgrade(r, e)
      PROVE  InTime'
  BY <1>5 DEF Digest!InsertEpisode, Digest!Upgrade
<1> QED  BY <1>1, <1>2, <1>3, <1>4, <1>5 DEF Digest!Next
-----------------------------------------------------------------------------
(* An hour has one digest *)

LEMMA HoursOwnedKept ==
  ASSUME HourLength \in Nat \ {0}, DigestTypes, InTime, HoursOwned, [Digest!Next]_Digest!vars
  PROVE  HoursOwned'
<1> USE DEF HoursOwned, Digest!At, Digest!Window
<1>1. CASE UNCHANGED Digest!vars
  BY <1>1 DEF Digest!vars
<1>2. CASE Digest!Tick
  BY <1>2 DEF Digest!Tick
<1>3. ASSUME NEW r \in Replica,
             Digest!BeginRecording(r) \/ Digest!BeginDigest(r) \/ Digest!List(r)
               \/ Digest!Count(r)
      PROVE  HoursOwned'
  <2>1. /\ ~Digest!At(r, "sending")' /\ ~Digest!At(r, "noting")'
        /\ \A s \in Replica \ {r} : jobs'[s] = jobs[s]
    BY <1>3, JobBegins, JobLists, JobCounts, NoJob DEF Digest!BeginRecording, Digest!BeginDigest
  <2>2. UNCHANGED <<posts, claimed>>
    BY <1>3 DEF Digest!BeginRecording, Digest!BeginDigest, Digest!List, Digest!Count
  <2> QED  BY <2>1, <2>2
<1>4. ASSUME NEW r \in Replica, Digest!Claim(r)
      PROVE  HoursOwned'
  <2>1. CASE Digest!Window(r) \in claimed
    <3>1. /\ ~Digest!At(r, "sending")' /\ ~Digest!At(r, "noting")' /\ UNCHANGED <<posts, claimed>>
          /\ \A s \in Replica \ {r} : jobs'[s] = jobs[s]
      BY <1>4, <2>1, JobLeaves, NoJob DEF Digest!Claim
    <3> QED  BY <3>1
  <2>2. CASE Digest!Window(r) \notin claimed
    <3>1. /\ Digest!Window(r)' = Digest!Window(r)
          /\ claimed' = claimed \cup {Digest!Window(r)}
          /\ posts' = posts
          /\ \A s \in Replica \ {r} : jobs'[s] = jobs[s]
      BY <1>4, <2>2, JobGoes DEF Digest!Claim
    <3> QED  BY <2>2, <3>1
  <2> QED  BY <2>1, <2>2
<1>5. ASSUME NEW r \in Replica, Digest!Send(r)
      PROVE  HoursOwned'
  <2>1. /\ Digest!At(r, "sending")
        /\ ~Digest!At(r, "sending")'
        /\ Digest!Window(r)' = Digest!Window(r)
        /\ claimed' = claimed
        /\ \A s \in Replica \ {r} : jobs'[s] = jobs[s]
    BY <1>5, JobGoes DEF Digest!Send
  <2>2. /\ DOMAIN posts' = DOMAIN posts \cup {Len(posts) + 1}
        /\ \A i \in DOMAIN posts : posts'[i] = posts[i]
        /\ posts'[Len(posts) + 1].hour = Digest!Window(r)
    BY <1>5, PostAfter
  <2> HIDE DEF Digest!At, Digest!Window
  <2>3. \A s \in Replica \ {r} : (Digest!At(s, "sending")' => Digest!At(s, "sending"))
                                 /\ (Digest!At(s, "noting")' => Digest!At(s, "noting"))
                                 /\ Digest!Window(s)' = Digest!Window(s)
    BY <2>1 DEF Digest!At, Digest!Window
  <2>4. /\ \A i \in DOMAIN posts' : posts'[i].hour \in claimed'
        /\ \A i, k \in DOMAIN posts' : posts'[i].hour = posts'[k].hour => i = k
    BY <2>1, <2>2
  <2>5. \A s \in Replica : Digest!At(s, "sending")' =>
          \A i \in DOMAIN posts' : posts'[i].hour # Digest!Window(s)'
    <3> SUFFICES ASSUME NEW s \in Replica, Digest!At(s, "sending")', NEW i \in DOMAIN posts'
                 PROVE  posts'[i].hour # Digest!Window(s)'
      OBVIOUS
    <3>1. s # r /\ Digest!At(s, "sending") /\ Digest!Window(s)' = Digest!Window(s)
      BY <2>1, <2>3
    <3>2. Digest!Window(s) # Digest!Window(r)
      BY <2>1, <3>1
    <3> QED  BY <2>2, <3>1, <3>2
  <2>6. /\ \A s \in Replica : Digest!At(s, "sending")' \/ Digest!At(s, "noting")' =>
             Digest!Window(s)' \in claimed'
        /\ \A s, t \in Replica :
             Digest!At(s, "sending")' /\ Digest!At(t, "sending")'
               /\ Digest!Window(s)' = Digest!Window(t)'
               => s = t
    BY <2>1, <2>3
  <2> QED  BY <2>4, <2>5, <2>6
<1>6. ASSUME NEW r \in Replica, Digest!Note(r) \/ Digest!Fail(r)
      PROVE  HoursOwned'
  <2>1. /\ ~Digest!At(r, "sending")' /\ ~Digest!At(r, "noting")' /\ UNCHANGED <<posts, claimed>>
        /\ \A s \in Replica \ {r} : jobs'[s] = jobs[s]
    BY <1>6, JobLeaves, NoJob DEF Digest!Note, Digest!Fail
  <2> QED  BY <2>1
<1>7. ASSUME NEW r \in Replica, NEW e \in DigestEpisode,
             Digest!InsertEpisode(r, e) \/ Digest!Upgrade(r, e)
      PROVE  HoursOwned'
  BY <1>7 DEF Digest!InsertEpisode, Digest!Upgrade
<1> QED  BY <1>1, <1>2, <1>3, <1>4, <1>5, <1>6, <1>7 DEF Digest!Next

-----------------------------------------------------------------------------
(* The digest of an hour is whole *)

\* What was detected stays; what joins the unconfirmed of an hour that is over is late.
LEMMA DetectedAfter ==
  ASSUME HourLength \in Nat \ {0}, DigestTypes, InTime, [Digest!Next]_Digest!vars,
         NEW hour \in Int
  PROVE  /\ Digest!DetectedIn(hour) \subseteq Digest!DetectedIn(hour)' /\ late \subseteq late'
         /\ hour < Digest!HourOf(clock) =>
              (Digest!DetectedIn(hour) \cap Digest!Unconfirmed)'
                \subseteq (Digest!DetectedIn(hour) \cap Digest!Unconfirmed) \cup late'
<1>1. CASE UNCHANGED <<episodes, late>>
  BY <1>1 DEF Digest!DetectedIn, Digest!Unconfirmed
<1>2. ASSUME NEW r \in Replica, NEW e \in DigestEpisode, Digest!InsertEpisode(r, e)
      PROVE  /\ Digest!DetectedIn(hour) \subseteq Digest!DetectedIn(hour)' /\ late \subseteq late'
             /\ hour < Digest!HourOf(clock) =>
                  (Digest!DetectedIn(hour) \cap Digest!Unconfirmed)'
                    \subseteq (Digest!DetectedIn(hour) \cap Digest!Unconfirmed) \cup late'
  <2>1. /\ episodes[e].detected = Digest!Never /\ episodes'[e].detected = jobs[r].now
        /\ \A x \in DigestEpisode \ {e} : episodes'[x] = episodes[x]
        /\ late' = IF Digest!HourOf(jobs[r].now) < Digest!HourOf(clock)
                     THEN late \cup {e} ELSE late
    BY <1>2, EpisodesAfter DEF Digest!InsertEpisode
  <2>2. e \in Digest!DetectedIn(hour)' => Digest!HourOf(jobs[r].now) = hour
    BY <2>1 DEF Digest!DetectedIn
  <2>3. \A x \in DigestEpisode \ {e} :
          /\ x \in Digest!DetectedIn(hour)' <=> x \in Digest!DetectedIn(hour)
          /\ x \in Digest!Unconfirmed' <=> x \in Digest!Unconfirmed
    BY <2>1 DEF Digest!DetectedIn, Digest!Unconfirmed
  <2>4. /\ e \notin Digest!DetectedIn(hour)
        /\ Digest!DetectedIn(hour) \subseteq DigestEpisode
        /\ Digest!DetectedIn(hour)' \subseteq DigestEpisode
    BY <2>1 DEF Digest!DetectedIn
  <2>5. ASSUME NEW x \in Digest!DetectedIn(hour)', x # e
        PROVE  x \in Digest!DetectedIn(hour) /\ (x \in Digest!Unconfirmed' => x \in Digest!Unconfirmed)
    BY <2>3, <2>4, <2>5
  <2>6. Digest!DetectedIn(hour) \subseteq Digest!DetectedIn(hour)' /\ late \subseteq late'
    BY <2>1, <2>3, <2>4
  <2>7. hour < Digest!HourOf(clock) /\ e \in Digest!DetectedIn(hour)' => e \in late'
    BY <2>1, <2>2
  <2> QED  BY <2>5, <2>6, <2>7
<1>3. ASSUME NEW r \in Replica, NEW e \in DigestEpisode, Digest!Upgrade(r, e)
      PROVE  /\ Digest!DetectedIn(hour) \subseteq Digest!DetectedIn(hour)' /\ late \subseteq late'
             /\ hour < Digest!HourOf(clock) =>
                  (Digest!DetectedIn(hour) \cap Digest!Unconfirmed)'
                    \subseteq (Digest!DetectedIn(hour) \cap Digest!Unconfirmed) \cup late'
  <2>1. /\ episodes'[e].detected = episodes[e].detected /\ episodes'[e].confirmed
        /\ \A x \in DigestEpisode \ {e} : episodes'[x] = episodes[x]
        /\ late' = late
    BY <1>3, EpisodesAfter DEF Digest!Upgrade
  <2>2. /\ Digest!DetectedIn(hour)' = Digest!DetectedIn(hour)
        /\ Digest!Unconfirmed' \subseteq Digest!Unconfirmed
    BY <2>1 DEF Digest!DetectedIn, Digest!Unconfirmed
  <2> QED  BY <2>1, <2>2
<1>4. \/ \E r \in Replica, e \in DigestEpisode :
           Digest!InsertEpisode(r, e) \/ Digest!Upgrade(r, e)
      \/ UNCHANGED <<episodes, late>>
  BY DEF Digest!Next, Digest!vars, Digest!Tick, Digest!BeginRecording, Digest!BeginDigest,
     Digest!List, Digest!Count, Digest!Claim, Digest!Send, Digest!Note, Digest!Fail
<1> QED  BY <1>1, <1>2, <1>3, <1>4

\* Who held a list still holds the same.
HoldsOn(r) ==
  Holding(r) /\ Digest!Window(r)' = Digest!Window(r) /\ jobs'[r].entries = jobs[r].entries

\* Who holds a list has just read it, or held it before.
LEMMA HeldBefore ==
  ASSUME DigestTypes, [Digest!Next]_Digest!vars, NEW r \in Replica, Holding(r)'
  PROVE  \/ Digest!List(r)
         \/ HoldsOn(r)
<1> USE DEF HoldsOn, Holding, Digest!At, Digest!Window
<1>1. CASE UNCHANGED jobs
  BY <1>1
<1>2. ASSUME NEW s \in Replica, Digest!List(s) \/ Digest!Count(s)
      PROVE  Digest!List(r) \/ HoldsOn(r)
  BY <1>2, JobLists, JobCounts, NoJob DEF Digest!Count
<1>3. ASSUME NEW s \in Replica,
             Digest!BeginRecording(s) \/ Digest!BeginDigest(s) \/ Digest!Note(s) \/ Digest!Fail(s)
      PROVE  HoldsOn(r)
  <2>1. ~Holding(s)' /\ \A o \in Replica \ {s} : jobs'[o] = jobs[o]
    BY <1>3, JobBegins, JobLeaves, NoJob
       DEF Digest!BeginRecording, Digest!BeginDigest, Digest!Note, Digest!Fail
  <2> QED  BY <2>1
<1>4. ASSUME NEW s \in Replica, Digest!Claim(s)
      PROVE  HoldsOn(r)
  <2>1. \/ ~Holding(s)'
        \/ HoldsOn(s)
    BY <1>4, JobLeaves, JobGoes, NoJob DEF Digest!Claim
  <2>2. \A o \in Replica \ {s} : jobs'[o] = jobs[o]
    BY <1>4, JobLeaves, JobGoes DEF Digest!Claim
  <2> QED  BY <2>1, <2>2
<1>5. ASSUME NEW s \in Replica, Digest!Send(s)
      PROVE  HoldsOn(r)
  <2>1. ~Holding(s)' /\ \A o \in Replica \ {s} : jobs'[o] = jobs[o]
    BY <1>5, JobGoes DEF Digest!Send
  <2> QED  BY <2>1
<1>6. ASSUME NEW s \in Replica, NEW e \in DigestEpisode,
             Digest!InsertEpisode(s, e) \/ Digest!Upgrade(s, e)
      PROVE  UNCHANGED jobs
  BY <1>6 DEF Digest!InsertEpisode, Digest!Upgrade
<1> HIDE DEF HoldsOn, Holding, Digest!At, Digest!Window
<1>7. Digest!Tick \/ UNCHANGED Digest!vars => UNCHANGED jobs
  BY DEF Digest!Tick, Digest!vars
<1> QED  BY <1>1, <1>2, <1>3, <1>4, <1>5, <1>6, <1>7 DEF Digest!Next

LEMMA ListsWholeKept ==
  ASSUME HourLength \in Nat \ {0}, DigestTypes, InTime, ListsWhole, [Digest!Next]_Digest!vars
  PROVE  ListsWhole'
<1> SUFFICES ASSUME NEW r \in Replica, Holding(r)'
             PROVE  /\ jobs'[r].entries \subseteq Digest!DetectedIn(Digest!Window(r))'
                    /\ \/ Digest!Cardinality(jobs'[r].entries) = DigestLimit
                       \/ (Digest!DetectedIn(Digest!Window(r)) \cap Digest!Unconfirmed)'
                            \subseteq jobs'[r].entries \cup late'
  BY DEF ListsWhole
<1>1. CASE Digest!List(r)
  <2> DEFINE found == Digest!DetectedIn(Digest!Window(r)) \cap Digest!Unconfirmed
             E == jobs'[r].entries
  <2>0. E \in Digest!Listed(found) /\ Digest!Window(r)' = Digest!Window(r)
    BY <1>1, JobLists DEF Digest!Window
  <2>1. /\ E \subseteq found /\ (E = found \/ Digest!Cardinality(E) = DigestLimit)
        /\ Digest!Window(r)' = Digest!Window(r)
    BY <2>0, ListedOrFull
  <2>2. /\ Digest!DetectedIn(Digest!Window(r))' = Digest!DetectedIn(Digest!Window(r))
        /\ Digest!Unconfirmed' = Digest!Unconfirmed
    BY <1>1, <2>1 DEF Digest!List, Digest!DetectedIn, Digest!Unconfirmed
  <2> QED  BY <2>1, <2>2
<1>2. CASE HoldsOn(r)
  <2>1. Digest!Window(r) \in Int /\ Digest!Window(r) < Digest!HourOf(clock)
    BY WindowIsOver
  <2>2. PICK h \in Int : h = Digest!Window(r)
    BY <2>1
  <2>3. /\ Digest!DetectedIn(h) \subseteq Digest!DetectedIn(h)' /\ late \subseteq late'
        /\ (Digest!DetectedIn(h) \cap Digest!Unconfirmed)'
             \subseteq (Digest!DetectedIn(h) \cap Digest!Unconfirmed) \cup late'
    BY <2>1, <2>2, DetectedAfter
  <2>4. /\ jobs[r].entries \subseteq Digest!DetectedIn(h)
        /\ \/ Digest!Cardinality(jobs[r].entries) = DigestLimit
           \/ Digest!DetectedIn(h) \cap Digest!Unconfirmed \subseteq jobs[r].entries \cup late
    BY <1>2, <2>2 DEF ListsWhole, HoldsOn
  <2>5. Digest!DetectedIn(Digest!Window(r))' = Digest!DetectedIn(h)'
    BY <1>2, <2>2 DEF Digest!DetectedIn, HoldsOn
  <2> QED  BY <1>2, <2>3, <2>4, <2>5 DEF HoldsOn
<1> QED  BY <1>1, <1>2, HeldBefore

LEMMA PostsWholeKept ==
  ASSUME HourLength \in Nat \ {0}, DigestTypes, InTime, ListsWhole, PostsWhole,
         [Digest!Next]_Digest!vars
  PROVE  PostsWhole'
<1>1. \A h \in Int : Digest!DetectedIn(h) \subseteq Digest!DetectedIn(h)'
  BY DetectedAfter
<1>2. \A i \in DOMAIN posts : posts[i].hour \in Int
  <2>1. \A i \in DOMAIN posts : posts[i] \in DigestPost
    BY DEF DigestTypes
  <2> QED  BY <2>1 DEF DigestPost
<1>3. CASE UNCHANGED posts
  <2> SUFFICES ASSUME NEW i \in DOMAIN posts
               PROVE  posts[i].entries \subseteq Digest!DetectedIn(posts[i].hour)'
    BY <1>3 DEF PostsWhole
  <2>1. PICK h \in Int : h = posts[i].hour
    BY <1>2
  <2>2. posts[i].entries \subseteq Digest!DetectedIn(h)'
    BY <1>1, <2>1 DEF PostsWhole
  <2>3. Digest!DetectedIn(posts[i].hour)' = Digest!DetectedIn(h)'
    BY <1>3, <2>1 DEF Digest!DetectedIn
  <2> QED  BY <2>2, <2>3
<1>4. ASSUME NEW r \in Replica, Digest!Send(r)
      PROVE  PostsWhole'
  <2>1. \A h : Digest!DetectedIn(h)' = Digest!DetectedIn(h)
    BY <1>4 DEF Digest!Send, Digest!DetectedIn
  <2>2. jobs[r].entries \subseteq Digest!DetectedIn(Digest!Window(r))
    BY <1>4 DEF Digest!Send, ListsWhole, Holding
  <2>3. \A i \in DOMAIN posts' : posts'[i].entries \subseteq Digest!DetectedIn(posts'[i].hour)
    BY <1>4, <2>2, PostAfter DEF PostsWhole
  <2> QED  BY <1>4, <2>3 DEF PostsWhole, Digest!Send, Digest!DetectedIn
<1>5. UNCHANGED posts \/ \E r \in Replica : Digest!Send(r)
  BY DEF Digest!Next, Digest!vars, Digest!Tick, Digest!BeginRecording, Digest!BeginDigest,
     Digest!List, Digest!Count, Digest!Claim, Digest!Note, Digest!Fail,
         Digest!InsertEpisode, Digest!Upgrade
<1> QED  BY <1>3, <1>4, <1>5

\* Without a failure, a digest that is sent or about to be stays as it is.
LEMMA DigestStays ==
  ASSUME HourLength \in Nat \ {0}, DigestTypes, InTime, [Digest!Next]_Digest!vars, faults' = 0,
         NEW h, NEW E \in Digest!Digests(h)
  PROVE  E \in Digest!Digests(h)'
<1>1. \A i \in DOMAIN posts : i \in DOMAIN posts' /\ posts'[i] = posts[i]
  <2>1. UNCHANGED posts \/ \E r \in Replica : Digest!Send(r)
    BY DEF Digest!Next, Digest!vars, Digest!Tick, Digest!BeginRecording, Digest!BeginDigest,
       Digest!List, Digest!Count, Digest!Claim, Digest!Note, Digest!Fail,
           Digest!InsertEpisode, Digest!Upgrade
  <2> QED  BY <2>1, PostAfter
<1>2. CASE \E i \in DOMAIN posts : posts[i].hour = h /\ E = posts[i].entries
  BY <1>1, <1>2 DEF Digest!Digests
<1>3. ASSUME NEW r \in Replica, Digest!At(r, "sending"),
             Digest!Window(r) = h, E = jobs[r].entries
      PROVE  E \in Digest!Digests(h)'
  <2>1. CASE jobs'[r] = jobs[r]
    BY <1>3, <2>1 DEF Digest!Digests, Digest!At, Digest!Window
  <2>2. CASE Digest!Send(r)
    BY <1>3, <2>2, PostAfter DEF Digest!Digests
  <2>3. ASSUME NEW s \in Replica, s # r
        PROVE  Digest!BeginRecording(s) \/ Digest!BeginDigest(s) \/ Digest!List(s) \/ Digest!Count(s)
                 \/ Digest!Claim(s) \/ Digest!Send(s) \/ Digest!Note(s) \/ Digest!Fail(s)
               => jobs'[r] = jobs[r]
    BY <2>3, JobBegins, JobLists, JobCounts, JobLeaves, JobGoes
       DEF Digest!BeginRecording, Digest!BeginDigest, Digest!Claim, Digest!Send, Digest!Note,
           Digest!Fail
  <2>4. ~(Digest!BeginRecording(r) \/ Digest!BeginDigest(r) \/ Digest!List(r) \/ Digest!Count(r)
          \/ Digest!Claim(r) \/ Digest!Note(r))
    BY <1>3 DEF Digest!At, Digest!BeginRecording, Digest!BeginDigest, Digest!List, Digest!Count,
       Digest!Claim, Digest!Note
  <2>5. ~Digest!Fail(r)
    BY DEF Digest!Fail, DigestTypes
  <2>6. ASSUME NEW s \in Replica, NEW x \in DigestEpisode,
               Digest!InsertEpisode(s, x) \/ Digest!Upgrade(s, x)
        PROVE  jobs' = jobs
    BY <2>6 DEF Digest!InsertEpisode, Digest!Upgrade
  <2>7. Digest!Tick \/ UNCHANGED Digest!vars => jobs' = jobs
    BY DEF Digest!Tick, Digest!vars
  <2> QED  BY <2>1, <2>2, <2>3, <2>4, <2>5, <2>6, <2>7 DEF Digest!Next
<1> QED  BY <1>2, <1>3 DEF Digest!Digests

LEMMA HoursWholeKept ==
  ASSUME HourLength \in Nat \ {0}, DigestLimit \in Nat \ {0}, DigestTypes, InTime, HoursOwned,
         ListsWhole, HoursWhole, [Digest!Next]_Digest!vars
  PROVE  HoursWhole'
<1> SUFFICES ASSUME faults' = 0, NEW hour \in (done \cup claimed)'
             PROVE  Digest!Full(hour)' \/ Digest!Missed(hour)' \subseteq late'
  BY DEF HoursWhole, Digest!Full, Digest!Missed, Digest!Digests, Digest!DetectedIn, Digest!At,
     Digest!Window
<1>1. faults = 0
  <2>1. faults' = faults \/ faults' = faults + 1
    BY DEF Digest!Next, Digest!vars, Digest!Tick, Digest!BeginRecording, Digest!BeginDigest,
       Digest!List, Digest!Count, Digest!Claim, Digest!Send, Digest!Note, Digest!Fail,
           Digest!InsertEpisode, Digest!Upgrade
  <2> QED  BY <2>1 DEF DigestTypes
<1>2. CASE hour \in done \cup claimed
  <2>1. hour \in Int /\ hour < Digest!HourOf(clock)
        /\ (Digest!Full(hour) \/ Digest!Missed(hour) \subseteq late)
    BY <1>1, <1>2 DEF DigestTypes, InTime, HoursWhole
  <2>2. Digest!Digests(hour) \subseteq Digest!Digests(hour)'
    BY DigestStays
  <2>3. CASE Digest!Full(hour)
    BY <2>2, <2>3 DEF Digest!Full
  <2>4. CASE Digest!Missed(hour) \subseteq late
    <3>1. late \subseteq late'
          /\ (Digest!DetectedIn(hour) \cap Digest!Unconfirmed)'
               \subseteq (Digest!DetectedIn(hour) \cap Digest!Unconfirmed) \cup late'
      BY <2>1, DetectedAfter
    <3>2. \A e \in Digest!Missed(hour)' :
            /\ e \in (Digest!DetectedIn(hour) \cap Digest!Unconfirmed)'
            /\ e \notin UNION Digest!Digests(hour)
      BY <2>2 DEF Digest!Missed
    <3>3. \A e \in Digest!DetectedIn(hour) \cap Digest!Unconfirmed :
            e \in UNION Digest!Digests(hour) \/ e \in Digest!Missed(hour)
      BY DEF Digest!Missed
    <3> QED  BY <2>4, <3>1, <3>2, <3>3
  <2> QED  BY <2>1, <2>3, <2>4
<1>3. ASSUME NEW r \in Replica, Digest!Count(r), jobs[r].entries = {}, hour = Digest!Window(r)
      PROVE  Digest!Missed(hour)' \subseteq late'
  <2>1. Digest!DetectedIn(hour) \cap Digest!Unconfirmed \subseteq late
    <3>1. Digest!Cardinality(jobs[r].entries) # DigestLimit
      BY <1>3, FS_EmptySet DEF Digest!Cardinality, Cardinality
    <3> QED  BY <1>3, <3>1 DEF Digest!Count, ListsWhole, Holding
  <2>2. /\ (Digest!DetectedIn(hour) \cap Digest!Unconfirmed)'
             \subseteq (Digest!DetectedIn(hour) \cap Digest!Unconfirmed)
        /\ late' = late
    BY <1>3 DEF Digest!Count, Digest!DetectedIn, Digest!Unconfirmed
  <2> QED  BY <2>1, <2>2 DEF Digest!Missed
<1>4. ASSUME NEW r \in Replica, Digest!Claim(r),
             Digest!Window(r) \notin claimed, hour = Digest!Window(r)
      PROVE  Digest!Full(hour)' \/ Digest!Missed(hour)' \subseteq late'
  <2>1. /\ Digest!At(r, "sending")'
        /\ jobs'[r].entries = jobs[r].entries
        /\ jobs'[r].now = jobs[r].now
    BY <1>4, JobGoes DEF Digest!Claim, Digest!At
  <2>2. jobs[r].entries \in Digest!Digests(hour)'
    BY <1>4, <2>1 DEF Digest!Digests, Digest!Window
  <2>3. \/ Digest!Cardinality(jobs[r].entries) = DigestLimit
        \/ Digest!DetectedIn(hour) \cap Digest!Unconfirmed \subseteq jobs[r].entries \cup late
    BY <1>4 DEF Digest!Claim, ListsWhole, Holding
  <2>4. /\ (Digest!DetectedIn(hour) \cap Digest!Unconfirmed)'
             \subseteq (Digest!DetectedIn(hour) \cap Digest!Unconfirmed)
        /\ late' = late
    BY <1>4 DEF Digest!Claim, Digest!DetectedIn, Digest!Unconfirmed
  <2>5. CASE Digest!Cardinality(jobs[r].entries) = DigestLimit
    BY <2>2, <2>5 DEF Digest!Full
  <2>6. CASE Digest!DetectedIn(hour) \cap Digest!Unconfirmed \subseteq jobs[r].entries \cup late
    BY <2>2, <2>4, <2>6 DEF Digest!Missed
  <2> QED  BY <2>3, <2>5, <2>6
<1>5. ASSUME NEW r \in Replica, Digest!Claim(r),
             Digest!Window(r) \in claimed, hour = Digest!Window(r)
      PROVE  hour \in done \cup claimed
  BY <1>5
<1>6. ASSUME NEW r \in Replica, Digest!Note(r), hour = Digest!Window(r)
      PROVE  hour \in done \cup claimed
  BY <1>6 DEF Digest!Note, HoursOwned
<1>7. hour \in done \cup claimed
      \/ \E r \in Replica :
           /\ hour = Digest!Window(r)
           /\ Digest!Note(r) \/ Digest!Claim(r) \/ (Digest!Count(r) /\ jobs[r].entries = {})
  <2>1. (done \cup claimed)' = done \cup claimed
        \/ \E r \in Replica :
             /\ Digest!Note(r) \/ Digest!Claim(r) \/ (Digest!Count(r) /\ jobs[r].entries = {})
             /\ (done \cup claimed)' \subseteq done \cup claimed \cup {Digest!Window(r)}
    BY DEF Digest!Next, Digest!vars, Digest!Tick, Digest!BeginRecording, Digest!BeginDigest,
       Digest!List, Digest!Count, Digest!Claim, Digest!Send, Digest!Note, Digest!Fail,
           Digest!InsertEpisode, Digest!Upgrade
  <2> QED  BY <2>1
<1> QED  BY <1>2, <1>3, <1>4, <1>5, <1>6, <1>7

-----------------------------------------------------------------------------
\* digest.ts: the digest of an hour "can be sent exactly once", on any number of
\* replicas; and unless a job failed it has all that was detected in its hour and is
\* unconfirmed, as many as a digest lists, but for what was inserted when the hour was
\* over.
THEOREM DigestsStayWhole ==
  ASSUME HourLength \in Nat \ {0}, DigestLimit \in Nat \ {0}
  PROVE  Digest!Spec => []Digest!DigestIsWhole
<1>1. Digest!Init => DigestInv
  <2> SUFFICES ASSUME Digest!Init
               PROVE  DigestInv
    OBVIOUS
  <2>1. DigestTypes
    BY NoJob DEF Digest!Init, DigestTypes, Digest!Never
  <2>2. \A r \in Replica : jobs[r].pc = "idle" /\ jobs[r].now = 0
    BY NoJob DEF Digest!Init
  <2>3. posts = <<>> /\ done = {} /\ claimed = {} /\ clock \in Nat
    BY DEF Digest!Init
  <2>4. InTime /\ HoursOwned
    BY <2>2, <2>3 DEF InTime, HoursOwned, Digest!At
  <2>5. ListsWhole /\ PostsWhole /\ HoursWhole
    BY <2>2, <2>3 DEF ListsWhole, PostsWhole, HoursWhole, Holding, Digest!At
  <2> QED  BY <2>1, <2>4, <2>5 DEF DigestInv
<1>2. DigestInv /\ [Digest!Next]_Digest!vars => DigestInv'
  BY DigestTypesKept, InTimeKept, HoursOwnedKept, ListsWholeKept, PostsWholeKept, HoursWholeKept
     DEF DigestInv
<1>3. DigestInv => Digest!DigestIsWhole
  BY DEF DigestInv, HoursOwned, PostsWhole, HoursWhole, Digest!DigestIsWhole
<1> QED  BY <1>1, <1>2, <1>3, PTL DEF Digest!Spec

-----------------------------------------------------------------------------
(* Alerts about the service, of the replica that gives them *)

Report == [pc : {"idle", "next", "deciding", "sending", "recording"}, now : Nat,
           todo : SUBSET System!Signal, known : Nat \cup {System!Never}]

SystemTypes ==
  /\ clock \in Nat /\ runs \in [{Reporter} -> Report]
  /\ rows \in [System!Signal -> Nat \cup {System!Never}]
  /\ posts \in [System!Signal -> Seq(Nat)]

LastSaid(s, at) == posts[s] # <<>> /\ posts[s][Len(posts[s])] = at

Amid(stage, s) == runs[Reporter].pc = stage /\ System!Finding(Reporter) = s

\* The row of a signal has the time of its last message, but for the one being sent or
\* recorded.
Dated(s) ==
  /\ Amid("sending", s) => rows[s] = runs[Reporter].now /\ posts[s] = <<>>
  /\ Amid("recording", s) => LastSaid(s, runs[Reporter].now)
  /\ ~Amid("sending", s) /\ ~Amid("recording", s) =>
       IF rows[s] = System!Never THEN posts[s] = <<>> ELSE LastSaid(s, rows[s])

SystemInv ==
  /\ SystemTypes
  /\ runs[Reporter].pc = "idle" <=> runs[Reporter].todo = {}
  /\ runs[Reporter].pc = "deciding" =>
       runs[Reporter].known = rows[System!Finding(Reporter)]
  /\ \A s \in System!Signal \ trouble : Dated(s)

LEMMA FindingIsToDo ==
  ASSUME SystemInv, runs[Reporter].pc # "idle"
  PROVE  /\ System!Finding(Reporter) \in runs[Reporter].todo
         /\ System!Finding(Reporter) \in System!Signal
<1>1. runs[Reporter].todo # {} /\ runs[Reporter].todo \subseteq System!Signal
  BY DEF SystemInv, SystemTypes, Report
<1> QED  BY <1>1 DEF System!Finding

\* The run goes on to another stage, and has what it found to do still.
LEMMA StageAfter ==
  ASSUME SystemTypes, NEW entry \in Report, runs' = [runs EXCEPT ![Reporter] = entry]
  PROVE  runs' \in [{Reporter} -> Report] /\ runs'[Reporter] = entry
BY DEF SystemTypes

LEMMA NoReport == System!Idle \in Report /\ System!Idle.pc = "idle" /\ System!Idle.todo = {}
BY DEF System!Idle, Report

LEMMA OnwardAfter ==
  ASSUME SystemInv, runs[Reporter].pc # "idle", System!Onward(Reporter)
  PROVE  /\ runs' \in [{Reporter} -> Report] /\ runs'[Reporter].pc \in {"idle", "next"}
         /\ runs'[Reporter].todo = runs[Reporter].todo \ {System!Finding(Reporter)}
         /\ runs'[Reporter].pc = "idle" <=> runs'[Reporter].todo = {}
<1> DEFINE rest == runs[Reporter].todo \ {System!Finding(Reporter)}
           entry == [runs[Reporter] EXCEPT !.pc = "next", !.todo = rest]
<1>1. runs[Reporter] \in Report
  BY DEF SystemInv, SystemTypes
<1>2. runs' = [runs EXCEPT ![Reporter] = IF rest = {} THEN System!Idle ELSE entry]
  BY DEF System!Onward
<1>3. rest \in SUBSET System!Signal
  BY <1>1 DEF Report
<1> HIDE DEF rest
<1>4. entry \in Report /\ entry.pc = "next" /\ entry.todo = rest
  BY <1>1, <1>3 DEF Report
<1> HIDE DEF entry
<1>5. CASE rest = {}
  <2>1. runs' \in [{Reporter} -> Report] /\ runs'[Reporter] = System!Idle
    BY <1>2, <1>5, NoReport, StageAfter DEF SystemInv
  <2> QED  BY <1>5, <2>1, NoReport DEF rest
<1>6. CASE rest # {}
  <2>1. runs' \in [{Reporter} -> Report] /\ runs'[Reporter] = entry
    BY <1>2, <1>4, <1>6, StageAfter DEF SystemInv
  <2> QED  BY <1>4, <1>6, <2>1 DEF rest
<1> QED  BY <1>5, <1>6

\* A message is the last thing said of its signal.
LEMMA SaidLast ==
  ASSUME SystemInv, runs[Reporter].pc # "idle", System!Said(Reporter),
         NEW f, f = System!Finding(Reporter)
  PROVE  /\ posts' \in [System!Signal -> Seq(Nat)]
         /\ \A s \in System!Signal \ {f} : posts'[s] = posts[s]
         /\ posts'[f] # <<>> /\ posts'[f][Len(posts'[f])] = runs[Reporter].now
<1> DEFINE at == runs[Reporter].now
<1>1. f \in System!Signal /\ at \in Nat /\ posts \in [System!Signal -> Seq(Nat)]
  BY FindingIsToDo DEF SystemInv, SystemTypes, Report
<1>2. posts' = [posts EXCEPT ![f] = Append(posts[f], at)]
  BY DEF System!Said
<1> HIDE DEF at
<1>3. /\ posts' \in [System!Signal -> Seq(Nat)] /\ posts'[f] = Append(posts[f], at)
      /\ \A s \in System!Signal \ {f} : posts'[s] = posts[s]
  BY <1>1, <1>2
<1>4. posts'[f] # <<>> /\ posts'[f][Len(posts'[f])] = at
  <2>1. PICK s \in Seq(Nat) : s = posts[f]
    BY <1>1
  <2>2. /\ Append(s, at) # <<>> /\ Len(Append(s, at)) = Len(s) + 1
        /\ Append(s, at)[Len(s) + 1] = at
    BY <1>1, AppendProperties
  <2> QED  BY <1>3, <2>1, <2>2
<1> QED  BY <1>3, <1>4 DEF at

\* Done with a finding: its row is that of its last message, or a failure excuses it.
LEMMA DoneWithFinding ==
  ASSUME SystemInv, System!Onward(Reporter), NEW f, f = System!Finding(Reporter),
         runs[Reporter].pc \in {"deciding", "sending", "recording"},
         clock' = clock, trouble \subseteq trouble',
         rows' \in [System!Signal -> Nat \cup {System!Never}],
         posts' \in [System!Signal -> Seq(Nat)],
         \A s \in System!Signal \ {f} : rows'[s] = rows[s] /\ posts'[s] = posts[s],
         f \notin trouble' =>
           /\ rows'[f] # System!Never /\ LastSaid(f, rows[f])'
           /\ System!Spaced(Reporter, f) /\ runs[Reporter].now - rows'[f] < SystemCooldown
  PROVE  SystemInv' /\ System!Reminds
<1> USE DEF SystemInv
<1>1. /\ runs' \in [{Reporter} -> Report] /\ runs'[Reporter].pc \in {"idle", "next"}
      /\ runs'[Reporter].todo = runs[Reporter].todo \ {f}
      /\ runs'[Reporter].pc = "idle" <=> runs'[Reporter].todo = {}
  BY OnwardAfter
<1>2. \A s : ~Amid("sending", s)' /\ ~Amid("recording", s)'
  BY <1>1 DEF Amid
<1>3. ASSUME NEW s \in System!Signal \ trouble'
      PROVE  Dated(s)'
  <2>1. CASE s = f
    BY <1>2, <1>3, <2>1 DEF Dated
  <2>2. CASE s # f
    <3>1. Dated(s) /\ ~Amid("sending", s) /\ ~Amid("recording", s)
      BY <1>3, <2>2 DEF Amid
    <3> QED  BY <1>2, <2>2, <3>1 DEF Dated, LastSaid
  <2> QED  BY <2>1, <2>2
<1>4. SystemInv'
  BY <1>1, <1>3 DEF SystemTypes
<1>5. ASSUME NEW s \in System!Signal \ trouble'
      PROVE  System!Spaced(Reporter, s) /\ System!Mentioned(Reporter, s)
  <2>1. CASE s = f
    BY <1>5, <2>1 DEF System!Mentioned, LastSaid
  <2>2. CASE s # f
    BY <1>1, <2>2 DEF System!Spaced, System!Mentioned
  <2> QED  BY <2>1, <2>2
<1> QED  BY <1>4, <1>5 DEF System!Reminds

\* The run is where it was, or at another stage of what it was doing.
LEMMA SameFinding ==
  ASSUME SystemInv, NEW entry \in Report, runs' = [runs EXCEPT ![Reporter] = entry],
         entry.todo = runs[Reporter].todo
  PROVE  /\ runs' \in [{Reporter} -> Report] /\ runs'[Reporter] = entry
         /\ System!Finding(Reporter)' = System!Finding(Reporter)
<1>1. runs' \in [{Reporter} -> Report] /\ runs'[Reporter] = entry
  BY StageAfter DEF SystemInv
<1> QED  BY <1>1 DEF System!Finding

LEMMA SystemQuiet ==
  ASSUME SystemInv, UNCHANGED <<runs, rows, posts, trouble>>, clock' \in Nat
  PROVE  SystemInv' /\ System!Reminds
<1>1. SystemInv'
  BY DEF SystemInv, SystemTypes, Dated, LastSaid, Amid, System!Finding
<1>2. System!Reminds
  BY DEF System!Reminds, System!Spaced, System!Mentioned
<1> QED  BY <1>1, <1>2

LEMMA EvaluateStep ==
  ASSUME SystemInv, System!Evaluate(Reporter)
  PROVE  SystemInv' /\ System!Reminds
<1> DEFINE found == System!EvaluateSystem(System!Sample(Reporter), previous[Reporter])
           entry == [System!Idle EXCEPT !.pc = "next", !.now = clock, !.todo = found]
<1> USE DEF SystemInv
<1>1. /\ runs' = [runs EXCEPT ![Reporter] = IF found = {} THEN System!Idle ELSE entry]
      /\ UNCHANGED <<clock, rows, posts, trouble>> /\ runs[Reporter].pc = "idle"
  BY DEF System!Evaluate
<1>2. found \in SUBSET System!Signal
  BY DEF System!EvaluateSystem
<1> HIDE DEF found
<1>3. entry \in Report /\ entry.pc = "next" /\ entry.todo = found
  BY <1>2 DEF Report, System!Idle, SystemTypes
<1> HIDE DEF entry
<1>4. /\ runs' \in [{Reporter} -> Report] /\ runs'[Reporter].pc \in {"idle", "next"}
      /\ runs'[Reporter].pc = "idle" <=> runs'[Reporter].todo = {}
  <2>1. CASE found = {}
    BY <1>1, <2>1, NoReport, StageAfter
  <2>2. CASE found # {}
    BY <1>1, <1>3, <2>2, StageAfter
  <2> QED  BY <2>1, <2>2
<1>5. SystemInv'
  BY <1>1, <1>4 DEF SystemTypes, Dated, LastSaid, Amid
<1>6. System!Reminds
  <2>1. runs[Reporter].todo = {} /\ posts' = posts
    BY <1>1
  <2> QED  BY <2>1 DEF System!Reminds, System!Spaced, System!Mentioned
<1> QED  BY <1>5, <1>6

LEMMA LoadDeliveryStep ==
  ASSUME SystemInv, System!LoadDelivery(Reporter)
  PROVE  SystemInv' /\ System!Reminds
<1> USE DEF SystemInv
<1> PICK f : f = System!Finding(Reporter)  OBVIOUS
<1> DEFINE entry == [runs[Reporter] EXCEPT !.pc = "deciding", !.known = rows[f]]
<1>1. /\ runs' = [runs EXCEPT ![Reporter].pc = "deciding", ![Reporter].known = rows[f]]
      /\ UNCHANGED <<clock, rows, posts, trouble>> /\ runs[Reporter].pc = "next"
  BY DEF System!LoadDelivery
<1>2. runs[Reporter] \in Report /\ rows[f] \in Nat \cup {System!Never}
  BY <1>1, FindingIsToDo DEF SystemTypes
<1>3. /\ entry \in Report /\ entry.pc = "deciding" /\ entry.known = rows[f]
      /\ entry.todo = runs[Reporter].todo
  BY <1>2 DEF Report
<1>4. runs' = [runs EXCEPT ![Reporter] = entry]
  BY <1>1 DEF SystemTypes, Report
<1> HIDE DEF entry
<1>5. /\ runs' \in [{Reporter} -> Report] /\ runs'[Reporter] = entry
      /\ System!Finding(Reporter)' = f
  BY <1>3, <1>4, SameFinding
<1>6. SystemInv'
  BY <1>1, <1>3, <1>5 DEF SystemTypes, Dated, LastSaid, Amid
<1>7. System!Reminds
  BY <1>1, <1>3, <1>5 DEF System!Reminds, System!Spaced, System!Mentioned
<1> QED  BY <1>6, <1>7

LEMMA SuppressStep ==
  ASSUME SystemInv, System!Suppress(Reporter)
  PROVE  SystemInv' /\ System!Reminds
<1> PICK f : f = System!Finding(Reporter)  OBVIOUS
<1>1. /\ System!Onward(Reporter) /\ UNCHANGED <<clock, rows, posts, trouble>>
      /\ runs[Reporter].pc = "deciding"
      /\ System!Decide(runs[Reporter].known, runs[Reporter].now) = "suppress"
  BY DEF System!Suppress
<1>2. f \in System!Signal /\ runs[Reporter].known = rows[f]
  BY <1>1, FindingIsToDo DEF SystemInv
<1>3. /\ rows \in [System!Signal -> Nat \cup {System!Never}]
      /\ posts \in [System!Signal -> Seq(Nat)] /\ runs[Reporter].now \in Nat
  BY DEF SystemInv, SystemTypes, Report
<1>4. /\ rows[f] # System!Never
      /\ ~(runs[Reporter].now - rows[f] >= SystemCooldown)
  BY <1>1, <1>2 DEF System!Decide
<1>5. f \notin trouble => LastSaid(f, rows[f])
  BY <1>1, <1>2, <1>4 DEF SystemInv, Dated, Amid
<1>6. LastSaid(f, rows[f])' <=> LastSaid(f, rows[f])
  BY <1>1 DEF LastSaid
<1>7. runs[Reporter].now - rows[f] < SystemCooldown
  <2>1. rows[f] \in Nat
    BY <1>2, <1>3, <1>4
  <2> QED  BY <1>3, <1>4, <2>1, ServiceAssumption
<1>8. System!Spaced(Reporter, f)
  BY <1>1 DEF System!Spaced
<1> QED  BY <1>1, <1>3, <1>4, <1>5, <1>6, <1>7, <1>8, DoneWithFinding

LEMMA FirstClaimStep ==
  ASSUME SystemInv, System!Claim(Reporter)
  PROVE  SystemInv' /\ System!Reminds
<1> USE DEF SystemInv
<1> PICK f : f = System!Finding(Reporter)  OBVIOUS
<1> DEFINE entry == [runs[Reporter] EXCEPT !.pc = "sending"]
<1>1. /\ runs[Reporter].pc = "deciding" /\ runs[Reporter].known = System!Never
      /\ UNCHANGED <<clock, posts, trouble>>
  BY DEF System!Claim
<1>2. /\ f \in System!Signal /\ rows[f] = System!Never /\ runs[Reporter] \in Report
      /\ runs[Reporter].now \in Nat /\ rows \in [System!Signal -> Nat \cup {System!Never}]
  BY <1>1, FindingIsToDo DEF SystemTypes, Report
<1>3. /\ rows' = [rows EXCEPT ![f] = runs[Reporter].now]
      /\ runs' = [runs EXCEPT ![Reporter].pc = "sending"]
  BY <1>2 DEF System!Claim
<1>4. entry \in Report /\ entry.pc = "sending" /\ entry.todo = runs[Reporter].todo
      /\ entry.now = runs[Reporter].now
  BY <1>2 DEF Report
<1>5. runs' = [runs EXCEPT ![Reporter] = entry]
  BY <1>3 DEF SystemTypes, Report
<1> HIDE DEF entry
<1>6. /\ runs' \in [{Reporter} -> Report] /\ runs'[Reporter] = entry
      /\ System!Finding(Reporter)' = f
  BY <1>4, <1>5, SameFinding
<1>7. /\ rows' \in [System!Signal -> Nat \cup {System!Never}] /\ rows'[f] = runs[Reporter].now
      /\ \A s \in System!Signal \ {f} : rows'[s] = rows[s]
  BY <1>2, <1>3
<1>8. ASSUME NEW s \in System!Signal \ trouble'
      PROVE  Dated(s)'
  <2>1. Dated(s) /\ ~Amid("sending", s) /\ ~Amid("recording", s)
    BY <1>1, <1>8 DEF Amid
  <2>2. CASE s = f
    BY <1>1, <1>2, <1>4, <1>6, <1>7, <2>1, <2>2 DEF Dated, Amid
  <2>3. CASE s # f
    BY <1>1, <1>6, <1>7, <2>1, <2>3 DEF Dated, Amid, LastSaid
  <2> QED  BY <2>2, <2>3
<1>9. SystemInv'
  BY <1>1, <1>4, <1>6, <1>7, <1>8 DEF SystemTypes
<1>10. System!Reminds
  BY <1>1, <1>4, <1>6 DEF System!Reminds, System!Spaced, System!Mentioned
<1> QED  BY <1>9, <1>10

LEMMA SendFirstStep ==
  ASSUME SystemInv, System!SendFirst(Reporter)
  PROVE  SystemInv' /\ System!Reminds
<1> PICK f : f = System!Finding(Reporter)  OBVIOUS
<1>1. /\ System!Onward(Reporter) /\ System!Said(Reporter) /\ UNCHANGED <<clock, rows, trouble>>
      /\ runs[Reporter].pc = "sending"
  BY DEF System!SendFirst
<1>2. /\ f \in System!Signal /\ runs[Reporter].now \in Nat
      /\ rows \in [System!Signal -> Nat \cup {System!Never}]
  BY <1>1, FindingIsToDo DEF SystemInv, SystemTypes, Report
<1>3. f \notin trouble => rows[f] = runs[Reporter].now /\ posts[f] = <<>>
  BY <1>1, <1>2 DEF SystemInv, Dated, Amid
<1>4. /\ posts' \in [System!Signal -> Seq(Nat)]
      /\ \A s \in System!Signal \ {f} : posts'[s] = posts[s]
      /\ posts'[f] # <<>> /\ posts'[f][Len(posts'[f])] = runs[Reporter].now
  BY <1>1, SaidLast
<1>5. f \notin trouble' =>
        /\ rows'[f] # System!Never /\ LastSaid(f, rows[f])'
        /\ System!Spaced(Reporter, f) /\ runs[Reporter].now - rows'[f] < SystemCooldown
  <2>1. System!Never \notin Nat
    BY DEF System!Never
  <2> QED  BY <1>1, <1>2, <1>3, <1>4, <2>1, ServiceAssumption DEF LastSaid, System!Spaced
<1> QED  BY <1>1, <1>2, <1>4, <1>5, DoneWithFinding

LEMMA SendAgainStep ==
  ASSUME SystemInv, System!SendAgain(Reporter)
  PROVE  SystemInv' /\ System!Reminds
<1> USE DEF SystemInv
<1> PICK f : f = System!Finding(Reporter)  OBVIOUS
<1> DEFINE entry == [runs[Reporter] EXCEPT !.pc = "recording"]
<1>1. /\ runs[Reporter].pc = "deciding" /\ runs[Reporter].known # System!Never
      /\ System!Decide(runs[Reporter].known, runs[Reporter].now) = "send"
      /\ System!Said(Reporter) /\ runs' = [runs EXCEPT ![Reporter].pc = "recording"]
      /\ UNCHANGED <<clock, rows, trouble>>
  BY DEF System!SendAgain
<1>2. /\ f \in System!Signal /\ rows[f] # System!Never /\ runs[Reporter] \in Report
      /\ runs[Reporter].known = rows[f]
  BY <1>1, FindingIsToDo DEF SystemTypes
<1>3. entry \in Report /\ entry.pc = "recording" /\ entry.todo = runs[Reporter].todo
      /\ entry.now = runs[Reporter].now
  BY <1>2 DEF Report
<1>4. runs' = [runs EXCEPT ![Reporter] = entry]
  BY <1>1 DEF SystemTypes, Report
<1> HIDE DEF entry
<1>5. /\ runs' \in [{Reporter} -> Report] /\ runs'[Reporter] = entry
      /\ System!Finding(Reporter)' = f
  BY <1>3, <1>4, SameFinding
<1>6. /\ posts' \in [System!Signal -> Seq(Nat)]
      /\ \A s \in System!Signal \ {f} : posts'[s] = posts[s]
      /\ posts'[f] # <<>> /\ posts'[f][Len(posts'[f])] = runs[Reporter].now
  BY <1>1, SaidLast
<1>7. ASSUME NEW s \in System!Signal \ trouble'
      PROVE  Dated(s)'
  <2>1. Dated(s) /\ ~Amid("sending", s) /\ ~Amid("recording", s)
    BY <1>1, <1>7 DEF Amid
  <2>2. CASE s = f
    BY <1>3, <1>5, <1>6, <2>2 DEF Dated, Amid, LastSaid
  <2>3. CASE s # f
    BY <1>1, <1>5, <1>6, <2>1, <2>3 DEF Dated, Amid, LastSaid
  <2> QED  BY <2>2, <2>3
<1>8. SystemInv'
  BY <1>1, <1>3, <1>5, <1>6, <1>7 DEF SystemTypes
<1>9. ASSUME NEW s \in System!Signal \ trouble'
      PROVE  System!Spaced(Reporter, s) /\ System!Mentioned(Reporter, s)
  <2>1. System!Mentioned(Reporter, s)
    BY <1>3, <1>5 DEF System!Mentioned
  <2>2. CASE s = f
    <3>1. runs[Reporter].now - rows[f] >= SystemCooldown
      BY <1>1, <1>2 DEF System!Decide
    <3>2. LastSaid(f, rows[f])
      BY <1>1, <1>2, <1>9, <2>2 DEF Dated, Amid
    <3> QED  BY <2>1, <2>2, <3>1, <3>2 DEF LastSaid, System!Spaced
  <2>3. CASE s # f
    BY <1>6, <2>1, <2>3 DEF System!Spaced
  <2> QED  BY <2>2, <2>3
<1> QED  BY <1>8, <1>9 DEF System!Reminds

LEMMA RecordResendStep ==
  ASSUME SystemInv, System!RecordResend(Reporter)
  PROVE  SystemInv' /\ System!Reminds
<1> PICK f : f = System!Finding(Reporter)  OBVIOUS
<1>1. /\ System!Onward(Reporter) /\ UNCHANGED <<clock, posts, trouble>>
      /\ runs[Reporter].pc = "recording"
      /\ rows' = [rows EXCEPT ![f] = runs[Reporter].now]
  BY DEF System!RecordResend
<1>2. /\ f \in System!Signal /\ runs[Reporter].now \in Nat
      /\ rows \in [System!Signal -> Nat \cup {System!Never}]
      /\ posts \in [System!Signal -> Seq(Nat)]
  BY <1>1, FindingIsToDo DEF SystemInv, SystemTypes, Report
<1>3. f \notin trouble => LastSaid(f, runs[Reporter].now)
  BY <1>1, <1>2 DEF SystemInv, Dated, Amid
<1>4. /\ rows' \in [System!Signal -> Nat \cup {System!Never}]
      /\ rows'[f] = runs[Reporter].now
      /\ \A s \in System!Signal \ {f} : rows'[s] = rows[s]
  BY <1>1, <1>2
<1>5. f \notin trouble' =>
        /\ rows'[f] # System!Never /\ LastSaid(f, rows[f])'
        /\ System!Spaced(Reporter, f) /\ runs[Reporter].now - rows'[f] < SystemCooldown
  <2>1. System!Never \notin Nat
    BY DEF System!Never
  <2> QED  BY <1>1, <1>2, <1>3, <1>4, <2>1, ServiceAssumption DEF LastSaid, System!Spaced
<1> QED  BY <1>1, <1>2, <1>4, <1>5, DoneWithFinding

LEMMA FailStep ==
  ASSUME SystemInv, System!Fail(Reporter)
  PROVE  SystemInv' /\ System!Reminds
<1> PICK f : f = System!Finding(Reporter)  OBVIOUS
<1>1. /\ System!Onward(Reporter) /\ UNCHANGED <<clock, rows, posts>>
      /\ runs[Reporter].pc \in {"deciding", "sending", "recording"}
      /\ trouble' = trouble \cup {f}
  BY DEF System!Fail
<1>2. rows' \in [System!Signal -> Nat \cup {System!Never}] /\ posts' \in [System!Signal -> Seq(Nat)]
  BY <1>1 DEF SystemInv, SystemTypes
<1>3. f \in trouble' /\ trouble \subseteq trouble'
  BY <1>1
<1> QED  BY <1>1, <1>2, <1>3, DoneWithFinding

LEMMA DieStep ==
  ASSUME SystemInv, System!Die(Reporter)
  PROVE  SystemInv' /\ System!Reminds
<1> USE DEF SystemInv
<1>1. /\ trouble' = trouble \cup runs[Reporter].todo
      /\ runs' = [runs EXCEPT ![Reporter] = System!Idle]
      /\ UNCHANGED <<clock, rows, posts>>
  BY DEF System!Die
<1>2. runs' \in [{Reporter} -> Report] /\ runs'[Reporter] = System!Idle
  BY <1>1, NoReport, StageAfter
<1>3. ASSUME NEW s \in System!Signal \ trouble'
      PROVE  Dated(s)'
  <2>1. Dated(s) /\ s \notin runs[Reporter].todo
    BY <1>1, <1>3
  <2>2. ~Amid("sending", s) /\ ~Amid("recording", s)
    BY <2>1, FindingIsToDo DEF Amid
  <2> QED  BY <1>1, <1>2, <2>1, <2>2, NoReport DEF Dated, Amid, LastSaid
<1>4. SystemInv'
  BY <1>1, <1>2, <1>3, NoReport DEF SystemTypes
<1>5. System!Reminds
  BY <1>1 DEF System!Reminds, System!Spaced, System!Mentioned
<1> QED  BY <1>4, <1>5

LEMMA SystemStep ==
  ASSUME SystemInv, [System!Next]_System!vars
  PROVE  SystemInv' /\ System!Reminds
<1>1. CASE UNCHANGED System!vars
  BY <1>1, SystemQuiet DEF System!vars, SystemInv, SystemTypes
<1>2. CASE System!Tick \/ System!Work
  BY <1>2, SystemQuiet DEF System!Tick, System!Work, SystemInv, SystemTypes
<1> QED
  BY <1>1, <1>2, EvaluateStep, LoadDeliveryStep, SuppressStep, FirstClaimStep, SendFirstStep,
     SendAgainStep, RecordResendStep, FailStep, DieStep
  DEF System!Next

LEMMA SystemStart == ASSUME System!Init PROVE SystemInv
<1>1. SystemTypes
  <2>1. runs \in [{Reporter} -> Report]
    BY NoReport DEF System!Init
  <2> QED  BY <2>1 DEF System!Init, SystemTypes
<1>2. runs[Reporter] = System!Idle
  BY DEF System!Init
<1> QED  BY <1>1, <1>2, NoReport DEF System!Init, SystemInv, Dated, Amid

-----------------------------------------------------------------------------
(* The parts in the service *)

LEMMA PartStays == [ServiceNext]_serviceVars => UNCHANGED part
BY DEF ServiceNext, serviceVars

\* The behaviours of one part are those of its own specification.
LEMMA DigestBehaves == ServiceSpec /\ part = "digest" => Digest!Spec
<1>1. ServiceInit /\ part = "digest" => Digest!Init
  BY DEF ServiceInit
<1>2. [ServiceNext]_serviceVars /\ part = "digest" => [Digest!Next]_Digest!vars
  BY DEF ServiceNext, serviceVars, digestVars, Digest!vars
<1>3. part = "digest" /\ UNCHANGED part => (part = "digest")'
  OBVIOUS
<1> QED  BY <1>1, <1>2, <1>3, PartStays, PTL DEF ServiceSpec, Digest!Spec

LEMMA SystemBehaves == ServiceSpec /\ part = "system" => System!Spec
<1>1. ServiceInit /\ part = "system" => System!Init
  BY DEF ServiceInit
<1>2. [ServiceNext]_serviceVars /\ part = "system" => [System!Next]_System!vars
  BY DEF ServiceNext, serviceVars, systemVars, System!vars, System!service
<1>3. part = "system" /\ UNCHANGED part => (part = "system")'
  OBVIOUS
<1> QED  BY <1>1, <1>2, <1>3, PartStays, PTL DEF ServiceSpec, System!Spec

LEMMA CatalogBehaves == ServiceSpec /\ part = "catalog" => Catalog!Spec
<1>1. ServiceInit /\ part = "catalog" => Catalog!Init
  BY DEF ServiceInit
<1>2. [ServiceNext]_serviceVars /\ part = "catalog" => [Catalog!Next]_Catalog!vars
  BY DEF ServiceNext, serviceVars, catalogVars, Catalog!vars, Catalog!venue, Catalog!table,
         Catalog!queue
<1>3. part = "catalog" /\ UNCHANGED part => (part = "catalog")'
  OBVIOUS
<1> QED  BY <1>1, <1>2, <1>3, PartStays, PTL DEF ServiceSpec, Catalog!Spec

LEMMA BooksBehave == ServiceSpec /\ part = "books" => Books!Spec
<1>1. ServiceInit /\ part = "books" => Books!Init
  BY DEF ServiceInit
<1>2. [ServiceNext]_serviceVars /\ part = "books" => [Books!Next]_Books!vars
  BY DEF ServiceNext, serviceVars, venueVars, Books!vars
<1>3. part = "books" /\ UNCHANGED part => (part = "books")'
  OBVIOUS
<1> QED  BY <1>1, <1>2, <1>3, PartStays, PTL DEF ServiceSpec, Books!Spec

LEMMA OthersBehave == ServiceSpec /\ part = "others" => Others!Spec
<1>1. ServiceInit /\ part = "others" => Others!Init
  BY DEF ServiceInit
<1>2. [ServiceNext]_serviceVars /\ part = "others" => [Others!Next]_Others!vars
  BY DEF ServiceNext, serviceVars, venueVars, Others!vars
<1>3. part = "others" /\ UNCHANGED part => (part = "others")'
  OBVIOUS
<1> QED  BY <1>1, <1>2, <1>3, PartStays, PTL DEF ServiceSpec, Others!Spec

\* DigestsStayWhole, of the service: an hour has one digest, and it is whole.
THEOREM EachDigestIsWhole == ServiceSpec => []DigestIsWhole
<1>1. ~(part = "digest") /\ UNCHANGED part => (~(part = "digest"))'
  OBVIOUS
<1>2. DigestIsWhole <=> (~(part = "digest") \/ Digest!DigestIsWhole)
  BY DEF DigestIsWhole
<1>3. Digest!Spec => []Digest!DigestIsWhole
  BY ServiceAssumption, DigestsStayWhole
<1> QED  BY <1>1, <1>2, <1>3, PartStays, DigestBehaves, PTL DEF ServiceSpec

\* An alert about the service comes again no sooner than a cooldown, and none is forgotten
\* (system.ts, dedupe.ts), whatever the signals are and whenever it evaluates them; but
\* for signals of which a message or a statement has failed.
THEOREM EachIsReminded == ServiceSpec => Reminded
<1>1. ~(part = "system") /\ UNCHANGED part => (~(part = "system"))'
  OBVIOUS
<1>2. ~(part = "system") => [part = "system" => System!Reminds]_<<posts, runs>>
  OBVIOUS
<1>3. SystemInv /\ [System!Next]_System!vars =>
        SystemInv' /\ [part = "system" => System!Reminds]_<<posts, runs>>
  BY SystemStep
<1>4. System!Init => SystemInv
  BY SystemStart
<1> QED  BY <1>1, <1>2, <1>3, <1>4, PartStays, SystemBehaves, PTL
         DEF ServiceSpec, System!Spec, Reminded

\* HistoriesExplain, of the service: revisions and what the market said at first explain
\* its row, as long as no two ingests ran at once.
THEOREM EachHistoryExplains == ServiceSpec => []HistoryExplainsRow
<1>1. ~(part = "catalog") /\ UNCHANGED part => (~(part = "catalog"))'
  OBVIOUS
<1>2. HistoryExplainsRow <=> (~(part = "catalog") \/ Catalog!HistoryExplainsRow)
  BY DEF HistoryExplainsRow
<1>3. Catalog!Spec => []Catalog!HistoryExplainsRow
  BY ServiceAssumption, Catalog!HistoriesExplain
<1> QED  BY <1>1, <1>2, <1>3, PartStays, CatalogBehaves, PTL DEF ServiceSpec

\* ExhaustedAreKept, of the service: a job that failed for good has its letter, on its way,
\* lost there or kept, unless it stalled twice, and a letter is only of such a job.
THEOREM EachExhaustedIsKept == ServiceSpec => []ExhaustedIsKept
<1>1. ~(part = "catalog") /\ UNCHANGED part => (~(part = "catalog"))'
  OBVIOUS
<1>2. ExhaustedIsKept <=> (~(part = "catalog") \/ Catalog!ExhaustedIsKept)
  BY DEF ExhaustedIsKept
<1>3. Catalog!Spec => []Catalog!ExhaustedIsKept
  BY ServiceAssumption, Catalog!ExhaustedAreKept
<1> QED  BY <1>1, <1>2, <1>3, PartStays, CatalogBehaves, PTL DEF ServiceSpec

\* CrawlsSettle, of the service: a complete crawl that ran alone settles what is listed.
THEOREM EachCrawlSettles == ServiceSpec => CrawlSettlesPresence
<1>1. ~(part = "catalog") /\ UNCHANGED part => (~(part = "catalog"))'
  OBVIOUS
<1>2. ~(part = "catalog") => [part = "catalog" => Catalog!SettlesPresence]_pc
  OBVIOUS
<1>3. [Catalog!SettlesPresence]_Catalog!vars => [part = "catalog" => Catalog!SettlesPresence]_pc
  BY DEF Catalog!vars
<1>4. Catalog!Spec => [][Catalog!SettlesPresence]_Catalog!vars
  BY ServiceAssumption, Catalog!CrawlsSettle DEF Catalog!CrawlSettlesPresence
<1> QED  BY <1>1, <1>2, <1>3, <1>4, PartStays, CatalogBehaves, PTL
         DEF ServiceSpec, CrawlSettlesPresence

\* ClientsAreDisciplined, of both uses of the venues: no window of time sees more requests
\* of a client than its budget, and no call is made again before its venue allows.
THEOREM EachIsDisciplined == ServiceSpec => []Disciplined
<1>1. ~(part = "books") /\ UNCHANGED part => (~(part = "books"))'
  OBVIOUS
<1>2. ~(part = "others") /\ UNCHANGED part => (~(part = "others"))'
  OBVIOUS
<1>3. Disciplined <=> /\ ~(part = "books") \/ Books!Disciplined
                      /\ ~(part = "others") \/ Others!Disciplined
  BY DEF Disciplined
<1>4. Books!Spec => []Books!Disciplined
  BY ServiceAssumption, Books!ClientsAreDisciplined
<1>5. Others!Spec => []Others!Disciplined
  BY ServiceAssumption, Others!ClientsAreDisciplined
<1> QED  BY <1>1, <1>2, <1>3, <1>4, <1>5, PartStays, BooksBehave, OthersBehave, PTL
         DEF ServiceSpec

\* MissingAreUnknown, of both: what a call that returns has not found, the venue left out.
THEOREM EachMissingIsUnknown == ServiceSpec => []MissingIsUnknown
<1>1. ~(part = "books") /\ UNCHANGED part => (~(part = "books"))'
  OBVIOUS
<1>2. ~(part = "others") /\ UNCHANGED part => (~(part = "others"))'
  OBVIOUS
<1>3. MissingIsUnknown <=> /\ ~(part = "books") \/ Books!MissingIsUnknown
                           /\ ~(part = "others") \/ Others!MissingIsUnknown
  BY DEF MissingIsUnknown
<1>4. Books!Spec => []Books!MissingIsUnknown
  BY ServiceAssumption, Books!MissingAreUnknown
<1>5. Others!Spec => []Others!MissingIsUnknown
  BY ServiceAssumption, Others!MissingAreUnknown
<1> QED  BY <1>1, <1>2, <1>3, <1>4, <1>5, PartStays, BooksBehave, OthersBehave, PTL
         DEF ServiceSpec

=============================================================================
