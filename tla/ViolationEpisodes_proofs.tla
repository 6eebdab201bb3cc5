---------------------- MODULE ViolationEpisodes_proofs ----------------------
(***************************************************************************)
(* The table keeps its types, and at most one open episode per constraint,  *)
(* for any number of replicas, constraints and rows; the table of a replica *)
(* that is alone shows what its check found, and implements the lifecycle.  *)
(***************************************************************************)
EXTENDS ViolationEpisodes, TLAPS

\* What a worker holds of the table is there: the row it read, the rows it is
\* about to close.
Grounded ==
  \A w \in Worker :
    /\ pc[w] = "writing" => seen[w].key \in Key
    /\ seen[w].id # 0 => seen[w].row \in RowType /\ Exists(seen[w].id)
    /\ \A r \in gone[w] : Exists(r)
    /\ pc[w] \in {"recording", "writing", "closing"} => at[w] > 0

Inv == TypeOK /\ Grounded /\ OneOpenEpisode

\* A step that leaves the table alone can only disturb what a worker holds of it.
LEMMA TableKept ==
  ASSUME Inv, rows' = rows
  PROVE  OneOpenEpisode' /\ \A r \in Row : Exists(r)' = Exists(r)
BY DEF Inv, OneOpenEpisode, IsOpen, Exists

LEMMA InvInit == Init => Inv
<1> SUFFICES ASSUME Init PROVE Inv
  OBVIOUS
<1>1. TypeOK
  BY CheckAssumption DEF Init, TypeOK, NoRow, Apparent
<1>2. Grounded /\ OneOpenEpisode
  BY DEF Init, Grounded, OneOpenEpisode, IsOpen, Exists
<1> QED BY <1>1, <1>2 DEF Inv

LEMMA InvNext == Inv /\ [Next]_vars => Inv'
<1> SUFFICES ASSUME Inv, [Next]_vars PROVE Inv'
  OBVIOUS
<1> USE CheckAssumption DEF checkVars, storeVars
<1>a. TypeOK /\ Grounded /\ OneOpenEpisode
  BY DEF Inv
<1>1. CASE UNCHANGED vars
  <2>1. rows' = rows
    BY <1>1 DEF vars
  <2>2. TypeOK'
    BY <1>1, <1>a DEF vars, TypeOK, Apparent, Free
  <2>3. Grounded'
    BY <1>1, <1>a, <2>1 DEF vars, Grounded, TypeOK, Exists
  <2> QED BY <2>1, <2>2, <2>3, TableKept DEF Inv
<1>2. ASSUME NEW w \in Worker, Begin(w) PROVE Inv'
  <2>1. rows' = rows
    BY <1>2 DEF Begin
  <2>2. TypeOK'
    BY <1>2, <1>a DEF Begin, TypeOK, Apparent, Free
  <2>3. Grounded'
    BY <1>2, <1>a, <2>1 DEF Begin, Grounded, TypeOK, Exists
  <2> QED BY <2>1, <2>2, <2>3, TableKept DEF Inv
<1>3. ASSUME NEW w \in Worker, Confirm(w) PROVE Inv'
  <2>1. rows' = rows
    BY <1>3 DEF Confirm
  <2>2. TypeOK'
    BY <1>3, <1>a DEF Confirm, TypeOK, Apparent, Free
  <2>3. Grounded'
    BY <1>3, <1>a, <2>1 DEF Confirm, Grounded, TypeOK, Exists
  <2> QED BY <2>1, <2>2, <2>3, TableKept DEF Inv
<1>4. ASSUME NEW w \in Worker, CheckFails(w) PROVE Inv'
  <2>1. rows' = rows
    BY <1>4 DEF CheckFails
  <2>2. TypeOK'
    BY <1>4, <1>a DEF CheckFails, TypeOK, Apparent, Free
  <2>3. Grounded'
    BY <1>4, <1>a, <2>1 DEF CheckFails, Grounded, TypeOK, Exists
  <2> QED BY <2>1, <2>2, <2>3, TableKept DEF Inv
<1>5. ASSUME NEW w \in Worker, Record(w) PROVE Inv'
  <2>1. rows' = rows
    BY <1>5 DEF Record
  <2>2. TypeOK'
    BY <1>5, <1>a DEF Record, TypeOK, Apparent, Free
  <2>3. Grounded'
    BY <1>5, <1>a, <2>1 DEF Record, Grounded, TypeOK, Exists
  <2> QED BY <2>1, <2>2, <2>3, TableKept DEF Inv
<1>6. ASSUME NEW w \in Worker, Recorded(w) PROVE Inv'
  <2>1. rows' = rows
    BY <1>6 DEF Recorded
  <2>2. TypeOK'
    BY <1>6, <1>a DEF Recorded, TypeOK, Apparent, Free
  <2>3. Grounded'
    BY <1>6, <1>a, <2>1 DEF Recorded, Grounded, TypeOK, Exists
  <2> QED BY <2>1, <2>2, <2>3, TableKept DEF Inv
<1>7. ASSUME NEW w \in Worker, Finish(w) PROVE Inv'
  <2>1. rows' = rows
    BY <1>7 DEF Finish
  <2>2. TypeOK'
    BY <1>7, <1>a DEF Finish, TypeOK, Apparent, Free
  <2>3. Grounded'
    BY <1>7, <1>a, <2>1 DEF Finish, Grounded, TypeOK, Exists
  <2> QED BY <2>1, <2>2, <2>3, TableKept DEF Inv
<1>8. ASSUME NEW w \in Worker, RecordFails(w) PROVE Inv'
  <2>1. rows' = rows
    BY <1>8 DEF RecordFails
  <2>2. TypeOK'
    BY <1>8, <1>a DEF RecordFails, TypeOK, Apparent, Free
  <2>3. Grounded'
    BY <1>8, <1>a, <2>1 DEF RecordFails, Grounded, TypeOK, Exists
  <2> QED BY <2>1, <2>2, <2>3, TableKept DEF Inv
<1>9. ASSUME NEW w \in Worker, Screen(w) PROVE Inv'
  <2>1. PICK A \in SUBSET Key, V \in SUBSET Key, P \in SUBSET Key :
          /\ satisfied' = [satisfied EXCEPT ![w] = A]
          /\ violated' = [violated EXCEPT ![w] = V]
          /\ promoted' = [promoted EXCEPT ![w] = P]
    <3>1. PICK priceable \in IF Partial THEN SUBSET Key ELSE {Key} :
            \E V \in SUBSET priceable :
              /\ satisfied' = [satisfied EXCEPT ![w] = priceable \ V]
              /\ violated' = [violated EXCEPT ![w] = V]
              /\ \E P \in SUBSET V : promoted' = [promoted EXCEPT ![w] = P]
      BY <1>9 DEF Screen
    <3> QED BY <3>1
  <2>2. /\ pc' = [pc EXCEPT ![w] = "confirming"]
        /\ UNCHANGED <<lock, found, storeVars, rows, clock, checks, faults>>
    BY <1>9 DEF Screen
  <2>3. TypeOK'
    BY <1>a, <2>1, <2>2 DEF TypeOK
  <2>4. Grounded'
    BY <1>a, <2>2 DEF Grounded, TypeOK, Exists
  <2> QED BY <2>2, <2>3, <2>4, TableKept DEF Inv
<1>10. ASSUME NEW w \in Worker, NEW k \in Key, Select(w, k) PROVE Inv'
  <2>1. PICK r \in Row \cup {0} :
          /\ r # 0 => IsOpen(r)
          /\ seen' = [seen EXCEPT ![w] =
               [key |-> k, id |-> r, row |-> IF r = 0 THEN NoRow ELSE rows[r]]]
    BY <1>10 DEF Select
  <2>2. r # 0 => r \in Row /\ rows[r] \in RowType /\ Exists(r)
    BY <1>a, <2>1 DEF TypeOK, IsOpen, Exists
  <2>3. /\ pc[w] = "recording"
        /\ todo' = [todo EXCEPT ![w] = @ \ {k}] /\ pc' = [pc EXCEPT ![w] = "writing"]
        /\ UNCHANGED <<lock, checkVars, at, gone, rows, clock, checks, faults>>
    BY <1>10 DEF Select
  <2>4. TypeOK'
    BY <1>a, <2>1, <2>2, <2>3 DEF TypeOK
  <2>5. Grounded'
    BY <1>a, <2>1, <2>2, <2>3 DEF Grounded, TypeOK, Exists
  <2> QED BY <2>3, <2>4, <2>5, TableKept DEF Inv
<1>11. ASSUME NEW w \in Worker, FindGone(w) PROVE Inv'
  <2>1. rows' = rows
    BY <1>11 DEF FindGone
  <2>2. TypeOK'
    BY <1>11, <1>a DEF FindGone, TypeOK, Apparent, Free
  <2>3. Grounded'
    BY <1>11, <1>a, <2>1 DEF FindGone, Grounded, TypeOK, IsOpen, Exists
  <2> QED BY <2>1, <2>2, <2>3, TableKept DEF Inv
<1>12. ASSUME NEW w \in Worker, Insert(w) PROVE Inv'
  <2>1. CASE seen[w].key \in OpenKeys
    <3>1. rows' = rows /\ pc' = [pc EXCEPT ![w] = "idle"]
          /\ UNCHANGED <<lock, checkVars, storeVars, clock, checks, faults>>
      BY <1>12, <2>1 DEF Insert
    <3>2. TypeOK'
      BY <1>a, <3>1 DEF TypeOK
    <3>3. Grounded'
      BY <1>a, <3>1 DEF Grounded, TypeOK, Exists
    <3> QED BY <3>1, <3>2, <3>3, TableKept DEF Inv
  <2>2. CASE seen[w].key \notin OpenKeys
    <3> DEFINE new == [key |-> seen[w].key,
                       status |-> IF Confirmed(w) THEN "confirmed" ELSE "apparent",
                       reason |-> ~Confirmed(w), ever |-> Confirmed(w),
                       peak |-> found[w][seen[w].key], opened |-> at[w], closed |-> 0]
    <3>1. PICK r \in Row : ~Exists(r) /\ rows' = [rows EXCEPT ![r] = new]
      BY <1>12, <2>2 DEF Insert
    <3>2. /\ pc[w] = "writing" /\ pc' = [pc EXCEPT ![w] = "recording"]
          /\ UNCHANGED <<lock, checkVars, storeVars, clock, checks, faults>>
      BY <1>12, <2>2 DEF Insert
    <3>3. seen[w].key \in Key
      BY <1>12, <1>a DEF Insert, Grounded
    <3>4. new \in RowType /\ new.key = seen[w].key
      <4>1. Confirmed(w) \in BOOLEAN
        BY DEF Confirmed
      <4>2. found[w][seen[w].key] \in 0..MaxProfit /\ at[w] \in Nat
        BY <1>a, <3>3 DEF TypeOK
      <4> QED BY <3>3, <4>1, <4>2 DEF RowType
    <3> HIDE DEF new
    <3>5. TypeOK'
      BY <1>a, <3>1, <3>2, <3>4 DEF TypeOK
    <3>6. new # NoRow
      BY <3>4 DEF RowType, NoRow
    <3>7. Grounded'
      BY <1>a, <3>1, <3>2, <3>6 DEF Grounded, TypeOK, Exists
    <3>8. OneOpenEpisode'
      <4>1. \A s \in Row : IsOpen(s) => rows[s].key # new.key
        BY <2>2, <3>4 DEF OpenKeys
      <4>2. \A s \in Row : s # r => rows'[s] = rows[s]
        BY <1>a, <3>1 DEF TypeOK
      <4>3. rows'[r] = new
        BY <1>a, <3>1 DEF TypeOK
      <4> QED BY <1>a, <4>1, <4>2, <4>3 DEF OneOpenEpisode, IsOpen, Exists
    <3> QED BY <3>5, <3>7, <3>8 DEF Inv
  <2> QED BY <2>1, <2>2
<1>13. ASSUME NEW w \in Worker, Update(w) PROVE Inv'
  <2> DEFINE old == seen[w].row
             new(r) == [rows[r] EXCEPT
               !.status = IF Confirmed(w) THEN "confirmed" ELSE old.status,
               !.reason = ~Confirmed(w), !.ever = old.ever \/ Confirmed(w),
               !.peak = IF found[w][seen[w].key] > old.peak THEN found[w][seen[w].key] ELSE rows[r].peak]
  <2>1. PICK r \in Row : r = seen[w].id
    BY <1>13, <1>a DEF Update, TypeOK
  <2>2. seen[w].key \in Key /\ old \in RowType /\ Exists(r) /\ rows[r] \in RowType
    <3>1. pc[w] = "writing" /\ seen[w].id # 0
      BY <1>13 DEF Update
    <3>2. seen[w].key \in Key /\ seen[w].row \in RowType /\ Exists(r)
      BY <1>a, <2>1, <3>1 DEF Grounded
    <3> QED BY <1>a, <3>2 DEF TypeOK, Exists
  <2>3. /\ pc[w] = "writing" /\ pc' = [pc EXCEPT ![w] = "recording"]
        /\ rows' = [rows EXCEPT ![r] = new(r)]
        /\ UNCHANGED <<lock, checkVars, storeVars, clock, checks, faults>>
    <3>1. rows' = [rows EXCEPT ![seen[w].id] = new(seen[w].id)]
      BY <1>13 DEF Update
    <3> HIDE DEF new
    <3>2. rows' = [rows EXCEPT ![r] = new(r)]
      BY <2>1, <3>1
    <3> QED BY <1>13, <3>2 DEF Update
  <2>4. new(r) \in RowType /\ new(r).key = rows[r].key /\ new(r).closed = rows[r].closed
    <3>1. Confirmed(w) \in BOOLEAN
      BY DEF Confirmed
    <3>2. found[w][seen[w].key] \in 0..MaxProfit
      BY <1>a, <2>2 DEF TypeOK
    <3>3. old.status \in {"apparent", "confirmed", "closed"} /\ old.ever \in BOOLEAN
      BY <2>2 DEF RowType
    <3> QED BY <2>2, <3>1, <3>2, <3>3 DEF RowType
  <2> HIDE DEF new, old
  <2>5. TypeOK'
    BY <1>a, <2>3, <2>4 DEF TypeOK
  <2>6. new(r) # NoRow
    BY <2>4 DEF RowType, NoRow
  <2>7. Grounded'
    BY <1>a, <2>3, <2>6 DEF Grounded, TypeOK, Exists
  <2>8. OneOpenEpisode'
    <3>1. \A s \in Row : rows'[s].key = rows[s].key /\ (IsOpen(s)' => IsOpen(s))
      BY <1>a, <2>2, <2>3, <2>4, <2>6 DEF TypeOK, IsOpen, Exists
    <3> QED BY <1>a, <3>1 DEF OneOpenEpisode
  <2> QED BY <2>5, <2>7, <2>8 DEF Inv
<1>14. ASSUME NEW w \in Worker, NEW r \in Row, CloseRow(w, r) PROVE Inv'
  <2> DEFINE new == [rows[r] EXCEPT !.status = "closed", !.closed = at[w]]
  <2>1. Exists(r) /\ rows[r] \in RowType /\ at[w] \in Nat
    BY <1>14, <1>a DEF CloseRow, Grounded, TypeOK, Exists
  <2>2. /\ rows' = [rows EXCEPT ![r] = new] /\ gone' = [gone EXCEPT ![w] = @ \ {r}]
        /\ UNCHANGED <<lock, pc, checkVars, at, todo, seen, clock, checks, faults>>
    BY <1>14, <1>a, <2>1 DEF CloseRow, TypeOK, RowType
  <2>3. new \in RowType /\ new.key = rows[r].key
    BY <2>1 DEF RowType
  <2> HIDE DEF new
  <2>4. TypeOK'
    BY <1>a, <2>2, <2>3 DEF TypeOK
  <2>5. new # NoRow
    BY <2>3 DEF RowType, NoRow
  <2>6. Grounded'
    BY <1>a, <2>2, <2>5 DEF Grounded, TypeOK, Exists
  <2>7. OneOpenEpisode'
    <3>1. new.closed # 0
      BY <1>14, <1>a, <2>1 DEF CloseRow, Grounded, RowType, new
    <3>2. \A s \in Row : IsOpen(s)' => IsOpen(s) /\ rows'[s] = rows[s]
      BY <1>a, <2>2, <3>1 DEF TypeOK, IsOpen, Exists
    <3> QED BY <1>a, <3>2 DEF OneOpenEpisode
  <2> QED BY <2>4, <2>6, <2>7 DEF Inv
<1> QED
  BY <1>1, <1>2, <1>3, <1>4, <1>5, <1>6, <1>7, <1>8, <1>9, <1>10, <1>11, <1>12, <1>13, <1>14 DEF Next, Step

\* Every row, and every worker's copy of one, keeps the columns' types.
THEOREM TypeCorrect == Spec => []TypeOK
<1>1. Init => Inv
  BY InvInit
<1>2. Inv /\ [Next]_vars => Inv'
  BY InvNext
<1>3. Inv => TypeOK
  BY DEF Inv
<1> QED BY <1>1, <1>2, <1>3, PTL DEF Spec

\* Checkers that race never leave a constraint with two open episodes.
THEOREM OneOpen == Spec => []OneOpenEpisode
<1>1. Init => Inv
  BY InvInit
<1>2. Inv /\ [Next]_vars => Inv'
  BY InvNext
<1>3. Inv => OneOpenEpisode
  BY DEF Inv
<1> QED BY <1>1, <1>2, <1>3, PTL DEF Spec

-----------------------------------------------------------------------------
(* One replica: what its check found is what the table shows *)

Alone == \A v, w \in Worker : v = w

LEMMA ReplicaAlone == ASSUME Inv, OneReplica PROVE Alone
BY DEF Inv, TypeOK, OneReplica, Alone

\* How far a replica has come in making the open episodes those of its check.
Tracked(w) ==
  /\ pc[w] \in {"recording", "writing"} => todo[w] \subseteq promoted[w]
  /\ pc[w] = "recording" => promoted[w] \ todo[w] \subseteq OpenKeys
  /\ pc[w] = "writing" =>
       /\ seen[w].key \in promoted[w]
       /\ promoted[w] \ todo[w] \subseteq OpenKeys \cup {seen[w].key}
       /\ seen[w].id # 0 => /\ IsOpen(seen[w].id) /\ rows[seen[w].id] = seen[w].row
                            /\ seen[w].row.key = seen[w].key
  /\ pc[w] = "closing" =>
       /\ promoted[w] \subseteq OpenKeys
       /\ gone[w] = {r \in Row : IsOpen(r) /\ rows[r].key \notin promoted[w]}
  /\ pc[w] = "announcing" => OpenKeys = promoted[w]

\* What of the violated its screen promoted.
Truncated(w) ==
  pc[w] \notin {"idle", "screening"} =>
    /\ promoted[w] \subseteq violated[w]
    /\ IF Cardinality(violated[w]) <= Budget THEN promoted[w] = violated[w]
                                             ELSE Cardinality(promoted[w]) = Budget

\* The constraints it is done with: what is promoted, not to do, and not in hand.
Handled(w) ==
  IF pc[w] = "recording" THEN promoted[w] \ todo[w]
  ELSE IF pc[w] = "writing" THEN (promoted[w] \ todo[w]) \ {seen[w].key}
  ELSE IF pc[w] \in {"closing", "announcing"} THEN promoted[w] ELSE {}

\* Their rows say what stage 2 found.
Reflected(w) == \A r \in Row : IsOpen(r) /\ rows[r].key \in Handled(w) => Reflects(w, r)

SoloInv ==
  /\ Inv /\ \A w \in Worker : Truncated(w)
  /\ Alone => \A w \in Worker : Tracked(w) /\ Reflected(w)

\* What each statement that writes does to the table.
LEMMA InsertedRow ==
  ASSUME Inv, NEW w \in Worker, Insert(w), seen[w].key \notin OpenKeys
  PROVE  \E r \in Row :
           /\ ~Exists(r) /\ IsOpen(r)' /\ rows'[r].key = seen[w].key
           /\ rows'[r].ever \in BOOLEAN /\ rows'[r].peak \in 0..MaxProfit
           /\ rows'[r].ever = Confirmed(w) /\ rows'[r].peak = found[w][seen[w].key]
           /\ \A s \in Row : s # r => rows'[s] = rows[s]
<1>1. PICK r \in Row :
        /\ ~Exists(r)
        /\ rows' = [rows EXCEPT ![r] =
             [key |-> seen[w].key,
              status |-> IF Confirmed(w) THEN "confirmed" ELSE "apparent",
              reason |-> ~Confirmed(w), ever |-> Confirmed(w),
              peak |-> found[w][seen[w].key], opened |-> at[w], closed |-> 0]]
  BY DEF Insert
<1>2. seen[w].key \in Key /\ found[w] \in [Key -> 0..MaxProfit] /\ DOMAIN rows = Row
  BY DEF Inv, TypeOK, Grounded, Insert
<1>3. rows'[r] = [key |-> seen[w].key,
                  status |-> IF Confirmed(w) THEN "confirmed" ELSE "apparent",
                  reason |-> ~Confirmed(w), ever |-> Confirmed(w),
                  peak |-> found[w][seen[w].key], opened |-> at[w], closed |-> 0]
  BY <1>1, <1>2
<1>4. \A s \in Row : s # r => rows'[s] = rows[s]
  BY <1>1, <1>2
<1>5. rows'[r].status # NoRow.status
  BY <1>3 DEF NoRow
<1>6. IsOpen(r)'
  BY <1>3, <1>5 DEF IsOpen, Exists
<1>7. /\ rows'[r].ever \in BOOLEAN /\ rows'[r].peak \in 0..MaxProfit
      /\ rows'[r].ever = Confirmed(w) /\ rows'[r].peak = found[w][seen[w].key]
  BY <1>2, <1>3 DEF Confirmed
<1> QED  BY <1>1, <1>3, <1>4, <1>6, <1>7

LEMMA UpdatedRow ==
  ASSUME Inv, NEW w \in Worker, Update(w), NEW r, r = seen[w].id, rows[r] = seen[w].row
  PROVE  /\ r \in Row /\ Exists(r)'
         /\ rows'[r].key = rows[r].key /\ rows'[r].closed = rows[r].closed
         /\ rows'[r].ever \in BOOLEAN /\ (rows[r].ever => rows'[r].ever)
         /\ rows'[r].peak \in 0..MaxProfit /\ rows'[r].peak >= rows[r].peak
         /\ (Confirmed(w) => rows'[r].ever) /\ rows'[r].peak >= found[w][seen[w].key]
         /\ \A s \in Row : s # r => rows'[s] = rows[s]
<1> DEFINE old == rows[r]
           new == [old EXCEPT
             !.status = IF Confirmed(w) THEN "confirmed" ELSE old.status,
             !.reason = ~Confirmed(w), !.ever = old.ever \/ Confirmed(w),
             !.peak = IF found[w][seen[w].key] > old.peak THEN found[w][seen[w].key]
                      ELSE old.peak]
<1>1. /\ r \in Row /\ old \in RowType /\ DOMAIN rows = Row
      /\ seen[w].key \in Key /\ found[w] \in [Key -> 0..MaxProfit]
  BY DEF Inv, TypeOK, Grounded, Update
<1>2. rows' = [rows EXCEPT ![r] = new]
  BY DEF Update
<1>3. found[w][seen[w].key] \in 0..MaxProfit /\ MaxProfit \in Nat
  BY <1>1, CheckAssumption
<1>4. /\ new.key = old.key /\ new.closed = old.closed /\ new.ever \in BOOLEAN
      /\ old.ever => new.ever
      /\ new.status # "none" /\ new.peak \in 0..MaxProfit /\ new.peak >= old.peak
      /\ new.peak >= found[w][seen[w].key]
  BY <1>1, <1>3 DEF RowType, Confirmed
<1>c. Confirmed(w) => new.ever
  BY <1>1 DEF RowType
<1>5. new # NoRow
  BY <1>4 DEF NoRow
<1>6. rows'[r] = new /\ \A s \in Row : s # r => rows'[s] = rows[s]
  BY <1>1, <1>2
<1>7. Exists(r)'
  <2> HIDE DEF new
  <2> QED  BY <1>5, <1>6 DEF Exists
<1> HIDE DEF new
<1> QED  BY <1>1, <1>4, <1>c, <1>6, <1>7

LEMMA ClosedRow ==
  ASSUME Inv, NEW w \in Worker, NEW r \in Row, CloseRow(w, r)
  PROVE  /\ Exists(r) /\ Exists(r)' /\ ~IsOpen(r)'
         /\ rows'[r].ever = rows[r].ever /\ rows'[r].peak = rows[r].peak
         /\ \A s \in Row : s # r => rows'[s] = rows[s]
<1>1. /\ Exists(r) /\ rows[r] \in RowType /\ DOMAIN rows = Row /\ at[w] \in Nat /\ at[w] > 0
  BY DEF Inv, TypeOK, Grounded, CloseRow, Exists
<1> DEFINE new == [rows[r] EXCEPT !.status = "closed", !.closed = at[w]]
<1>2. rows' = [rows EXCEPT ![r] = new]
  BY <1>1 DEF CloseRow
<1>3. new.status = "closed" /\ new.closed = at[w] /\ new.ever = rows[r].ever /\ new.peak = rows[r].peak
  BY <1>1 DEF RowType
<1>4. new # NoRow
  BY <1>3 DEF NoRow
<1>5. rows'[r] = new /\ \A s \in Row : s # r => rows'[s] = rows[s]
  BY <1>1, <1>2
<1> HIDE DEF new
<1> QED  BY <1>1, <1>3, <1>4, <1>5 DEF Exists, IsOpen

LEMMA SoloInit == Init => SoloInv
<1> SUFFICES ASSUME Init PROVE SoloInv
  OBVIOUS
<1>1. Inv
  BY InvInit
<1>2. \A w \in Worker : pc[w] = "idle"
  BY DEF Init
<1> QED  BY <1>1, <1>2 DEF SoloInv, Tracked, Truncated, Reflected, Handled

LEMMA TrackedNext ==
  ASSUME SoloInv, [Next]_vars, Inv', Alone, NEW w \in Worker
  PROVE  Tracked(w)'
<1> USE DEF SoloInv
<1>2. Inv
  OBVIOUS
<1>3. Tracked(w) /\ DOMAIN pc = Worker /\ TypeOK
  BY <1>2 DEF Inv, TypeOK
<1>4. CASE UNCHANGED vars
  BY <1>3, <1>4 DEF vars, checkVars, storeVars, Tracked, OpenKeys, IsOpen, Exists
<1>5. CASE Begin(w) \/ Screen(w) \/ Confirm(w) \/ CheckFails(w) \/ Finish(w) \/ RecordFails(w)
  <2>1. pc'[w] \notin {"recording", "writing", "closing", "announcing"}
    BY <1>3, <1>5 DEF Begin, Screen, Confirm, CheckFails, Finish, RecordFails
  <2> QED  BY <2>1 DEF Tracked
<1>6. CASE Record(w)
  <2>1. /\ pc'[w] = "recording" /\ todo'[w] = promoted'[w]
    BY <1>3, <1>6 DEF Record, TypeOK, checkVars
  <2> QED  BY <2>1 DEF Tracked
<1>7. ASSUME NEW k \in Key, Select(w, k)
      PROVE  Tracked(w)'
  <2>1. PICK r \in Row \cup {0} :
          /\ IF r = 0 THEN k \notin OpenKeys ELSE IsOpen(r) /\ rows[r].key = k
          /\ seen' = [seen EXCEPT ![w] =
               [key |-> k, id |-> r, row |-> IF r = 0 THEN NoRow ELSE rows[r]]]
    BY <1>7 DEF Select
  <2>2. /\ seen'[w].key = k /\ seen'[w].id = r /\ (r # 0 => seen'[w].row = rows[r])
    BY <1>3, <2>1 DEF TypeOK
  <2>3. /\ pc'[w] = "writing" /\ todo'[w] = todo[w] \ {k} /\ k \in todo[w]
        /\ pc[w] = "recording" /\ UNCHANGED <<rows, promoted>>
    BY <1>3, <1>7 DEF Select, TypeOK, checkVars
  <2>4. OpenKeys' = OpenKeys /\ \A s \in Row : IsOpen(s)' = IsOpen(s)
    BY <2>3 DEF OpenKeys, IsOpen, Exists
  <2>5. todo[w] \subseteq promoted[w] /\ promoted[w] \ todo[w] \subseteq OpenKeys
    BY <1>3, <2>3 DEF Tracked
  <2>6. r # 0 => IsOpen(r)' /\ rows'[r].key = k
    BY <2>1, <2>3, <2>4
  <2> QED  BY <2>2, <2>3, <2>4, <2>5, <2>6 DEF Tracked
<1>8. CASE Insert(w)
  <2>1. CASE seen[w].key \in OpenKeys
    <3>1. pc'[w] = "idle"
      BY <1>3, <1>8, <2>1 DEF Insert
    <3> QED  BY <3>1 DEF Tracked
  <2>2. CASE seen[w].key \notin OpenKeys
    <3>1. PICK r \in Row :
            /\ ~Exists(r) /\ IsOpen(r)' /\ rows'[r].key = seen[w].key
            /\ \A s \in Row : s # r => rows'[s] = rows[s]
      BY <1>8, <2>2, InsertedRow
    <3>2. OpenKeys \cup {seen[w].key} \subseteq OpenKeys'
      BY <3>1 DEF OpenKeys, IsOpen, Exists
    <3>3. /\ pc[w] = "writing" /\ pc'[w] = "recording" /\ UNCHANGED <<todo, promoted>>
      BY <1>3, <1>8, <2>2 DEF Insert, checkVars, storeVars
    <3> QED  BY <1>3, <3>2, <3>3 DEF Tracked
  <2> QED  BY <2>1, <2>2
<1>9. CASE Update(w)
  <2>1. /\ pc[w] = "writing" /\ pc'[w] = "recording" /\ UNCHANGED <<todo, promoted>>
        /\ seen[w].id # 0
    BY <1>3, <1>9 DEF Update, checkVars, storeVars
  <2>r. PICK r : r = seen[w].id
    OBVIOUS
  <2>2. /\ IsOpen(r) /\ rows[r] = seen[w].row /\ rows[r].key = seen[w].key
        /\ promoted[w] \ todo[w] \subseteq OpenKeys \cup {seen[w].key}
        /\ todo[w] \subseteq promoted[w]
    BY <1>3, <2>1, <2>r DEF Tracked
  <2>3. /\ r \in Row /\ Exists(r)'
        /\ rows'[r].key = rows[r].key /\ rows'[r].closed = rows[r].closed
        /\ \A s \in Row : s # r => rows'[s] = rows[s]
    BY <1>9, <2>2, <2>r, UpdatedRow
  <2>4. IsOpen(r)'
    BY <2>2, <2>3 DEF IsOpen
  <2>5. OpenKeys \cup {seen[w].key} \subseteq OpenKeys'
    <3>1. ASSUME NEW s \in Row, IsOpen(s) PROVE rows[s].key \in OpenKeys'
      BY <2>3, <2>4, <3>1 DEF OpenKeys, IsOpen, Exists
    <3>2. seen[w].key \in OpenKeys'
      BY <2>2, <2>3, <2>4 DEF OpenKeys
    <3> QED  BY <3>1, <3>2 DEF OpenKeys
  <2> QED  BY <2>1, <2>2, <2>5 DEF Tracked
<1>10. CASE FindGone(w)
  <2>1. /\ pc[w] = "recording" /\ todo[w] = {} /\ pc'[w] = "closing" /\ UNCHANGED <<rows, promoted>>
        /\ gone'[w] = {r \in Row : IsOpen(r) /\ rows[r].key \notin promoted[w]}
    BY <1>3, <1>10 DEF FindGone, TypeOK, checkVars
  <2>2. OpenKeys' = OpenKeys /\ \A s \in Row : IsOpen(s)' = IsOpen(s)
    BY <2>1 DEF OpenKeys, IsOpen, Exists
  <2>3. promoted[w] \subseteq OpenKeys
    BY <1>3, <2>1 DEF Tracked
  <2> QED  BY <2>1, <2>2, <2>3 DEF Tracked
<1>11. ASSUME NEW r \in Row, CloseRow(w, r)
       PROVE  Tracked(w)'
  <2>1. /\ pc[w] = "closing" /\ pc'[w] = "closing" /\ promoted' = promoted
        /\ r \in gone[w] /\ gone'[w] = gone[w] \ {r}
    BY <1>3, <1>11 DEF CloseRow, TypeOK, checkVars
  <2>2. /\ ~IsOpen(r)' /\ \A s \in Row : s # r => rows'[s] = rows[s]
    BY <1>11, ClosedRow
  <2>3. /\ promoted[w] \subseteq OpenKeys
        /\ gone[w] = {s \in Row : IsOpen(s) /\ rows[s].key \notin promoted[w]}
    BY <1>3, <2>1 DEF Tracked
  <2>4. \A s \in Row : s # r => IsOpen(s)' = IsOpen(s)
    BY <2>2 DEF IsOpen, Exists
  <2>5. gone'[w] = {s \in Row : IsOpen(s)' /\ rows'[s].key \notin promoted'[w]}
    BY <2>1, <2>2, <2>3, <2>4
  <2>6. promoted'[w] \subseteq OpenKeys'
    <3>1. ASSUME NEW k \in promoted[w] PROVE k \in OpenKeys'
      <4>1. PICK s \in Row : IsOpen(s) /\ rows[s].key = k
        BY <2>3, <3>1 DEF OpenKeys
      <4>2. s # r
        BY <2>1, <2>3, <4>1
      <4> QED  BY <2>2, <2>4, <4>1, <4>2 DEF OpenKeys
    <3> QED  BY <2>1, <3>1
  <2> QED  BY <2>1, <2>5, <2>6 DEF Tracked
<1>12. CASE Recorded(w)
  <2>1. /\ pc[w] = "closing" /\ gone[w] = {} /\ pc'[w] = "announcing" /\ UNCHANGED <<rows, promoted>>
    BY <1>3, <1>12 DEF Recorded, checkVars
  <2>2. /\ promoted[w] \subseteq OpenKeys
        /\ \A s \in Row : IsOpen(s) => rows[s].key \in promoted[w]
    BY <1>3, <2>1 DEF Tracked
  <2>3. OpenKeys' = promoted'[w]
    BY <2>1, <2>2 DEF OpenKeys, IsOpen, Exists
  <2> QED  BY <2>1, <2>3 DEF Tracked
<1>13. CASE \E v \in Worker : Step(v)
  BY <1>5, <1>6, <1>7, <1>8, <1>9, <1>10, <1>11, <1>12, <1>13 DEF Alone, Step
<1> QED  BY <1>4, <1>13 DEF Next

LEMMA TruncatedNext ==
  ASSUME Inv, [Next]_vars, NEW w \in Worker, Truncated(w)
  PROVE  Truncated(w)'
<1>1. CASE Screen(w)
  <2>1. PICK V \in SUBSET Key, P \in SUBSET Key :
          /\ P \subseteq V
          /\ violated' = [violated EXCEPT ![w] = V] /\ promoted' = [promoted EXCEPT ![w] = P]
          /\ IF Cardinality(V) <= Budget THEN P = V ELSE Cardinality(P) = Budget
    BY <1>1 DEF Screen
  <2>2. violated'[w] = V /\ promoted'[w] = P
    BY <2>1 DEF Inv, TypeOK
  <2> QED  BY <2>1, <2>2 DEF Truncated
<1>2. ASSUME NEW v \in Worker, v # w, Screen(v) PROVE Truncated(w)'
  <2>1. PICK V, P :
          /\ violated' = [violated EXCEPT ![v] = V] /\ promoted' = [promoted EXCEPT ![v] = P]
    BY <1>2 DEF Screen
  <2>2. violated'[w] = violated[w] /\ promoted'[w] = promoted[w]
    BY <1>2, <2>1 DEF Inv, TypeOK
  <2>3. pc'[w] = pc[w]
    BY <1>2 DEF Screen, Inv, TypeOK
  <2> QED  BY <2>2, <2>3 DEF Truncated
<1>3. ASSUME violated' = violated, promoted' = promoted,
             pc'[w] \notin {"idle", "screening"} => pc[w] \notin {"idle", "screening"}
      PROVE  Truncated(w)'
  BY <1>3 DEF Truncated
<1>4. ASSUME NEW v \in Worker, Step(v), ~Screen(v) PROVE Truncated(w)'
  <2>1. violated' = violated /\ promoted' = promoted
    BY <1>4 DEF Step, checkVars, Begin, Confirm, CheckFails, Record, Select, Insert, Update,
                FindGone, CloseRow, Recorded, Finish, RecordFails
  <2>2. \/ pc' = pc \/ \E x : pc' = [pc EXCEPT ![v] = x] /\ x \in {"idle", "screening"}
        \/ pc[v] \notin {"idle", "screening"} /\ \E x : pc' = [pc EXCEPT ![v] = x]
    BY <1>4 DEF Step, Begin, Confirm, CheckFails, Record, Select, Insert, Update,
                FindGone, CloseRow, Recorded, Finish, RecordFails
  <2>3. pc'[w] \notin {"idle", "screening"} => pc[w] \notin {"idle", "screening"}
    BY <2>2 DEF Inv, TypeOK
  <2> QED  BY <2>1, <2>3, <1>3
<1>5. CASE UNCHANGED vars
  BY <1>5, <1>3 DEF vars, checkVars
<1> QED  BY <1>1, <1>2, <1>4, <1>5 DEF Next

\* A step that leaves the open rows of what was handled, and what was found, alone.
LEMMA ReflectedKept ==
  ASSUME NEW w \in Worker, Reflected(w), found'[w] = found[w],
         \A r \in Row : IsOpen(r)' /\ rows'[r].key \in Handled(w)'
                      => IsOpen(r) /\ rows'[r] = rows[r] /\ rows[r].key \in Handled(w)
  PROVE  Reflected(w)'
BY DEF Reflected, Reflects

LEMMA ReflectedNext ==
  ASSUME SoloInv, [Next]_vars, Inv', Alone, NEW w \in Worker
  PROVE  Reflected(w)'
<1>1. Inv /\ Tracked(w) /\ Reflected(w) /\ TypeOK
  BY DEF SoloInv, Inv
<1>2. CASE pc'[w] \notin {"recording", "writing", "closing", "announcing"}
  BY <1>2 DEF Reflected, Handled
<1>3. CASE UNCHANGED vars
  BY <1>1, <1>3 DEF vars, checkVars, storeVars, Reflected, Reflects, Handled, IsOpen, Exists
<1>4. CASE Record(w)
  <2>1. pc'[w] = "recording" /\ todo'[w] = promoted'[w]
    BY <1>1, <1>4 DEF Record, TypeOK, checkVars
  <2> QED  BY <2>1 DEF Reflected, Handled
<1>5. ASSUME NEW k \in Key, Select(w, k) PROVE Reflected(w)'
  <2>1. /\ pc[w] = "recording" /\ pc'[w] = "writing" /\ todo'[w] = todo[w] \ {k}
        /\ UNCHANGED <<rows, promoted, found>>
    BY <1>1, <1>5 DEF Select, TypeOK, checkVars
  <2>2. seen'[w].key = k
    BY <1>1, <1>5 DEF Select, TypeOK
  <2>3. Handled(w)' \subseteq Handled(w)
    BY <2>1, <2>2 DEF Handled
  <2> QED  BY <1>1, <2>1, <2>3, ReflectedKept DEF IsOpen, Exists
<1>6. CASE Insert(w) /\ seen[w].key \notin OpenKeys
  <2>1. PICK r \in Row :
          /\ ~Exists(r) /\ IsOpen(r)' /\ rows'[r].key = seen[w].key
          /\ rows'[r].ever = Confirmed(w) /\ rows'[r].peak = found[w][seen[w].key]
          /\ rows'[r].peak \in 0..MaxProfit
          /\ \A s \in Row : s # r => rows'[s] = rows[s]
    BY <1>1, <1>6, InsertedRow
  <2>2. /\ pc[w] = "writing" /\ pc'[w] = "recording"
        /\ UNCHANGED <<todo, promoted, found, seen>>
    BY <1>1, <1>6 DEF Insert, TypeOK, checkVars, storeVars
  <2>3. Reflects(w, r)'
    <3>1. found'[w][rows'[r].key] = found[w][seen[w].key]
      BY <2>1, <2>2
    <3>2. found'[w][rows'[r].key] > 0 => rows'[r].ever
      BY <2>1, <3>1 DEF Confirmed
    <3>3. rows'[r].peak >= found'[w][rows'[r].key]
      BY <2>1, <3>1, CheckAssumption
    <3> QED  BY <3>2, <3>3 DEF Reflects
  <2>4. ASSUME NEW s \in Row, s # r, IsOpen(s)', rows'[s].key \in Handled(w)'
        PROVE  Reflects(w, s)'
    <3>1. IsOpen(s) /\ rows'[s] = rows[s]
      BY <2>1, <2>4 DEF IsOpen, Exists
    <3>2. rows[s].key # seen[w].key
      BY <1>6, <3>1 DEF OpenKeys
    <3>3. rows[s].key \in Handled(w)
      BY <2>2, <2>4, <3>1, <3>2 DEF Handled
    <3> QED  BY <1>1, <2>2, <3>1, <3>3 DEF Reflected, Reflects
  <2> QED  BY <2>3, <2>4 DEF Reflected
<1>7. CASE Update(w)
  <2>r. PICK r : r = seen[w].id
    OBVIOUS
  <2>1. /\ pc[w] = "writing" /\ pc'[w] = "recording" /\ r # 0
        /\ UNCHANGED <<todo, promoted, found, seen>>
    BY <1>1, <1>7, <2>r DEF Update, TypeOK, checkVars, storeVars
  <2>2. IsOpen(r) /\ rows[r] = seen[w].row /\ rows[r].key = seen[w].key
    BY <1>1, <2>1, <2>r DEF Tracked
  <2>3. /\ r \in Row /\ rows'[r].key = rows[r].key /\ (Confirmed(w) => rows'[r].ever)
        /\ rows'[r].peak >= found[w][seen[w].key]
        /\ \A s \in Row : s # r => rows'[s] = rows[s]
    BY <1>1, <1>7, <2>2, <2>r, UpdatedRow
  <2>4. Reflects(w, r)'
    BY <2>1, <2>2, <2>3 DEF Reflects, Confirmed
  <2>5. ASSUME NEW s \in Row, s # r, IsOpen(s)', rows'[s].key \in Handled(w)'
        PROVE  Reflects(w, s)'
    <3>1. IsOpen(s) /\ rows'[s] = rows[s]
      BY <2>3, <2>5 DEF IsOpen, Exists
    <3>2. rows[s].key # seen[w].key
      BY <1>1, <2>2, <2>3, <2>5, <3>1 DEF Inv, OneOpenEpisode
    <3>3. rows[s].key \in Handled(w)
      BY <2>1, <2>5, <3>1, <3>2 DEF Handled
    <3> QED  BY <1>1, <2>1, <3>1, <3>3 DEF Reflected, Reflects
  <2> QED  BY <2>4, <2>5 DEF Reflected
<1>8. CASE FindGone(w)
  <2>1. /\ pc[w] = "recording" /\ todo[w] = {} /\ pc'[w] = "closing"
        /\ UNCHANGED <<rows, promoted, found>>
    BY <1>1, <1>8 DEF FindGone, TypeOK, checkVars
  <2> QED  BY <1>1, <2>1, ReflectedKept DEF IsOpen, Exists, Handled
<1>9. ASSUME NEW r \in Row, CloseRow(w, r) PROVE Reflected(w)'
  <2>1. pc[w] = "closing" /\ pc'[w] = "closing" /\ UNCHANGED <<promoted, found>>
    BY <1>1, <1>9 DEF CloseRow, TypeOK, checkVars
  <2>2. ~IsOpen(r)' /\ \A s \in Row : s # r => rows'[s] = rows[s]
    BY <1>1, <1>9, ClosedRow
  <2> QED  BY <1>1, <2>1, <2>2, ReflectedKept DEF IsOpen, Exists, Handled
<1>10. CASE Recorded(w)
  <2>1. /\ pc[w] = "closing" /\ pc'[w] = "announcing" /\ UNCHANGED <<rows, promoted, found>>
    BY <1>1, <1>10 DEF Recorded, TypeOK, checkVars
  <2> QED  BY <1>1, <2>1, ReflectedKept DEF IsOpen, Exists, Handled
<1>11. CASE \E v \in Worker : Step(v)
  <2>1. Step(w)
    BY <1>11 DEF Alone
  <2>2. CASE Begin(w) \/ Screen(w) \/ Confirm(w) \/ CheckFails(w) \/ Finish(w) \/ RecordFails(w)
    <3>1. pc'[w] \notin {"recording", "writing", "closing", "announcing"}
      BY <1>1, <2>2 DEF TypeOK, Begin, Screen, Confirm, CheckFails, Finish, RecordFails
    <3> QED  BY <1>2, <3>1
  <2>3. CASE Insert(w) /\ seen[w].key \in OpenKeys
    <3>1. pc'[w] = "idle"
      BY <1>1, <2>3 DEF TypeOK, Insert
    <3> QED  BY <1>2, <3>1
  <2> QED  BY <2>1, <2>2, <2>3, <1>4, <1>5, <1>6, <1>7, <1>8, <1>9, <1>10 DEF Step
<1> QED  BY <1>3, <1>11 DEF Next

LEMMA SoloNext == SoloInv /\ [Next]_vars => SoloInv'
<1> SUFFICES ASSUME SoloInv, [Next]_vars PROVE SoloInv'
  OBVIOUS
<1>1. Inv'
  BY InvNext DEF SoloInv
<1>2. \A w \in Worker : Truncated(w)'
  BY TruncatedNext DEF SoloInv
<1>3. Alone => \A w \in Worker : Tracked(w)' /\ Reflected(w)'
  BY <1>1, TrackedNext, ReflectedNext
<1> QED  BY <1>1, <1>2, <1>3 DEF SoloInv, Alone

LEMMA SoloAlways == Spec => []SoloInv
BY SoloInit, SoloNext, PTL DEF Spec

\* What a replica that records alone leaves open is of what it found violated, whatever
\* failed before: all of that within its budget, as much as the budget beyond it; and it
\* says at least what stage 2 found.
THEOREM OpenEpisodesAreViolated == Spec => []OpenIsViolated
<1>1. SoloInv => OpenIsViolated
  <2> SUFFICES ASSUME SoloInv, OneReplica, NEW w \in Worker, pc[w] = "announcing"
               PROVE  /\ OpenKeys \subseteq violated[w]
                      /\ \A r \in Row : IsOpen(r) => Reflects(w, r)
                      /\ IF Cardinality(violated[w]) <= Budget THEN OpenKeys = violated[w]
                                                               ELSE Cardinality(OpenKeys) = Budget
    BY DEF OpenIsViolated
  <2>1. Tracked(w) /\ Reflected(w) /\ Truncated(w)
    BY ReplicaAlone DEF SoloInv
  <2>2. OpenKeys = promoted[w] /\ Handled(w) = promoted[w]
    BY <2>1 DEF Tracked, Handled
  <2>3. \A r \in Row : IsOpen(r) => Reflects(w, r)
    BY <2>1, <2>2 DEF Reflected, OpenKeys
  <2> QED  BY <2>1, <2>2, <2>3 DEF Truncated
<1> QED  BY <1>1, SoloAlways, PTL

\* A check that examined every constraint closes only episodes of those that hold.
THEOREM CompleteChecksClose == Spec => CompleteCheckCloses
<1>1. SoloInv /\ [Next]_vars => [OneReplica => ClosesOnlySatisfied]_vars
  <2> SUFFICES ASSUME SoloInv, OneReplica, NEW w \in Worker, NEW r \in Row,
                      ExaminedAll(w), CloseRow(w, r)
               PROVE  rows[r].key \in satisfied[w]
    BY DEF ClosesOnlySatisfied
  <2>1. Tracked(w)
    BY ReplicaAlone DEF SoloInv
  <2>2. Exists(r) /\ rows[r].key \notin promoted[w]
    BY <2>1 DEF Tracked, CloseRow, IsOpen
  <2>3. rows[r].key \in Key
    BY <2>2 DEF SoloInv, Inv, TypeOK, Exists, RowType
  <2> QED  BY <2>2, <2>3 DEF ExaminedAll
<1> QED  BY <1>1, SoloAlways, PTL DEF Spec, CompleteCheckCloses

-----------------------------------------------------------------------------
(* One replica: every write is a step of the lifecycle *)

\* The open episode of a constraint is the only open row of it.
LEMMA OpenEpisodeShown ==
  ASSUME OneOpenEpisode, NEW r \in Row, IsOpen(r), NEW k, rows[r].key = k
  PROVE  OpenEpisode(k) = Shown(r)
<1> DEFINE c == CHOOSE s \in Row : IsOpen(s) /\ rows[s].key = k
<1>1. k \in OpenKeys
  BY DEF OpenKeys
<1>2. c \in Row /\ IsOpen(c) /\ rows[c].key = k
  OBVIOUS
<1>3. c = r
  BY <1>2 DEF OneOpenEpisode
<1> QED  BY <1>1, <1>3 DEF OpenEpisode

LEMMA OpenEpisodeShownNext ==
  ASSUME OneOpenEpisode', NEW r \in Row, IsOpen(r)', NEW k, rows'[r].key = k
  PROVE  OpenEpisode(k)' = Shown(r)'
<1> DEFINE c == CHOOSE s \in Row : IsOpen(s) /\ rows[s].key = k
<1>1. (k \in OpenKeys)'
  BY DEF OpenKeys
<1>2. (c \in Row /\ IsOpen(c) /\ rows[c].key = k)'
  OBVIOUS
<1>3. c' = r
  BY <1>2 DEF OneOpenEpisode
<1> QED  BY <1>1, <1>3 DEF OpenEpisode

\* A write to one row leaves the episodes of the other constraints as they were.
LEMMA OthersKept ==
  ASSUME OneOpenEpisode, OneOpenEpisode', NEW r \in Row, NEW k,
         \A s \in Row : s # r => rows'[s] = rows[s],
         IsOpen(r) => rows[r].key = k, IsOpen(r)' => rows'[r].key = k,
         NEW j \in Key, j # k
  PROVE  OpenEpisode(j)' = OpenEpisode(j)
<1>1. \A s \in Row : s # r => (IsOpen(s)' <=> IsOpen(s))
  BY DEF IsOpen, Exists
<1>2. CASE j \in OpenKeys
  <2>1. PICK s \in Row : IsOpen(s) /\ rows[s].key = j
    BY <1>2 DEF OpenKeys
  <2>2. s # r
    BY <2>1
  <2>3. OpenEpisode(j) = Shown(s)
    BY <2>1, OpenEpisodeShown
  <2>4. IsOpen(s)' /\ rows'[s].key = j
    BY <1>1, <2>1, <2>2
  <2>5. OpenEpisode(j)' = Shown(s)'
    BY <2>4, OpenEpisodeShownNext
  <2> QED  BY <2>2, <2>3, <2>5 DEF Shown
<1>3. CASE j \notin OpenKeys
  <2>1. j \notin OpenKeys'
    BY <1>1, <1>3 DEF OpenKeys
  <2> QED  BY <1>3, <2>1 DEF OpenEpisode
<1> QED  BY <1>2, <1>3

LEMMA EpisodeTyped ==
  ASSUME Inv, NEW r \in Row, IsOpen(r)
  PROVE  Shown(r) \in Lifecycle!Episode /\ rows[r].key \in Key
<1>1. rows[r] \in RowType
  BY DEF Inv, TypeOK, IsOpen, Exists
<1> QED  BY <1>1 DEF RowType, Shown, Lifecycle!Episode

LEMMA RefinesInit == Init => Lifecycle!Init
<1> SUFFICES ASSUME Init PROVE Lifecycle!Init
  OBVIOUS
<1>1. \A r \in Row : ~Exists(r)
  BY DEF Init, Exists
<1>2. \A k \in Key : OpenEpisode(k) = Lifecycle!NoEpisode
  BY <1>1 DEF OpenEpisode, OpenKeys, IsOpen, Lifecycle!NoEpisode
<1>3. ClosedEpisodes = {}
  BY <1>1 DEF ClosedEpisodes
<1> QED  BY <1>2, <1>3 DEF Lifecycle!Init

LEMMA InsertOpens ==
  ASSUME Inv, Inv', NEW w \in Worker, Insert(w), seen[w].key \notin OpenKeys
  PROVE  Lifecycle!Open(seen[w].key)
<1>1. PICK r \in Row :
        /\ ~Exists(r) /\ IsOpen(r)' /\ rows'[r].key = seen[w].key
        /\ rows'[r].ever \in BOOLEAN /\ rows'[r].peak \in 0..MaxProfit
        /\ \A s \in Row : s # r => rows'[s] = rows[s]
  BY InsertedRow
<1>k. PICK k : k = seen[w].key
  OBVIOUS
<1>2. PICK e : e = [id |-> r, ever |-> rows'[r].ever, peak |-> rows'[r].peak]
  OBVIOUS
<1>3. e \in Lifecycle!Episode /\ e.id = r
  BY <1>1, <1>2 DEF Lifecycle!Episode
<1>4. OpenEpisode(k) = Lifecycle!NoEpisode
  BY <1>k DEF OpenEpisode, Lifecycle!NoEpisode
<1>5. OpenEpisode(k)' = e
  BY <1>1, <1>2, <1>k, OpenEpisodeShownNext DEF Inv, Shown
<1>6. \A j \in Key : j # k => OpenEpisode(j)' = OpenEpisode(j)
  BY <1>1, <1>k, OthersKept DEF Inv, IsOpen
<1>7. \A d \in ClosedEpisodes : d.id # r
  BY <1>1 DEF ClosedEpisodes, Shown
<1>8. \A j \in Key : OpenEpisode(j).id # r
  <2> SUFFICES ASSUME NEW j \in Key PROVE OpenEpisode(j).id # r
    OBVIOUS
  <2>1. CASE j \in OpenKeys
    <3>1. PICK s \in Row : IsOpen(s) /\ rows[s].key = j
      BY <2>1 DEF OpenKeys
    <3> QED  BY <1>1, <3>1, OpenEpisodeShown DEF Inv, Shown, IsOpen
  <2>2. CASE j \notin OpenKeys
    BY <2>2, CheckAssumption DEF OpenEpisode, Row
  <2> QED  BY <2>1, <2>2
<1>9. ClosedEpisodes' = ClosedEpisodes
  BY <1>1 DEF ClosedEpisodes, Shown, IsOpen, Exists
<1>10. k \in Key
  BY <1>k DEF Inv, Grounded, Insert
<1> QED  BY <1>k, <1>3, <1>4, <1>5, <1>6, <1>7, <1>8, <1>9, <1>10 DEF Lifecycle!Open

LEMMA UpdateObserves ==
  ASSUME Inv, Inv', NEW w \in Worker, Tracked(w), Update(w)
  PROVE  Lifecycle!Observe(seen[w].key)
<1>r. PICK r : r = seen[w].id
  OBVIOUS
<1>k. PICK k : k = seen[w].key
  OBVIOUS
<1>1. /\ IsOpen(r) /\ rows[r] = seen[w].row /\ rows[r].key = k
  BY <1>r, <1>k DEF Tracked, Update
<1>2. /\ r \in Row /\ Exists(r)'
      /\ rows'[r].key = rows[r].key /\ rows'[r].closed = rows[r].closed
      /\ rows'[r].ever \in BOOLEAN /\ (rows[r].ever => rows'[r].ever)
      /\ rows'[r].peak \in 0..MaxProfit /\ rows'[r].peak >= rows[r].peak
      /\ \A s \in Row : s # r => rows'[s] = rows[s]
  BY <1>r, <1>1, UpdatedRow
<1>3. IsOpen(r)'
  BY <1>1, <1>2 DEF IsOpen
<1>4. PICK e : e = [id |-> r, ever |-> rows'[r].ever, peak |-> rows'[r].peak]
  OBVIOUS
<1>5. /\ e \in Lifecycle!Episode /\ e.id = r
      /\ e.ever = rows'[r].ever /\ e.peak = rows'[r].peak
  BY <1>2, <1>4 DEF Lifecycle!Episode
<1>6. OpenEpisode(k) = [id |-> r, ever |-> rows[r].ever, peak |-> rows[r].peak]
  BY <1>1, <1>2, OpenEpisodeShown DEF Inv, Shown
<1>7. OpenEpisode(k)' = e
  BY <1>1, <1>2, <1>3, <1>4, OpenEpisodeShownNext DEF Inv, Shown
<1>8. \A j \in Key : j # k => OpenEpisode(j)' = OpenEpisode(j)
  BY <1>1, <1>2, OthersKept DEF Inv
<1>9. ClosedEpisodes' = ClosedEpisodes
  BY <1>1, <1>2, <1>3 DEF ClosedEpisodes, Shown, IsOpen, Exists
<1>10. k \in Key
  BY <1>1, <1>2, EpisodeTyped
<1>11. OpenEpisode(k) # Lifecycle!NoEpisode
  BY <1>2, <1>6, CheckAssumption DEF Row, Lifecycle!NoEpisode
<1>12. /\ e.id = OpenEpisode(k).id /\ e.peak >= OpenEpisode(k).peak
       /\ OpenEpisode(k).ever => e.ever
  BY <1>2, <1>5, <1>6
<1>13. [j \in Key |-> OpenEpisode(j)]' = [[j \in Key |-> OpenEpisode(j)] EXCEPT ![k] = e]
  BY <1>7, <1>8, <1>10
<1> QED  BY <1>k, <1>5, <1>9, <1>10, <1>11, <1>12, <1>13 DEF Lifecycle!Observe

LEMMA CloseRowCloses ==
  ASSUME Inv, Inv', NEW w \in Worker, Tracked(w), NEW r \in Row, CloseRow(w, r)
  PROVE  Lifecycle!Close(rows[r].key)
<1>k. PICK k : k = rows[r].key
  OBVIOUS
<1>1. IsOpen(r)
  BY DEF Tracked, CloseRow
<1>2. /\ Exists(r) /\ Exists(r)' /\ ~IsOpen(r)'
      /\ rows'[r].ever = rows[r].ever /\ rows'[r].peak = rows[r].peak
      /\ \A s \in Row : s # r => rows'[s] = rows[s]
  BY ClosedRow
<1>3. OpenEpisode(k) = Shown(r) /\ k \in Key
  BY <1>k, <1>1, OpenEpisodeShown, EpisodeTyped DEF Inv
<1>4. OpenEpisode(k)' = Lifecycle!NoEpisode
  <2>1. ASSUME NEW s \in Row, IsOpen(s)' PROVE rows'[s].key # k
    <3>1. s # r /\ rows'[s] = rows[s] /\ IsOpen(s)
      BY <1>2, <2>1 DEF IsOpen, Exists
    <3> QED  BY <1>k, <1>1, <3>1 DEF Inv, OneOpenEpisode
  <2>2. k \notin OpenKeys'
    BY <2>1 DEF OpenKeys
  <2> QED  BY <2>2 DEF OpenEpisode, Lifecycle!NoEpisode
<1>5. \A j \in Key : j # k => OpenEpisode(j)' = OpenEpisode(j)
  BY <1>k, <1>2, OthersKept DEF Inv
<1>6. Shown(r)' = Shown(r)
  BY <1>2 DEF Shown
<1>7. ClosedEpisodes' = ClosedEpisodes \cup {Shown(r)}
  <2>1. \A s \in Row : s # r =>
          Shown(s)' = Shown(s) /\ ((Exists(s) /\ ~IsOpen(s))' <=> Exists(s) /\ ~IsOpen(s))
    BY <1>2 DEF Shown, IsOpen, Exists
  <2> QED  BY <1>1, <1>2, <1>6, <2>1 DEF ClosedEpisodes
<1>8. OpenEpisode(k) # Lifecycle!NoEpisode
  BY <1>3, CheckAssumption DEF Row, Shown, Lifecycle!NoEpisode
<1> QED  BY <1>k, <1>3, <1>4, <1>5, <1>7, <1>8 DEF Lifecycle!Close

LEMMA RefinesNext ==
  SoloInv /\ SoloInv' /\ [Next]_vars => [OneReplica => Lifecycle!Next]_rows
<1> SUFFICES ASSUME SoloInv, SoloInv', Next, OneReplica, rows' # rows
             PROVE  Lifecycle!Next
  BY DEF vars
<1>1. PICK w \in Worker : Step(w)
  BY DEF Next
<1>2. Inv /\ Inv' /\ Tracked(w)
  BY ReplicaAlone DEF SoloInv
<1>3. CASE Insert(w)
  <2>1. seen[w].key \notin OpenKeys
    BY <1>3 DEF Insert
  <2>2. seen[w].key \in Key
    BY <1>2, <1>3 DEF Inv, Grounded, Insert
  <2> QED  BY <1>2, <1>3, <2>1, <2>2, InsertOpens DEF Lifecycle!Next
<1>4. CASE Update(w)
  <2>1. seen[w].key \in Key
    BY <1>2, <1>4 DEF Inv, Grounded, Update
  <2> QED  BY <1>2, <1>4, <2>1, UpdateObserves DEF Lifecycle!Next
<1>5. CASE \E r \in Row : CloseRow(w, r)
  <2>1. PICK r \in Row : CloseRow(w, r)
    BY <1>5
  <2>2. rows[r].key \in Key
    <3>1. IsOpen(r)
      BY <1>2, <2>1 DEF Tracked, CloseRow
    <3> QED  BY <1>2, <3>1, EpisodeTyped
  <2> QED  BY <1>2, <2>1, <2>2, CloseRowCloses DEF Lifecycle!Next
<1>6. CASE ~Insert(w) /\ ~Update(w) /\ ~(\E r \in Row : CloseRow(w, r))
  <2>1. rows' = rows
    BY <1>1, <1>6 DEF Step, Begin, Screen, Confirm, CheckFails, Record, Select, FindGone,
                      Recorded, Finish, RecordFails
  <2> QED  BY <2>1
<1> QED  BY <1>3, <1>4, <1>5, <1>6

\* The table of a replica that is alone is a run of the lifecycle its readers are
\* promised, with failures at any statement.
THEOREM EpisodesFollowLifecycle == Spec => EpisodeLifecycleHolds
<1>1. Spec => []SoloInv
  BY SoloAlways
<1> QED  BY <1>1, RefinesInit, RefinesNext, PTL DEF Spec, EpisodeLifecycleHolds

=============================================================================
