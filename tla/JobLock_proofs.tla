--------------------------- MODULE JobLock_proofs ---------------------------
(***************************************************************************)
(* Safety of the Redis lock, for any number of processes, any time to live  *)
(* and any renewal period that satisfy LockAssumption.                      *)
(***************************************************************************)
EXTENDS JobLock, TLAPS

\* Every variable keeps its type.
LEMMA TypeNext == ASSUME LockAssumption, TypeOK, [Next]_vars PROVE TypeOK'
<1> USE DEF TypeOK, LockAssumption, redisVars, timerVars, callVars, envVars, histVars
<1>1. ASSUME NEW p \in Process, Step(p) PROVE TypeOK'
  <2>1. CASE Ask(p)
    BY <2>1 DEF Ask, Send
  <2>2. CASE AcquireExec(p)
    BY <2>2 DEF AcquireExec, Answer, Token
  <2>3. CASE Granted(p)
    BY <2>3 DEF Granted, Settled
  <2>4. CASE Refused(p)
    BY <2>4 DEF Refused, Settled
  <2>5. CASE AskFails(p)
    BY <2>5 DEF AskFails, Settled, Trouble
  <2>6. CASE RenewSend(p)
    BY <2>6 DEF RenewSend, Send
  <2>7. CASE RenewExec(p)
    BY <2>7 DEF RenewExec, Answer
  <2>8. CASE RenewFails(p)
    BY <2>8 DEF RenewFails, Answer, Trouble
  <2>9. CASE Renewed(p)
    BY <2>9 DEF Renewed, Settled
  <2>10. CASE Lose(p)
    BY <2>10 DEF Lose, Settled
  <2>11. CASE RetryLater(p)
    BY <2>11 DEF RetryLater, Settled
  <2>12. CASE Finish(p)
    BY <2>12 DEF Finish, Send, ClearTimer
  <2>13. CASE Release(p)
    BY <2>13 DEF Release, Settled
  <2>14. CASE ReleaseFails(p)
    BY <2>14 DEF ReleaseFails, Settled, Trouble
  <2>15. CASE Crash(p)
    BY <2>15 DEF Crash, ClearTimer, Settled, Trouble
  <2>16. CASE LinkDown(p)
    BY <2>16 DEF LinkDown, Trouble
  <2>17. CASE LinkUp(p)
    BY <2>17 DEF LinkUp
  <2> QED
    BY <1>1, <2>1, <2>2, <2>3, <2>4, <2>5, <2>6, <2>7, <2>8, <2>9, <2>10, <2>11, <2>12, <2>13, <2>14, <2>15, <2>16, <2>17 DEF Step
<1>2. CASE Evict
  BY <1>2 DEF Evict, Trouble
<1>3. CASE Tick
  BY <1>3 DEF Tick
<1>4. CASE UNCHANGED vars
  BY <1>4 DEF vars
<1> QED
  BY <1>1, <1>2, <1>3, <1>4 DEF Next

\* The lock's variables keep their types, whatever fails and whoever crashes.
THEOREM TypeCorrect == ASSUME LockAssumption PROVE Spec => []TypeOK
<1>1. Init => TypeOK
  BY DEF Init, TypeOK, LockAssumption
<1>2. TypeOK /\ [Next]_vars => TypeOK'
  BY TypeNext
<1> QED
  BY <1>1, <1>2, PTL DEF Spec

-----------------------------------------------------------------------------
(* Mutual exclusion *)

Inv == TypeOK /\ HealthyRunsAreCovered

\* A healthy run that has the lock, or was just granted it, is its holder.
LEMMA CoveredHolds ==
  ASSUME LockAssumption, Inv, NEW q \in Process, Healthy(q),
         Running(q) \/ (run[q] = "asking" /\ call[q] = "granted")
  PROVE  Holder = Token(q) /\ Holder # NoOne
<1>1. Covered(q) /\ OnSchedule(q) /\ runs[q] > 0
  BY DEF Inv, HealthyRunsAreCovered, CoveredIfHealthy, Healthy, Running
<1>2. Token(q) # NoOne
  BY <1>1 DEF Token, NoOne, Inv, TypeOK
<1>3. owner = Token(q) /\ now <= until
  <2> USE DEF Inv, TypeOK, LockAssumption
  <2>1. CASE Running(q)
    <3>1. (misses[q] = 0 \/ misses[q] = 1) /\ owner = Token(q) /\ now <= due[q]
      BY <1>1, <2>1 DEF Covered, OnSchedule, Healthy
    <3>2. CASE call[q] = "sent" /\ misses[q] = 1
      BY <1>1, <2>1, <3>1, <3>2 DEF Covered, OnSchedule
    <3>3. CASE ~(call[q] = "sent" /\ misses[q] = 1)
      BY <1>1, <2>1, <3>1, <3>3 DEF Covered
    <3> QED
      BY <3>1, <3>2, <3>3
  <2>2. CASE run[q] = "asking" /\ call[q] = "granted"
    BY <1>1, <2>2 DEF Covered, OnSchedule
  <2> QED
    BY <2>1, <2>2
<1> QED
  BY <1>2, <1>3 DEF Holder, Inv, TypeOK

\* A step of p leaves the runs of the other processes covered.
LEMMA OthersCovered ==
  ASSUME LockAssumption, Inv, TypeOK', NEW p \in Process, Step(p), NEW q \in Process, q # p
  PROVE  CoveredIfHealthy(q)'
<1>1. CoveredIfHealthy(q)
  BY DEF Inv, HealthyRunsAreCovered
<1>2. /\ run'[q] = run[q] /\ runs'[q] = runs[q] /\ call'[q] = call[q]
      /\ sentAt'[q] = sentAt[q] /\ due'[q] = due[q] /\ linked'[q] = linked[q]
      /\ cut'[q] = cut[q] /\ evicted'[q] = evicted[q] /\ misses'[q] = misses[q] /\ now' = now
  <2>1. CASE Ask(p)
    BY <2>1 DEF Ask, Send, Inv, TypeOK, redisVars, timerVars, callVars, envVars, histVars
  <2>2. CASE AcquireExec(p)
    BY <2>2 DEF AcquireExec, Answer, Inv, TypeOK, redisVars, timerVars, callVars, envVars, histVars
  <2>3. CASE Granted(p)
    BY <2>3 DEF Granted, Settled, Inv, TypeOK, redisVars, timerVars, callVars, envVars, histVars
  <2>4. CASE Refused(p)
    BY <2>4 DEF Refused, Settled, Inv, TypeOK, redisVars, timerVars, callVars, envVars, histVars
  <2>5. CASE AskFails(p)
    BY <2>5 DEF AskFails, Settled, Trouble, Inv, TypeOK, redisVars, timerVars, callVars, envVars, histVars
  <2>6. CASE RenewSend(p)
    BY <2>6 DEF RenewSend, Send, Inv, TypeOK, redisVars, timerVars, callVars, envVars, histVars
  <2>7. CASE RenewExec(p)
    BY <2>7 DEF RenewExec, Answer, Inv, TypeOK, redisVars, timerVars, callVars, envVars, histVars
  <2>8. CASE RenewFails(p)
    BY <2>8 DEF RenewFails, Answer, Trouble, Inv, TypeOK, redisVars, timerVars, callVars, envVars, histVars
  <2>9. CASE Renewed(p)
    BY <2>9 DEF Renewed, Settled, Inv, TypeOK, redisVars, timerVars, callVars, envVars, histVars
  <2>10. CASE Lose(p)
    BY <2>10 DEF Lose, Settled, Inv, TypeOK, redisVars, timerVars, callVars, envVars, histVars
  <2>11. CASE RetryLater(p)
    BY <2>11 DEF RetryLater, Settled, Inv, TypeOK, redisVars, timerVars, callVars, envVars, histVars
  <2>12. CASE Finish(p)
    BY <2>12 DEF Finish, Send, ClearTimer, Inv, TypeOK, redisVars, timerVars, callVars, envVars, histVars
  <2>13. CASE Release(p)
    BY <2>13 DEF Release, Settled, Inv, TypeOK, redisVars, timerVars, callVars, envVars, histVars
  <2>14. CASE ReleaseFails(p)
    BY <2>14 DEF ReleaseFails, Settled, Trouble, Inv, TypeOK, redisVars, timerVars, callVars, envVars, histVars
  <2>15. CASE Crash(p)
    BY <2>15 DEF Crash, ClearTimer, Settled, Trouble, Inv, TypeOK, redisVars, timerVars, callVars, envVars, histVars
  <2>16. CASE LinkDown(p)
    BY <2>16 DEF LinkDown, Trouble, Inv, TypeOK, redisVars, timerVars, callVars, envVars, histVars
  <2>17. CASE LinkUp(p)
    BY <2>17 DEF LinkUp, Inv, TypeOK, redisVars, timerVars, callVars, envVars, histVars
  <2> QED
    BY <2>1, <2>2, <2>3, <2>4, <2>5, <2>6, <2>7, <2>8, <2>9, <2>10, <2>11, <2>12, <2>13, <2>14, <2>15, <2>16, <2>17 DEF Step
<1>3. CASE owner' = owner /\ until' = until
  BY <1>1, <1>2, <1>3 DEF CoveredIfHealthy, Covered, OnSchedule, Healthy, Running, Token
<1>4. CASE ~(owner' = owner /\ until' = until)
  <2>1. Holder = NoOne \/ (Holder = Token(p) /\ Holder # Token(q))
    <3>1. Token(p) # Token(q)
      BY DEF Token
    <3>2. Holder = NoOne \/ Holder = Token(p)
      BY <1>4 DEF Step, Ask, AcquireExec, Granted, Refused, AskFails, RenewSend, RenewExec,
         RenewFails, Renewed, Lose, RetryLater, Finish, Release, ReleaseFails, Crash,
         LinkDown, LinkUp, redisVars
    <3> QED
      BY <3>1, <3>2
  <2>2. Healthy(q) => ~Running(q) /\ ~(run[q] = "asking" /\ call[q] = "granted")
    BY <2>1, CoveredHolds
  <2> QED
    BY <1>1, <1>2, <2>2 DEF CoveredIfHealthy, Covered, OnSchedule, Healthy, Running, Token
<1> QED
  BY <1>3, <1>4

\* A step of p leaves its own run covered.
LEMMA OwnCovered ==
  ASSUME LockAssumption, Inv, TypeOK', NEW p \in Process, Step(p)
  PROVE  CoveredIfHealthy(p)'
<1> USE DEF CoveredIfHealthy, Covered, OnSchedule, Healthy, Running, Token, LockAssumption, TypeOK,
            redisVars, timerVars, callVars, envVars, histVars
<1>1. TypeOK /\ CoveredIfHealthy(p)
  BY DEF Inv, HealthyRunsAreCovered
<1>2. CASE Ask(p)
  BY <1>1, <1>2 DEF Ask, Send
<1>3. CASE AcquireExec(p)
  BY <1>1, <1>3 DEF AcquireExec, Answer
<1>4. CASE Granted(p)
  BY <1>1, <1>4 DEF Granted, Settled
<1>5. CASE Refused(p)
  BY <1>1, <1>5 DEF Refused, Settled
<1>6. CASE AskFails(p)
  BY <1>1, <1>6 DEF AskFails, Settled, Trouble
<1>7. CASE RenewSend(p)
  BY <1>1, <1>7 DEF RenewSend, Send
<1>8. CASE RenewExec(p)
  <2>1. Healthy(p) => Holder = Token(p)
    BY <1>8, CoveredHolds DEF RenewExec
  <2>2. CASE Holder = Token(p)
    <3>1. /\ until' = now + Ttl /\ misses'[p] = 0 /\ call'[p] = "extended" /\ owner = Token(p)
          /\ run' = run /\ runs' = runs /\ now' = now /\ owner' = owner /\ sentAt' = sentAt
          /\ due' = due /\ linked' = linked /\ cut' = cut /\ evicted' = evicted /\ Running(p) /\ call[p] = "sent"
      BY <1>1, <1>8, <2>2 DEF RenewExec, Answer, Holder, NoOne
    <3> QED
      BY <1>1, <3>1
  <2>3. CASE Holder # Token(p)
    BY <1>1, <1>8, <2>1, <2>3 DEF RenewExec, Answer
  <2> QED
    BY <2>2, <2>3
<1>9. CASE RenewFails(p)
  BY <1>1, <1>9 DEF RenewFails, Answer, Trouble
<1>10. CASE Renewed(p)
  BY <1>1, <1>10 DEF Renewed, Settled
<1>11. CASE Lose(p)
  BY <1>1, <1>11 DEF Lose, Settled
<1>12. CASE RetryLater(p)
  BY <1>1, <1>12 DEF RetryLater, Settled
<1>13. CASE Finish(p)
  BY <1>1, <1>13 DEF Finish, Send, ClearTimer
<1>14. CASE Release(p)
  BY <1>1, <1>14 DEF Release, Settled
<1>15. CASE ReleaseFails(p)
  BY <1>1, <1>15 DEF ReleaseFails, Settled, Trouble
<1>16. CASE Crash(p)
  BY <1>1, <1>16 DEF Crash, ClearTimer, Settled, Trouble
<1>17. CASE LinkDown(p)
  BY <1>1, <1>17 DEF LinkDown, Trouble
<1>18. CASE LinkUp(p)
  BY <1>1, <1>18 DEF LinkUp
<1> QED
  BY <1>2, <1>3, <1>4, <1>5, <1>6, <1>7, <1>8, <1>9, <1>10, <1>11, <1>12, <1>13, <1>14, <1>15, <1>16, <1>17, <1>18 DEF Step

\* The inductive invariant.
LEMMA LockInvariant == ASSUME LockAssumption PROVE Spec => []Inv
<1>1. Init => Inv
  BY DEF Init, Inv, TypeOK, LockAssumption, HealthyRunsAreCovered, CoveredIfHealthy, OnSchedule,
     Covered, Running
<1>2. Inv /\ [Next]_vars => Inv'
  <2> SUFFICES ASSUME Inv, [Next]_vars PROVE Inv'
    OBVIOUS
  <2>1. TypeOK'
    BY TypeNext DEF Inv
  <2>2. ASSUME NEW p \in Process, Step(p) PROVE HealthyRunsAreCovered'
    BY <2>1, <2>2, OthersCovered, OwnCovered DEF HealthyRunsAreCovered
  <2>3. CASE Evict
    BY <2>3 DEF Evict, Inv, TypeOK, HealthyRunsAreCovered, CoveredIfHealthy, Covered, OnSchedule, Healthy,
       Running, Token, Trouble, callVars, timerVars
  <2>4. CASE Tick
    BY <2>4 DEF Tick, OnTime, Inv, TypeOK, LockAssumption, HealthyRunsAreCovered,
       CoveredIfHealthy, Covered, OnSchedule, Healthy, Running, Token, redisVars, callVars, timerVars,
       envVars, histVars
  <2>5. CASE UNCHANGED vars
    BY <2>5 DEF vars, Inv, TypeOK, HealthyRunsAreCovered, CoveredIfHealthy, Covered, OnSchedule, Healthy,
       Running, Token
  <2> QED
    BY <2>1, <2>2, <2>3, <2>4, <2>5 DEF Next, Inv
<1> QED
  BY <1>1, <1>2, PTL DEF Spec

\* Two healthy runs are never at work at once.
THEOREM MutualExclusion == ASSUME LockAssumption PROVE Spec => []Exclusion
<1>1. Inv => Exclusion
  <2> SUFFICES ASSUME Inv, NEW p \in Process, NEW q \in Process,
                      run[p] = "working", run[q] = "working", Healthy(p), Healthy(q)
               PROVE  p = q
    BY DEF Exclusion
  <2>1. Token(p) = Token(q)
    BY CoveredHolds DEF Running
  <2> QED
    BY <2>1 DEF Token
<1> QED
  BY <1>1, LockInvariant, PTL

-----------------------------------------------------------------------------
(* Noticing a lost lock *)

\* A run that was not cut off is on schedule, and told of a lost lock once its
\* renewals have failed for Ttl.
Noticing(p) ==
  ~cut[p] =>
    /\ OnSchedule(p)
    /\ run[p] = "asking" => call[p] # "none"
    /\ run[p] = "working" /\ call[p] = "none" => due[p] < renewedAt[p] + Ttl + RenewEvery
    /\ run[p] = "working" /\ call[p] # "none" => sentAt[p] < renewedAt[p] + Ttl + RenewEvery

NoticeInv == TypeOK /\ \A p \in Process : Noticing(p)

\* A step of p keeps what every process, p included, is bound to notice.
LEMMA NoticingNext ==
  ASSUME LockAssumption, NoticeInv, TypeOK', NEW p \in Process, Step(p),
         NEW q \in Process
  PROVE  Noticing(q)'
<1> USE DEF Noticing, OnSchedule, Running, LockAssumption, TypeOK,
            redisVars, timerVars, callVars, envVars, histVars
<1>1. TypeOK /\ Noticing(p) /\ Noticing(q)
  BY DEF NoticeInv
<1>2. CASE Ask(p)
  BY <1>1, <1>2 DEF Ask, Send
<1>3. CASE AcquireExec(p)
  BY <1>1, <1>3 DEF AcquireExec, Answer
<1>4. CASE Granted(p)
  BY <1>1, <1>4 DEF Granted, Settled
<1>5. CASE Refused(p)
  BY <1>1, <1>5 DEF Refused, Settled
<1>6. CASE AskFails(p)
  BY <1>1, <1>6 DEF AskFails, Settled, Trouble
<1>7. CASE RenewSend(p)
  BY <1>1, <1>7 DEF RenewSend, Send
<1>8. CASE RenewExec(p)
  BY <1>1, <1>8 DEF RenewExec, Answer
<1>9. CASE RenewFails(p)
  BY <1>1, <1>9 DEF RenewFails, Answer, Trouble
<1>10. CASE Renewed(p)
  BY <1>1, <1>10 DEF Renewed, Settled
<1>11. CASE Lose(p)
  BY <1>1, <1>11 DEF Lose, Settled
<1>12. CASE RetryLater(p)
  BY <1>1, <1>12 DEF RetryLater, Settled
<1>13. CASE Finish(p)
  BY <1>1, <1>13 DEF Finish, Send, ClearTimer
<1>14. CASE Release(p)
  BY <1>1, <1>14 DEF Release, Settled
<1>15. CASE ReleaseFails(p)
  BY <1>1, <1>15 DEF ReleaseFails, Settled, Trouble
<1>16. CASE Crash(p)
  BY <1>1, <1>16 DEF Crash, ClearTimer, Settled, Trouble
<1>17. CASE LinkDown(p)
  BY <1>1, <1>17 DEF LinkDown, Trouble
<1>18. CASE LinkUp(p)
  BY <1>1, <1>18 DEF LinkUp
<1> QED
  BY <1>2, <1>3, <1>4, <1>5, <1>6, <1>7, <1>8, <1>9, <1>10, <1>11, <1>12, <1>13, <1>14, <1>15, <1>16, <1>17, <1>18 DEF Step

\* A run that is not cut off is told of a lost lock within one period and one
\* answer of the expiry of its key.
THEOREM AnsweredRunsStop == ASSUME LockAssumption PROVE Spec => []AnsweredRunStops
<1>1. Init => NoticeInv
  BY DEF Init, NoticeInv, Noticing, OnSchedule, TypeOK, LockAssumption, Running
<1>2. NoticeInv /\ [Next]_vars => NoticeInv'
  <2> SUFFICES ASSUME NoticeInv, [Next]_vars PROVE NoticeInv'
    OBVIOUS
  <2>1. TypeOK'
    BY TypeNext DEF NoticeInv
  <2>2. ASSUME NEW p \in Process, Step(p) PROVE NoticeInv'
    BY <2>1, <2>2, NoticingNext DEF NoticeInv
  <2>3. CASE Evict
    BY <2>1, <2>3 DEF Evict, NoticeInv, Noticing, OnSchedule, TypeOK, Running, Trouble, callVars, timerVars
  <2>4. CASE Tick
    BY <2>1, <2>4 DEF Tick, OnTime, NoticeInv, Noticing, OnSchedule, TypeOK, LockAssumption, Running,
       redisVars, callVars, timerVars, envVars, histVars
  <2>5. CASE UNCHANGED vars
    BY <2>1, <2>5 DEF vars, NoticeInv, Noticing, OnSchedule, Running
  <2> QED
    BY <2>2, <2>3, <2>4, <2>5 DEF Next
<1>3. NoticeInv => AnsweredRunStops
  BY DEF NoticeInv, Noticing, OnSchedule, AnsweredRunStops, NoticedInTime, TypeOK, LockAssumption, Running
<1> QED
  BY <1>1, <1>2, <1>3, PTL DEF Spec

=============================================================================
