------------------------- MODULE VenueClients_proofs -------------------------
(***************************************************************************)
(* A client keeps to its budget and to what the venue asks of it, and takes   *)
(* for missing what the venue left out: for any calls, clients and batches.   *)
(***************************************************************************)
EXTENDS VenueClients, SequenceTheorems, TLAPS

\* What http.ts is configured with: whole ticks and units, and headers that parse to them.
Configured ==
  /\ Unit \in Nat /\ Rate \in Nat /\ Capacity \in Nat
  /\ MaxTime \in Nat /\ MaxRetryAfter \in Nat /\ Headers \subseteq Nat \cup {Null}
  /\ Through \in [Call -> Client]
  /\ Base \in Nat /\ MaxBackoff \in Nat /\ BatchSize \in Nat \ {0}
  /\ \A c \in Call : Wanted(c) \in Seq(Range(Asks[c]))

Types ==
  /\ now \in Nat
  /\ bucket \in [Client -> [tokens : Nat, at : Nat]]
  /\ sent \in [Client -> Seq(Nat)]

\* A bucket's tokens and the requests since any of them add up to no more than the burst
\* and what the rate has added since that one.
Budgeted(b, times) ==
  \A i \in DOMAIN times :
    b.tokens + Unit * (Len(times) - i + 1) <= Capacity + Rate * (b.at - times[i])

\* Hence no two requests are closer than the budget allows.
Spaced(times) ==
  \A i, k \in DOMAIN times :
    i <= k => Unit * (k - i + 1) <= Capacity + Rate * (times[k] - times[i])

Ledger ==
  \A k \in Client :
    /\ bucket[k].at <= now /\ bucket[k].tokens <= Capacity
    /\ Budgeted(bucket[k], sent[k]) /\ Spaced(sent[k])

\* A call that is to be made again sleeps until it may be; one that has slept may be.
Due(c) ==
  /\ calls[c].pc = "backoff" => calls[c].until \in Int /\ earliest[c] <= calls[c].until
  /\ calls[c].pc # "backoff" /\ calls[c].attempt > 0 => earliest[c] <= now

Patient ==
  /\ DOMAIN calls = Call /\ earliest \in [Call -> Int]
  /\ \A c \in Call : DOMAIN calls[c] = DOMAIN Fresh /\ calls[c].attempt \in Nat /\ Due(c)

IInv == Types /\ Ledger /\ Patient

-----------------------------------------------------------------------------
(* The budget *)

LEMMA Products ==
  ASSUME Configured, NEW a \in Int, NEW b \in Int, a <= b
  PROVE  Rate * a <= Rate * b
BY DEF Configured

\* What a refill adds is no more than the rate adds in that time.
LEMMA RefillAdds ==
  ASSUME Configured, Types, Ledger, NEW k \in Client
  PROVE  LET b == Refilled(bucket[k]) IN
         /\ b \in [tokens : Nat, at : Nat] /\ b.at = now /\ b.tokens <= Capacity
         /\ Budgeted(b, sent[k])
<1> DEFINE b == Refilled(bucket[k])
<1>1. /\ bucket[k].tokens \in Nat /\ bucket[k].at \in Nat /\ now \in Nat
      /\ bucket[k].at <= now /\ bucket[k].tokens <= Capacity
      /\ Capacity \in Nat /\ Rate \in Nat /\ Unit \in Nat
  BY DEF Types, Ledger, Configured
<1>2. now - bucket[k].at \in Nat
  BY <1>1
<1>3. (now - bucket[k].at) * Rate \in Nat
  BY <1>1, <1>2
<1>4. /\ b.at = now /\ b.tokens \in Nat /\ b.tokens <= Capacity
      /\ b.tokens <= bucket[k].tokens + (now - bucket[k].at) * Rate
  BY <1>1, <1>3 DEF Refilled, Least
<1>5. b \in [tokens : Nat, at : Nat]
  BY <1>1, <1>4 DEF Refilled
<1>6. ASSUME NEW i \in DOMAIN sent[k]
      PROVE  b.tokens + Unit * (Len(sent[k]) - i + 1) <= Capacity + Rate * (b.at - sent[k][i])
  <2>1. sent[k][i] \in Nat /\ i \in Nat /\ Len(sent[k]) \in Nat
    BY <1>6 DEF Types
  <2>2. bucket[k].tokens + Unit * (Len(sent[k]) - i + 1)
          <= Capacity + Rate * (bucket[k].at - sent[k][i])
    BY <1>6 DEF Ledger, Budgeted
  <2>3. Rate * (bucket[k].at - sent[k][i]) + (now - bucket[k].at) * Rate
          = Rate * (now - sent[k][i])
    BY <1>1, <2>1
  <2> DEFINE spent == Unit * (Len(sent[k]) - i + 1)
             before == Rate * (bucket[k].at - sent[k][i])
             since == (now - bucket[k].at) * Rate
             whole == Rate * (now - sent[k][i])
  <2>4. spent \in Int /\ before \in Int /\ since \in Int /\ whole \in Int
    BY <1>1, <2>1, SMTT(30)
  <2>5. /\ bucket[k].tokens + spent <= Capacity + before /\ before + since = whole
        /\ b.tokens <= bucket[k].tokens + since /\ b.tokens \in Nat
    BY <1>4, <2>2, <2>3
  <2> HIDE DEF b, spent, before, since, whole
  <2>6. b.tokens + spent <= Capacity + whole
    BY <1>1, <2>4, <2>5
  <2> QED  BY <1>4, <2>6 DEF spent, whole
<1> QED  BY <1>4, <1>5, <1>6 DEF Budgeted

\* A request is paid for by the token it takes.
LEMMA RequestPaid ==
  ASSUME Configured, NEW b \in [tokens : Nat, at : Nat], NEW times \in Seq(Nat),
         b.tokens <= Capacity, b.tokens >= Unit, Budgeted(b, times), Spaced(times)
  PROVE  LET left == [b EXCEPT !.tokens = @ - Unit]
             more == Append(times, b.at)
         IN /\ left \in [tokens : Nat, at : Nat] /\ left.at = b.at /\ left.tokens <= Capacity
            /\ more \in Seq(Nat) /\ Budgeted(left, more) /\ Spaced(more)
<1> DEFINE left == [b EXCEPT !.tokens = @ - Unit]
           more == Append(times, b.at)
<1>1. Capacity \in Nat /\ Rate \in Nat /\ Unit \in Nat
  BY DEF Configured
<1>2. left.tokens = b.tokens - Unit /\ left.at = b.at /\ left.tokens \in Nat
  BY <1>1
<1>3. /\ more \in Seq(Nat) /\ Len(more) = Len(times) + 1 /\ Len(times) \in Nat
      /\ \A i \in DOMAIN times : more[i] = times[i] /\ times[i] \in Nat
      /\ more[Len(times) + 1] = b.at /\ b.at \in Nat
      /\ DOMAIN times = 1..Len(times) /\ DOMAIN more = 1..(Len(times) + 1)
  OBVIOUS
<1>8. left \in [tokens : Nat, at : Nat] /\ left.tokens <= Capacity
  <2>1. b.tokens \in Nat /\ b.tokens - Unit <= b.tokens
    BY <1>1
  <2>2. left \in [tokens : Nat, at : Nat]
    BY <1>2
  <2>3. left.tokens <= Capacity
    BY <1>1, <1>2, <2>1
  <2> QED  BY <2>2, <2>3
<1> HIDE DEF left, more
<1>4. ASSUME NEW i \in DOMAIN more
      PROVE  left.tokens + Unit * (Len(more) - i + 1) <= Capacity + Rate * (left.at - more[i])
  <2>1. CASE i \in DOMAIN times
    <3>1. b.tokens + Unit * (Len(times) - i + 1) <= Capacity + Rate * (b.at - times[i])
      BY <2>1 DEF Budgeted
    <3>2. Unit * (Len(more) - i + 1) = Unit * (Len(times) - i + 1) + Unit
      <4> DEFINE n == Len(times) - i + 1
      <4>1. n \in Int /\ Len(more) - i + 1 = n + 1
        BY <1>3, <2>1
      <4> HIDE DEF n
      <4>2. Unit * (n + 1) = Unit * n + Unit
        BY <1>1, <4>1
      <4> QED  BY <4>1, <4>2 DEF n
    <3>3. Len(times) - i + 1 \in Int /\ b.at - times[i] \in Int /\ more[i] = times[i]
      BY <1>3, <2>1
    <3>4. \A m \in Nat, n \in Int : m * n \in Int
      OBVIOUS
    <3>5. Unit * (Len(times) - i + 1) \in Int /\ Rate * (b.at - times[i]) \in Int
      BY <1>1, <3>3, <3>4
    <3> QED  BY <1>1, <1>2, <3>1, <3>2, <3>3, <3>5
  <2>2. CASE i = Len(times) + 1
    <3>1. Len(more) - i + 1 = 1 /\ left.at - more[i] = 0
      BY <1>2, <1>3, <2>2
    <3>2. Unit * (Len(more) - i + 1) = Unit /\ Rate * (left.at - more[i]) = 0
      BY <1>1, <3>1
    <3> QED  BY <1>1, <1>2, <3>2
  <2> QED  BY <1>3, <2>1, <2>2
<1>5. ASSUME NEW i \in DOMAIN more, NEW k \in DOMAIN more, i <= k
      PROVE  Unit * (k - i + 1) <= Capacity + Rate * (more[k] - more[i])
  <2>1. CASE k \in DOMAIN times
    <3>1. i \in DOMAIN times
      BY <1>3, <1>5, <2>1
    <3>2. Unit * (k - i + 1) <= Capacity + Rate * (times[k] - times[i])
      BY <1>5, <2>1, <3>1 DEF Spaced
    <3> QED  BY <1>3, <2>1, <3>1, <3>2
  <2>2. CASE k = Len(times) + 1
    <3>1. left.tokens + Unit * (Len(more) - i + 1) <= Capacity + Rate * (left.at - more[i])
      BY <1>4
    <3>2. k = Len(more) /\ more[k] = left.at /\ more[i] \in Nat /\ i \in Nat
      BY <1>2, <1>3, <1>5, <2>2
    <3> DEFINE spent == Unit * (k - i + 1)
               since == Rate * (more[k] - more[i])
    <3>0. k \in Int /\ i \in Int /\ more[k] \in Int /\ more[i] \in Int
      BY <1>2, <1>3, <3>2
    <3>3. spent \in Int /\ since \in Int
      BY <1>1, <3>0
    <3>4. left.tokens + spent <= Capacity + since
      BY <3>1, <3>2
    <3> HIDE DEF spent, since
    <3>5. spent <= Capacity + since
      BY <1>1, <1>2, <3>3, <3>4
    <3> QED  BY <3>5 DEF spent, since
  <2> QED  BY <1>3, <2>1, <2>2
<1>6. Budgeted(left, more)
  BY <1>4 DEF Budgeted
<1>7. Spaced(more)
  BY <1>5 DEF Spaced
<1> QED  BY <1>2, <1>3, <1>8, <1>6, <1>7 DEF left, more

-----------------------------------------------------------------------------
(* The steps *)

LEMMA TakeStep ==
  ASSUME Configured, Types, Ledger, Patient, NEW c \in Call, Take(c, calls[c]),
         calls[c].attempt > 0 => earliest[c] <= now
  PROVE  Types' /\ Ledger' /\ Patient'
<1> DEFINE k == Through[c]
           b == Refilled(bucket[k])
<1>1. k \in Client /\ now' = now /\ now \in Nat /\ earliest' = earliest
  BY DEF Configured, Take, Types
<1>2. /\ b \in [tokens : Nat, at : Nat] /\ b.at = now /\ b.tokens <= Capacity
      /\ Budgeted(b, sent[k])
  BY <1>1, RefillAdds
<1>3. sent[k] \in Seq(Nat) /\ Spaced(sent[k])
  BY <1>1 DEF Types, Ledger
<1>4. DOMAIN calls = Call /\ DOMAIN calls[c] = DOMAIN Fresh
  BY DEF Patient
<1>5. Patient'
  <2> DEFINE x == calls'[c]
  <2>1. PICK call : /\ calls' = [calls EXCEPT ![c] = call] /\ DOMAIN call = DOMAIN calls[c]
                    /\ call.attempt = calls[c].attempt /\ call.pc # "backoff"
    <3>1. CASE b.tokens >= Unit
      <4>1. calls' = [calls EXCEPT ![c] = [calls[c] EXCEPT !.pc = "inflight"]]
        BY <3>1 DEF Take
      <4>2. LET call == [calls[c] EXCEPT !.pc = "inflight"] IN
            /\ DOMAIN call = DOMAIN calls[c] /\ call.attempt = calls[c].attempt
            /\ call.pc # "backoff"
        BY <1>4 DEF Fresh
      <4> QED  BY <4>1, <4>2
    <3>2. CASE ~(b.tokens >= Unit)
      <4>1. calls' = [calls EXCEPT ![c] =
               [calls[c] EXCEPT !.pc = "queued", !.until = now + Shortfall(b)]]
        BY <3>2 DEF Take
      <4>2. LET call == [calls[c] EXCEPT !.pc = "queued", !.until = now + Shortfall(b)] IN
            /\ DOMAIN call = DOMAIN calls[c] /\ call.attempt = calls[c].attempt
            /\ call.pc # "backoff"
        BY <1>4 DEF Fresh
      <4> QED  BY <4>1, <4>2
    <3> QED  BY <3>1, <3>2
  <2>2. DOMAIN calls' = Call /\ calls'[c] = call /\ \A d \in Call : d # c => calls'[d] = calls[d]
    BY <1>4, <2>1
  <2>3. ASSUME NEW d \in Call
        PROVE  DOMAIN calls'[d] = DOMAIN Fresh /\ calls'[d].attempt \in Nat /\ Due(d)'
    BY <1>1, <1>4, <2>1, <2>2 DEF Patient, Due
  <2> QED  BY <1>1, <2>2, <2>3 DEF Patient
<1>6. Types' /\ Ledger'
  <2>1. CASE b.tokens >= Unit
    <3> DEFINE left == [b EXCEPT !.tokens = @ - Unit]
               more == Append(sent[k], b.at)
    <3>1. /\ left \in [tokens : Nat, at : Nat] /\ left.at = b.at /\ left.tokens <= Capacity
          /\ more \in Seq(Nat) /\ Budgeted(left, more) /\ Spaced(more)
      BY <1>2, <1>3, <2>1, RequestPaid
    <3>2. bucket' = [bucket EXCEPT ![k] = left] /\ sent' = [sent EXCEPT ![k] = more]
      BY <1>2, <2>1 DEF Take
    <3> HIDE DEF b, left, more, k
    <3> QED  BY <1>1, <1>2, <3>1, <3>2 DEF Types, Ledger
  <2>2. CASE ~(b.tokens >= Unit)
    <3>1. bucket' = [bucket EXCEPT ![k] = b] /\ sent' = sent
      BY <2>2 DEF Take
    <3> HIDE DEF b, k
    <3> QED  BY <1>1, <1>2, <1>3, <3>1 DEF Types, Ledger
  <2> QED  BY <2>1, <2>2
<1> QED  BY <1>5, <1>6

\* A call that ends owes nothing.
LEMMA FinishStep ==
  ASSUME Types, Patient, NEW c \in Call, NEW call, NEW result, Finish(c, call, result),
         now' = now, earliest' = earliest
  PROVE  Patient'
<1> DEFINE end == [Fresh EXCEPT !.pc = "done", !.found = call.found, !.result = result]
<1>1. calls' = [calls EXCEPT ![c] = end]
  BY DEF Finish
<1>2. DOMAIN end = DOMAIN Fresh /\ end.attempt = 0 /\ end.pc = "done"
  BY DEF Fresh
<1> HIDE DEF end
<1>3. DOMAIN calls' = Call /\ calls'[c] = end /\ \A d \in Call : d # c => calls'[d] = calls[d]
  BY <1>1 DEF Patient
<1>4. ASSUME NEW d \in Call
      PROVE  DOMAIN calls'[d] = DOMAIN Fresh /\ calls'[d].attempt \in Nat /\ Due(d)'
  BY <1>2, <1>3 DEF Patient, Due
<1> QED  BY <1>3, <1>4 DEF Patient

\* What a backoff is drawn from is whole.
LEMMA CeilingIsInt ==
  ASSUME Configured, NEW n \in Nat
  PROVE  Ceiling(n) \in Int
<1>1. 2 ^ n \in Int
  OBVIOUS
<1> DEFINE p == 2 ^ n
<1>2. p \in Int
  BY <1>1
<1> HIDE DEF p
<1>3. Base * p \in Int
  BY <1>2 DEF Configured
<1>4. Least(MaxBackoff, Base * p) \in Int
  BY <1>3 DEF Least, Configured
<1> QED  BY <1>4 DEF Ceiling, p

\* The backoff is no shorter than what the venue asks for.
LEMMA RetryStep ==
  ASSUME Configured, Types, Patient, NEW c \in Call, NEW call, NEW after \in Int, after >= Null,
         DOMAIN call = DOMAIN Fresh, call.attempt \in Nat, Retry(c, call, after), now' = now
  PROVE  Patient'
<1>1. CASE call.attempt >= MaxRetries
  BY <1>1, FinishStep DEF Retry
<1>2. CASE ~(call.attempt >= MaxRetries)
  <2>1. PICK jitter \in {0, Ceiling(call.attempt)} :
          calls' = [calls EXCEPT ![c] =
            [call EXCEPT !.pc = "backoff", !.attempt = @ + 1,
                         !.until = now + FullJitter(jitter, after)]]
    BY <1>2 DEF Retry
  <2>2. earliest' = [earliest EXCEPT ![c] = now + Largest(after, 0)]
    BY <1>2 DEF Retry
  <2>3. jitter \in Int /\ now \in Nat
    <3>1. Ceiling(call.attempt) \in Int
      BY CeilingIsInt
    <3> QED  BY <3>1 DEF Types
  <2>4. /\ FullJitter(jitter, after) \in Int /\ Largest(after, 0) \in Int
        /\ Largest(after, 0) <= FullJitter(jitter, after)
    BY <2>3 DEF FullJitter, Largest, Null
  <2> DEFINE next == [call EXCEPT !.pc = "backoff", !.attempt = @ + 1,
                                  !.until = now + FullJitter(jitter, after)]
  <2>5. /\ DOMAIN next = DOMAIN Fresh /\ next.attempt = call.attempt + 1
        /\ next.pc = "backoff" /\ next.until = now + FullJitter(jitter, after)
    BY DEF Fresh
  <2>6. calls' = [calls EXCEPT ![c] = next]
    BY <2>1
  <2> HIDE DEF next
  <2>7. DOMAIN calls' = Call /\ calls'[c] = next /\ \A d \in Call : d # c => calls'[d] = calls[d]
    BY <2>6 DEF Patient
  <2>8. /\ earliest' \in [Call -> Int] /\ earliest'[c] = now + Largest(after, 0)
        /\ \A d \in Call : d # c => earliest'[d] = earliest[d]
    BY <2>2, <2>3, <2>4 DEF Patient
  <2>9. ASSUME NEW d \in Call
        PROVE  DOMAIN calls'[d] = DOMAIN Fresh /\ calls'[d].attempt \in Nat /\ Due(d)'
    <3>1. CASE d = c
      BY <2>3, <2>4, <2>5, <2>7, <2>8, <3>1 DEF Due
    <3>2. CASE d # c
      BY <2>7, <2>8, <3>2 DEF Due, Patient
    <3> QED  BY <3>1, <3>2
  <2> QED  BY <2>7, <2>8, <2>9 DEF Patient
<1> QED  BY <1>1, <1>2

LEMMA RefuseStep ==
  ASSUME Configured, Types, Patient, NEW c \in Call, Refuse(c)
  PROVE  Patient'
<1>1. PICK status \in {400, 404, 429, 500}, header \in Headers, body \in Headers :
        /\ (VenueFor(c) # "discord" \/ status # 429) => body = Null
        /\ LET call == [calls[c] EXCEPT !.status = status, !.throttled = @ \/ status = 429] IN
           IF status = 429 \/ status >= 500
             THEN Retry(c, call, RetryAfterOf(c, status, header, body))
             ELSE /\ Finish(c, call, IF VenueFor(c) = "discord" /\ status = 404 /\ Asks[c] # <<>>
                                       THEN "gone" ELSE "http")
                  /\ UNCHANGED earliest
  BY DEF Refuse
<1> DEFINE call == [calls[c] EXCEPT !.status = status, !.throttled = @ \/ status = 429]
<1>2. DOMAIN call = DOMAIN Fresh /\ call.attempt \in Nat
  BY DEF Patient, Fresh
<1>3. header \in Int /\ header >= Null /\ body \in Int /\ MaxRetryAfter \in Nat
  BY DEF Configured, Null
<1>4. RetryAfterOf(c, status, header, body) \in Int /\ RetryAfterOf(c, status, header, body) >= Null
  BY <1>3 DEF RetryAfterOf, ParsedRetryAfter, Largest, Least, Null
<1>5. now' = now
  BY DEF Refuse, Awaited
<1>6. CASE status = 429 \/ status >= 500
  <2>1. Retry(c, call, RetryAfterOf(c, status, header, body))
    BY <1>1, <1>6
  <2> HIDE DEF call
  <2> QED  BY <1>2, <1>4, <1>5, <2>1, RetryStep
<1>7. CASE ~(status = 429 \/ status >= 500)
  <2>1. /\ Finish(c, call, IF VenueFor(c) = "discord" /\ status = 404 /\ Asks[c] # <<>>
                             THEN "gone" ELSE "http")
        /\ earliest' = earliest
    BY <1>1, <1>7
  <2> HIDE DEF call
  <2> QED  BY <1>5, <2>1, FinishStep
<1> QED  BY <1>6, <1>7

LEMMA AnswerStep ==
  ASSUME Types, Patient, NEW c \in Call, Answer(c)
  PROVE  Patient'
<1> DEFINE batch == BatchFrom(c, calls[c].from)
           next  == calls[c].from + Len(batch)
           Read(body) == [calls[c] EXCEPT !.found = Filed(@, batch, body), !.from = next,
                            !.attempt = 0, !.throttled = FALSE, !.status = Null]
<1>1. PICK body :
        IF VenueFor(c) # "clob" \/ AllAsked(c, next)
          THEN Finish(c, Read(body), "done")
          ELSE calls' = [calls EXCEPT ![c] = [Read(body) EXCEPT !.pc = "queued", !.until = now]]
  BY DEF Answer
<1>2. now' = now /\ earliest' = [earliest EXCEPT ![c] = 0] /\ now \in Nat
  BY DEF Answer, Awaited, Types
<1>3. DOMAIN calls = Call /\ DOMAIN calls[c] = DOMAIN Fresh
  BY DEF Patient
<1>4. PICK last : /\ calls' = [calls EXCEPT ![c] = last] /\ DOMAIN last = DOMAIN Fresh
                  /\ last.attempt = 0 /\ last.pc # "backoff"
  <2>1. CASE VenueFor(c) # "clob" \/ AllAsked(c, next)
    <3> DEFINE end == [Fresh EXCEPT !.pc = "done", !.found = Read(body).found, !.result = "done"]
    <3>1. calls' = [calls EXCEPT ![c] = end]
      BY <1>1, <2>1 DEF Finish
    <3>2. DOMAIN end = DOMAIN Fresh /\ end.attempt = 0 /\ end.pc # "backoff"
      BY DEF Fresh
    <3> QED  BY <3>1, <3>2
  <2>2. CASE ~(VenueFor(c) # "clob" \/ AllAsked(c, next))
    <3> DEFINE end == [Read(body) EXCEPT !.pc = "queued", !.until = now]
    <3>1. calls' = [calls EXCEPT ![c] = end]
      BY <1>1, <2>2
    <3>2. DOMAIN end = DOMAIN Fresh /\ end.attempt = 0 /\ end.pc # "backoff"
      BY <1>3 DEF Fresh
    <3> QED  BY <3>1, <3>2
  <2> QED  BY <2>1, <2>2
<1>5. DOMAIN calls' = Call /\ calls'[c] = last /\ \A d \in Call : d # c => calls'[d] = calls[d]
  BY <1>3, <1>4
<1>6. earliest' \in [Call -> Int] /\ \A d \in Call : d # c => earliest'[d] = earliest[d]
  BY <1>2 DEF Patient
<1>7. ASSUME NEW d \in Call
      PROVE  DOMAIN calls'[d] = DOMAIN Fresh /\ calls'[d].attempt \in Nat /\ Due(d)'
  BY <1>2, <1>4, <1>5, <1>6 DEF Patient, Due
<1> QED  BY <1>5, <1>6, <1>7, SMTT(30) DEF Patient

-----------------------------------------------------------------------------
LEMMA InitInv == ASSUME Configured, Init PROVE IInv
<1>1. Types /\ Ledger
  BY DEF Init, Configured, Types, Ledger, Budgeted, Spaced
<1>2. Patient
  BY DEF Init, Patient, Due, Fresh
<1> QED  BY <1>1, <1>2 DEF IInv

LEMMA NextInv == ASSUME Configured, IInv, [Next]_vars PROVE IInv'
<1> USE DEF IInv
<1>1. CASE UNCHANGED vars
  BY <1>1 DEF vars, Types, Ledger, Patient, Due, Budgeted, Spaced
<1>2. CASE Tick
  <2>1. now' = now + 1 /\ now \in Nat /\ UNCHANGED <<bucket, calls, sent, earliest, told>>
    BY <1>2 DEF Tick, Types
  <2>2. Types' /\ Ledger'
    BY <2>1 DEF Types, Ledger, Budgeted, Spaced
  <2>3. Patient'
    BY <2>1 DEF Patient, Due
  <2> QED  BY <2>2, <2>3
<1>3. ASSUME NEW c \in Call, Begin(c) \/ Wake(c)
      PROVE  IInv'
  <2>1. Take(c, calls[c])
    BY <1>3 DEF Begin, Wake
  <2>2. calls[c].attempt > 0 => earliest[c] <= now
    BY <1>3, SMTT(30) DEF Begin, Wake, Patient, Due, Types
  <2> QED  BY <2>1, <2>2, TakeStep
<1>4. ASSUME NEW c \in Call, Unreachable(c) \/ Refuse(c) \/ Break(c) \/ Answer(c)
      PROVE  IInv'
  <2>1. UNCHANGED <<now, bucket, sent>>
    BY <1>4 DEF Unreachable, Refuse, Break, Answer, Awaited
  <2>2. Types' /\ Ledger'
    BY <2>1 DEF Types, Ledger, Budgeted, Spaced
  <2>3. Patient'
    <3>1. CASE Unreachable(c)
      <4> DEFINE call == [calls[c] EXCEPT !.status = Null]
      <4>1. DOMAIN call = DOMAIN Fresh /\ call.attempt \in Nat /\ Null \in Int
        BY DEF Patient, Fresh, Null
      <4>2. Retry(c, call, Null) /\ now' = now
        BY <2>1, <3>1 DEF Unreachable
      <4> HIDE DEF call
      <4> QED  BY <4>1, <4>2, RetryStep
    <3>2. CASE Refuse(c)
      BY <3>2, RefuseStep
    <3>3. CASE Break(c)
      <4>1. now' = now /\ earliest' = earliest
        BY <2>1, <3>3 DEF Break
      <4>2. \E result : Finish(c, calls[c], result)
        BY <3>3 DEF Break
      <4> QED  BY <4>1, <4>2, FinishStep
    <3>4. CASE Answer(c)
      BY <3>4, AnswerStep
    <3> QED  BY <1>4, <3>1, <3>2, <3>3, <3>4
  <2> QED  BY <2>2, <2>3
<1> QED  BY <1>1, <1>2, <1>3, <1>4 DEF Next

-----------------------------------------------------------------------------
\* http.ts: whatever number of calls wait on a bucket, back off and wake at once, no
\* window of time sees more requests of a client than its burst and what the rate adds;
\* and no call is made again before the Retry-After it was given, up to the cap, is over.
THEOREM ClientsAreDisciplined == ASSUME Configured PROVE Spec => []Disciplined
<1>1. IInv => Disciplined
  <2> SUFFICES ASSUME IInv PROVE Disciplined
    OBVIOUS
  <2>1. ASSUME NEW k \in Client, NEW ticks \in 0..MaxTime,
               NEW i \in DOMAIN sent[k], NEW l \in DOMAIN sent[k],
               i <= l, sent[k][l] - sent[k][i] <= ticks
        PROVE  (l - i + 1) * Unit <= Capacity + Rate * ticks
    <3>1. Unit * (l - i + 1) <= Capacity + Rate * (sent[k][l] - sent[k][i])
      BY <2>1 DEF IInv, Ledger, Spaced
    <3>2. /\ sent[k][l] \in Nat /\ sent[k][i] \in Nat /\ i \in Nat /\ l \in Nat
          /\ ticks \in Int /\ Unit \in Nat /\ Rate \in Nat /\ Capacity \in Nat
      <4>1. sent[k] \in Seq(Nat) /\ now \in Nat
        BY DEF IInv, Types
      <4>2. /\ sent[k][l] \in Nat /\ sent[k][i] \in Nat
            /\ DOMAIN sent[k] = 1..Len(sent[k]) /\ Len(sent[k]) \in Nat
        BY <4>1
      <4>3. ticks \in Int /\ Unit \in Nat /\ Rate \in Nat /\ Capacity \in Nat
        BY DEF Configured
      <4> QED  BY <4>2, <4>3
    <3> DEFINE spent == Unit * (l - i + 1)
               since == Rate * (sent[k][l] - sent[k][i])
               most  == Rate * ticks
    <3>3. since <= most
      BY <2>1, <3>2, Products
    <3>4. spent \in Int /\ since \in Int /\ most \in Int /\ (l - i + 1) * Unit = spent
      BY <3>2
    <3>5. spent <= Capacity + since
      BY <3>1
    <3> HIDE DEF spent, since, most
    <3>6. spent <= Capacity + most
      BY <3>2, <3>3, <3>4, <3>5
    <3> QED  BY <3>4, <3>6 DEF most
  <2>2. \A c \in Call : calls[c].pc = "inflight" /\ calls[c].attempt > 0 => now >= earliest[c]
    BY DEF IInv, Patient, Due, Types
  <2> QED  BY <2>1, <2>2 DEF Disciplined, Within
<1> QED  BY <1>1, InitInv, NextInv, PTL DEF Spec

-----------------------------------------------------------------------------
(* What is found, and what is missing *)

\* What fetchBooks has asked about: the ids before the one its next batch begins with.
Before(c, i) == {Wanted(c)[k] : k \in 1..(i - 1)}

\* A call has found what it was given; until it is over it has been answered about all the
\* ids before its next batch, and when it returns, about all.
Answered(c) ==
  /\ DOMAIN calls[c].found = told[c].given
  /\ \A id \in DOMAIN calls[c].found : calls[c].found[id] = id
  /\ calls[c].pc # "done" =>
       /\ calls[c].from \in Nat \ {0} /\ calls[c].result = "none"
       /\ Before(c, calls[c].from) \subseteq told[c].asked
  /\ VenueFor(c) # "discord" /\ calls[c].result = "done" => Range(Wanted(c)) \subseteq told[c].asked

Kept(c) == DOMAIN told = Call /\ DOMAIN told[c] = {"asked", "given"}

Accounted == \A c \in Call : Kept(c) /\ Answered(c)

LEMMA OthersAccounted ==
  ASSUME Patient, Accounted, NEW c \in Call, NEW next, calls' = [calls EXCEPT ![c] = next],
         \/ told' = told
         \/ \E t : DOMAIN t = {"asked", "given"} /\ told' = [told EXCEPT ![c] = t],
         Answered(c)'
  PROVE  Accounted'
<1>1. DOMAIN calls = Call /\ \A d \in Call : d # c => calls'[d] = calls[d]
  BY DEF Patient
<1>2. /\ DOMAIN told' = Call /\ \A d \in Call : d # c => told'[d] = told[d]
      /\ \A d \in Call : DOMAIN told'[d] = {"asked", "given"}
  BY DEF Accounted, Kept
<1>3. ASSUME NEW d \in Call, d # c
      PROVE  Answered(d)'
  <2>1. calls'[d] = calls[d] /\ told'[d] = told[d] /\ Answered(d)
    BY <1>1, <1>2, <1>3 DEF Accounted
  <2> QED  BY <2>1 DEF Answered
<1> QED  BY <1>2, <1>3 DEF Accounted, Kept

\* A call goes on with what it has.
LEMMA GoesOn ==
  ASSUME Patient, Accounted, NEW c \in Call, NEW next, calls' = [calls EXCEPT ![c] = next],
         calls[c].pc # "done", next.found = calls[c].found, next.from = calls[c].from,
         next.result = calls[c].result, told' = told
  PROVE  Accounted'
<1>1. calls'[c] = next
  BY DEF Patient
<1>2. Answered(c)'
  BY <1>1 DEF Accounted, Answered
<1> QED  BY <1>2, OthersAccounted

\* It ends without an answer.
LEMMA GivesUp ==
  ASSUME Patient, Accounted, NEW c \in Call, NEW call, call.found = calls[c].found,
         NEW result, Finish(c, call, result), result = "done" => VenueFor(c) = "discord",
         told' = told
  PROVE  Accounted'
<1> DEFINE next == [Fresh EXCEPT !.pc = "done", !.found = call.found, !.result = result]
<1>1. next.found = calls[c].found /\ next.pc = "done" /\ next.result = result
  BY DEF Fresh
<1>2. calls' = [calls EXCEPT ![c] = next]
  BY DEF Finish
<1> HIDE DEF next
<1>3. calls'[c] = next
  BY <1>2 DEF Patient
<1>4. Answered(c)'
  BY <1>1, <1>3 DEF Accounted, Answered
<1> QED  BY <1>2, <1>4, OthersAccounted

LEMMA TriesAgain ==
  ASSUME Patient, Accounted, NEW c \in Call, NEW call, call.found = calls[c].found,
         call.from = calls[c].from, call.result = calls[c].result, calls[c].pc # "done",
         NEW after, Retry(c, call, after), told' = told
  PROVE  Accounted'
<1>1. CASE call.attempt >= MaxRetries
  <2>1. Finish(c, call, Exhausted(c, call)) /\ Exhausted(c, call) # "done"
    BY <1>1 DEF Retry, Exhausted
  <2> QED  BY <2>1, GivesUp
<1>2. CASE ~(call.attempt >= MaxRetries)
  <2>1. PICK jitter \in {0, Ceiling(call.attempt)} :
          calls' = [calls EXCEPT ![c] =
            [call EXCEPT !.pc = "backoff", !.attempt = @ + 1,
                         !.until = now + FullJitter(jitter, after)]]
    BY <1>2 DEF Retry
  <2> DEFINE next == [call EXCEPT !.pc = "backoff", !.attempt = @ + 1,
                                  !.until = now + FullJitter(jitter, after)]
  <2>2. next.found = call.found /\ next.from = call.from /\ next.result = call.result
    OBVIOUS
  <2>3. calls' = [calls EXCEPT ![c] = next]
    BY <2>1
  <2> HIDE DEF next
  <2> QED  BY <2>2, <2>3, GoesOn
<1> QED  BY <1>1, <1>2

LEMMA TakesToken ==
  ASSUME Patient, Accounted, NEW c \in Call, Take(c, calls[c]), calls[c].pc # "done"
  PROVE  Accounted'
<1>1. PICK next : /\ next.found = calls[c].found /\ next.from = calls[c].from
                  /\ next.result = calls[c].result /\ calls' = [calls EXCEPT ![c] = next]
  <2> DEFINE b == Refilled(bucket[Through[c]])
             asked  == [calls[c] EXCEPT !.pc = "inflight"]
             queued == [calls[c] EXCEPT !.pc = "queued", !.until = now + Shortfall(b)]
  <2>1. /\ asked.found = calls[c].found /\ asked.from = calls[c].from
        /\ asked.result = calls[c].result
        /\ queued.found = calls[c].found /\ queued.from = calls[c].from
        /\ queued.result = calls[c].result
    OBVIOUS
  <2>2. calls' = [calls EXCEPT ![c] = asked] \/ calls' = [calls EXCEPT ![c] = queued]
    BY DEF Take
  <2> HIDE DEF asked, queued
  <2> QED  BY <2>1, <2>2
<1> QED  BY <1>1, GoesOn DEF Take

LEMMA IsRefused ==
  ASSUME Patient, Accounted, NEW c \in Call, Refuse(c)
  PROVE  Accounted'
<1>1. PICK status \in {400, 404, 429, 500}, header \in Headers, body \in Headers :
        /\ (VenueFor(c) # "discord" \/ status # 429) => body = Null
        /\ LET call == [calls[c] EXCEPT !.status = status, !.throttled = @ \/ status = 429] IN
           IF status = 429 \/ status >= 500
             THEN Retry(c, call, RetryAfterOf(c, status, header, body))
             ELSE /\ Finish(c, call, IF VenueFor(c) = "discord" /\ status = 404 /\ Asks[c] # <<>>
                                       THEN "gone" ELSE "http")
                  /\ UNCHANGED earliest
  BY DEF Refuse
<1> DEFINE call == [calls[c] EXCEPT !.status = status, !.throttled = @ \/ status = 429]
<1>2. /\ call.found = calls[c].found /\ call.from = calls[c].from
      /\ call.result = calls[c].result
  BY DEF Patient, Fresh
<1>3. calls[c].pc # "done" /\ told' = told
  BY DEF Refuse, Awaited
<1>4. \/ Retry(c, call, RetryAfterOf(c, status, header, body))
      \/ \E result \in {"gone", "http"} : Finish(c, call, result)
  BY <1>1
<1> HIDE DEF call
<1> QED  BY <1>2, <1>3, <1>4, TriesAgain, GivesUp

LEMMA Filing ==
  ASSUME NEW found, NEW batch, NEW body, \A id \in DOMAIN found : found[id] = id
  PROVE  LET filed == Filed(found, batch, body) IN
         /\ DOMAIN filed = DOMAIN found \cup Range(body)
         /\ \A id \in DOMAIN filed : filed[id] = id
BY DEF Filed

\* A batch is asked about from where the last one ended.
LEMMA NextBatch ==
  ASSUME Configured, NEW c \in Call, NEW i \in Nat \ {0}
  PROVE  LET batch == BatchFrom(c, i)
             next  == i + Len(batch)
         IN /\ next \in Nat \ {0}
            /\ VenueFor(c) = "clob" => Before(c, next) \subseteq Before(c, i) \cup Range(batch)
            /\ VenueFor(c) = "clob" /\ AllAsked(c, next) => Range(Wanted(c)) \subseteq Before(c, next)
            /\ VenueFor(c) # "clob" => Range(batch) = Range(Wanted(c))
<1> DEFINE batch == BatchFrom(c, i)
           next  == i + Len(batch)
           W     == Wanted(c)
           last  == Least(i + BatchSize - 1, Len(W))
<1>1. W \in Seq(Range(Asks[c])) /\ BatchSize \in Nat \ {0}
  BY DEF Configured
<1> HIDE DEF W
<1>2. Len(W) \in Nat /\ DOMAIN W = 1..Len(W) /\ last \in Int /\ last <= Len(W)
  BY <1>1 DEF Least
<1>3. CASE VenueFor(c) # "clob"
  <2>1. batch = W
    BY <1>3 DEF BatchFrom, W
  <2> QED  BY <1>2, <1>3, <2>1 DEF W
<1>4. CASE VenueFor(c) = "clob"
  <2>1. batch = SubSeq(W, i, last)
    BY <1>4 DEF BatchFrom, W
  <2> HIDE DEF batch, last
  <2>2. /\ Len(batch) = IF i <= last THEN last - i + 1 ELSE 0
        /\ \A k \in 1..Len(batch) : batch[k] = W[i + k - 1]
        /\ Len(batch) \in Nat /\ DOMAIN batch = 1..Len(batch)
    <3>1. CASE i <= last
      <4>1. \A k \in i..last : k \in DOMAIN W
        BY <1>2
      <4> QED  BY <1>1, <1>2, <2>1, <3>1, <4>1
    <3>2. CASE ~(i <= last)
      BY <1>1, <1>2, <2>1, <3>2
    <3> QED  BY <3>1, <3>2
  <2>3. next \in Nat \ {0}
    BY <2>2
  <2>4. ASSUME NEW k \in 1..(next - 1), k \notin 1..(i - 1)
        PROVE  W[k] \in Range(batch)
    <3>1. k - i + 1 \in 1..Len(batch) /\ batch[k - i + 1] = W[k]
      BY <1>2, <2>2, <2>4
    <3> QED  BY <2>2, <3>1 DEF Range
  <2>5. Before(c, next) \subseteq Before(c, i) \cup Range(batch)
    BY <2>4 DEF Before, W
  <2>6. AllAsked(c, next) => Range(W) \subseteq Before(c, next)
    <3> SUFFICES ASSUME AllAsked(c, next), NEW k \in DOMAIN W
                 PROVE  W[k] \in Before(c, next)
      BY DEF Range
    <3>1. k \in 1..(next - 1)
      BY <1>2, <2>3 DEF AllAsked, W
    <3> QED  BY <3>1 DEF Before, W
  <2> QED  BY <1>4, <2>3, <2>5, <2>6 DEF W, batch
<1> QED  BY <1>3, <1>4

LEMMA IsAnswered ==
  ASSUME Configured, Patient, Accounted, NEW c \in Call, Answer(c)
  PROVE  Accounted'
<1> DEFINE i     == calls[c].from
           batch == BatchFrom(c, i)
           next  == i + Len(batch)
           Read(body) == [calls[c] EXCEPT !.found = Filed(@, batch, body), !.from = next,
                            !.attempt = 0, !.throttled = FALSE, !.status = Null]
<1>1. PICK body :
        /\ IF VenueFor(c) # "clob" \/ AllAsked(c, next)
             THEN Finish(c, Read(body), "done")
             ELSE calls' = [calls EXCEPT ![c] = [Read(body) EXCEPT !.pc = "queued", !.until = now]]
        /\ told' = [told EXCEPT ![c] = [asked |-> @.asked \cup Range(batch),
                                        given |-> @.given \cup Range(body)]]
  BY DEF Answer
<1> DEFINE t == [asked |-> told[c].asked \cup Range(batch), given |-> told[c].given \cup Range(body)]
           read == Read(body)
<1>2. told' = [told EXCEPT ![c] = t] /\ DOMAIN t = {"asked", "given"}
  BY <1>1
<1>3. /\ calls[c].pc # "done" /\ DOMAIN calls[c] = DOMAIN Fresh
      /\ calls[c].result = "none" /\ i \in Nat \ {0} /\ Before(c, i) \subseteq told[c].asked
      /\ DOMAIN calls[c].found = told[c].given /\ \A id \in told[c].given : calls[c].found[id] = id
  BY DEF Answer, Awaited, Patient, Accounted, Answered
<1>4. /\ next \in Nat \ {0}
      /\ VenueFor(c) = "clob" => Before(c, next) \subseteq Before(c, i) \cup Range(batch)
      /\ VenueFor(c) = "clob" /\ AllAsked(c, next) => Range(Wanted(c)) \subseteq Before(c, next)
      /\ VenueFor(c) # "clob" => Range(batch) = Range(Wanted(c))
  BY <1>3, NextBatch
<1>5. /\ read.found = Filed(calls[c].found, batch, body) /\ read.from = next
      /\ read.result = "none"
  BY <1>3 DEF Fresh
<1>6. told'[c] = t /\ t.asked = told[c].asked \cup Range(batch)
        /\ t.given = told[c].given \cup Range(body)
  BY <1>2 DEF Accounted, Kept
<1>7. DOMAIN read.found = t.given /\ \A id \in DOMAIN read.found : read.found[id] = id
  <2> DEFINE found == calls[c].found
  <2>1. DOMAIN found = told[c].given /\ \A id \in DOMAIN found : found[id] = id
    BY <1>3
  <2> HIDE DEF found, batch
  <2>2. LET filed == Filed(found, batch, body) IN
        /\ DOMAIN filed = DOMAIN found \cup Range(body)
        /\ \A id \in DOMAIN filed : filed[id] = id
    BY <2>1, Filing
  <2>3. read.found = Filed(found, batch, body)
    BY <1>5 DEF found
  <2> HIDE DEF read, t
  <2> QED  BY <1>6, <2>1, <2>2, <2>3
<1> HIDE DEF read, t
<1>8. CASE VenueFor(c) # "clob" \/ AllAsked(c, next)
  <2> DEFINE end == [Fresh EXCEPT !.pc = "done", !.found = read.found, !.result = "done"]
  <2>1. calls' = [calls EXCEPT ![c] = end]
    BY <1>1, <1>8 DEF Finish, read
  <2>2. end.found = read.found /\ end.pc = "done"
    BY DEF Fresh
  <2> HIDE DEF end
  <2>3. calls'[c] = end
    BY <2>1 DEF Patient
  <2>4. Range(Wanted(c)) \subseteq t.asked
    BY <1>3, <1>4, <1>6, <1>8
  <2>5. Answered(c)'
    BY <1>6, <1>7, <2>2, <2>3, <2>4 DEF Answered
  <2> QED  BY <1>2, <2>1, <2>5, OthersAccounted
<1>9. CASE ~(VenueFor(c) # "clob" \/ AllAsked(c, next))
  <2> DEFINE end == [read EXCEPT !.pc = "queued", !.until = now]
  <2>1. calls' = [calls EXCEPT ![c] = end]
    BY <1>1, <1>9 DEF read
  <2>2. end.found = read.found /\ end.from = next /\ end.result = "none"
    BY <1>5
  <2> HIDE DEF end
  <2>3. calls'[c] = end
    BY <2>1 DEF Patient
  <2>4. Before(c, next) \subseteq t.asked
    BY <1>3, <1>4, <1>6, <1>9
  <2>5. Answered(c)'
    BY <1>4, <1>6, <1>7, <2>2, <2>3, <2>4 DEF Answered, Before
  <2> QED  BY <1>2, <2>1, <2>5, OthersAccounted
<1> QED  BY <1>8, <1>9

\* clob.ts, fetchBooks: however the ids fall into batches, whatever order they are answered
\* in and whatever fails in between, what a call that returns has not found, the venue was
\* asked about and left out.
THEOREM MissingAreUnknown == ASSUME Configured PROVE Spec => []MissingIsUnknown
<1>1. Init => Accounted
  <2> SUFFICES ASSUME Init, NEW c \in Call
               PROVE  Kept(c) /\ Answered(c)
    BY DEF Accounted
  <2>1. /\ calls[c] = Fresh /\ told[c] = [asked |-> {}, given |-> {}] /\ DOMAIN told = Call
    BY DEF Init
  <2>2. Before(c, 1) = {}
    BY DEF Before
  <2>3. /\ Fresh.found = <<>> /\ Fresh.pc = "idle" /\ Fresh.from = 1 /\ Fresh.result = "none"
    BY DEF Fresh
  <2>4. DOMAIN calls[c].found = {}
    BY <2>1, <2>3
  <2> QED  BY <2>1, <2>2, <2>3, <2>4 DEF Kept, Answered
<1>2. IInv /\ Accounted /\ [Next]_vars => Accounted'
  <2> SUFFICES ASSUME IInv, Accounted, [Next]_vars
               PROVE  Accounted'
    OBVIOUS
  <2> USE DEF IInv
  <2>1. CASE UNCHANGED vars \/ Tick
    <3>1. UNCHANGED <<calls, told>>
      BY <2>1 DEF vars, Tick
    <3> QED  BY <3>1 DEF Accounted, Kept, Answered, Before
  <2>2. ASSUME NEW c \in Call, Begin(c) \/ Wake(c)
        PROVE  Accounted'
    BY <2>2, TakesToken DEF Begin, Wake
  <2>3. ASSUME NEW c \in Call, Unreachable(c)
        PROVE  Accounted'
    <3> DEFINE call == [calls[c] EXCEPT !.status = Null]
    <3>1. /\ call.found = calls[c].found /\ call.from = calls[c].from
          /\ call.result = calls[c].result
      BY DEF Patient, Fresh
    <3>2. Retry(c, call, Null) /\ calls[c].pc # "done" /\ told' = told
      BY <2>3 DEF Unreachable, Awaited
    <3> HIDE DEF call
    <3> QED  BY <3>1, <3>2, TriesAgain
  <2>4. ASSUME NEW c \in Call, Break(c)
        PROVE  Accounted'
    <3>1. PICK result : Finish(c, calls[c], result) /\ (result = "done" => VenueFor(c) = "discord")
      BY <2>4 DEF Break
    <3>2. told' = told
      BY <2>4 DEF Break
    <3> QED  BY <3>1, <3>2, GivesUp
  <2> QED  BY <2>1, <2>2, <2>3, <2>4, IsRefused, IsAnswered DEF Next
<1>3. Accounted => MissingIsUnknown
  BY DEF Accounted, Answered, MissingIsUnknown
<1> QED  BY <1>1, <1>2, <1>3, InitInv, NextInv, PTL DEF Spec

=============================================================================
