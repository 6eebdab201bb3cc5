----------------------------- MODULE VenueClients -----------------------------
(***************************************************************************)
(* The clients of Gamma, of the CLOB and of Discord: one retry loop each      *)
(* (src/polymarket/gamma.ts, src/polymarket/clob.ts, src/alerts/discord.ts)   *)
(* over the token bucket and the backoff they share (src/polymarket/http.ts). *)
(* A call is a use of a client: fetchBooks, a batch at a time;                *)
(* fetchMarketsByConditionIds; a message sent or edited.  Between two awaits  *)
(* a call is alone.                                                          *)
(***************************************************************************)
EXTENDS Integers, SequencesExt

CONSTANTS
  Client,     \* instances, each with its bucket
  VenueOf,    \* client |-> "gamma", "clob", "discord"
  Call,
  Through,    \* call |-> its client
  Asks,       \* call |-> the ids it asks about (for Discord: the message edited)
  Unit, Rate, Capacity,  \* a token is Unit parts, Rate of which a tick adds, Capacity
                         \* of which a bucket holds: a token at least
  BatchSize, MaxRetries,
  Base, MaxBackoff, MaxRetryAfter,
  Headers,    \* what a Retry-After says, Null for none
  MaxTime     \* bound

VARIABLES
  now,
  bucket,   \* client |-> [tokens, at]
  calls,    \* call |-> where it is
  sent,     \* history: client |-> when its requests were sent
  earliest, \* history: call |-> when the venue will have its next request
  told      \* history: call |-> the ids it was answered about, and those given

vars == <<now, bucket, calls, sent, earliest, told>>

Null == -1
Least(a, b)   == IF a < b THEN a ELSE b
Largest(a, b) == IF a > b THEN a ELSE b
VenueFor(c)   == VenueOf[Through[c]]

\* Duplicates are collapsed.
Wanted(c) == FoldLeft(LAMBDA ids, id : IF id \in Range(ids) THEN ids ELSE Append(ids, id),
                      <<>>, Asks[c])

\* fetchBooks asks in batches, the others all at once.
BatchFrom(c, i) ==
  IF VenueFor(c) = "clob" THEN SubSeq(Wanted(c), i, Least(i + BatchSize - 1, Len(Wanted(c))))
                          ELSE Wanted(c)

Fresh == [pc |-> "idle", until |-> 0, from |-> 1, attempt |-> 0, throttled |-> FALSE,
          status |-> Null, found |-> <<>>, result |-> "none"]

Init ==
  /\ now = 0
  /\ bucket = [k \in Client |-> [tokens |-> Capacity, at |-> 0]]
  /\ calls = [c \in Call |-> Fresh]
  /\ sent = [k \in Client |-> <<>>]
  /\ earliest = [c \in Call |-> 0]
  /\ told = [c \in Call |-> [asked |-> {}, given |-> {}]]

Tick == now < MaxTime /\ now' = now + 1 /\ UNCHANGED <<bucket, calls, sent, earliest, told>>

-----------------------------------------------------------------------------
(* http.ts *)

\* Variant: the time of a refill is noted only if it gave a token.
RefilledForTaker(b) ==
  LET tokens == Least(Capacity, b.tokens + (now - b.at) * Rate)
  IN [tokens |-> tokens, at |-> IF tokens >= Unit THEN now ELSE b.at]

Refilled(b) == [tokens |-> Least(Capacity, b.tokens + (now - b.at) * Rate), at |-> now]

\* How long until there is a token, at least one tick.
Shortfall(b) == Largest(1, (Unit - b.tokens + Rate - 1) \div Rate)

\* take: a token, and the request it allows, or a sleep after which to try again.
Take(c, call) ==
  LET k == Through[c]
      b == Refilled(bucket[k])
  IN /\ bucket' = [bucket EXCEPT ![k] =
          IF b.tokens >= Unit THEN [b EXCEPT !.tokens = @ - Unit] ELSE b]
     /\ IF b.tokens >= Unit
          THEN /\ calls' = [calls EXCEPT ![c] = [call EXCEPT !.pc = "inflight"]]
               /\ sent' = [sent EXCEPT ![k] = Append(@, now)]
          ELSE /\ calls' = [calls EXCEPT ![c] =
                    [call EXCEPT !.pc = "queued", !.until = now + Shortfall(b)]]
               /\ UNCHANGED sent
     /\ UNCHANGED <<now, earliest, told>>

\* parseRetryAfter caps what the header says.
ParsedRetryAfter(header) == IF header = Null THEN Null ELSE Least(header, MaxRetryAfter)

Ceiling(attempt) == Least(MaxBackoff, Base * 2 ^ attempt)

\* Variant: the jitter shortens what the venue asks for.
FullJitterUnfloored(jitter, after) == IF after = Null THEN jitter ELSE Least(jitter, after)

FullJitter(jitter, after) == Largest(jitter, IF after = Null THEN 0 ELSE after)

-----------------------------------------------------------------------------
(* The loop *)

Begin(c) == calls[c].pc = "idle" /\ Take(c, calls[c])

\* A sleep ends, of the bucket or of a backoff; no sooner than it should.
Wake(c) ==
  /\ calls[c].pc \in {"queued", "backoff"} /\ now >= calls[c].until
  /\ Take(c, calls[c])

Finish(c, call, result) ==
  calls' = [calls EXCEPT ![c] = [Fresh EXCEPT !.pc = "done", !.found = call.found,
                                              !.result = result]]

\* Retry-After, as each loop reads it: Discord's only on a 429, and then the larger of
\* the header and the body, neither if it is nothing.
RetryAfterOf(c, status, header, body) ==
  IF VenueFor(c) # "discord" THEN ParsedRetryAfter(header)
  ELSE LET after == Largest(ParsedRetryAfter(header), body)
       IN IF status = 429 /\ after > 0 THEN after ELSE Null

\* The errors the loop ends with once its retries are spent.
Exhausted(c, call) ==
  IF VenueFor(c) # "discord" /\ call.throttled THEN "rate-limited"
  ELSE IF call.status = Null THEN "network" ELSE "http"

\* A failed attempt: another after a backoff, or the end.
Retry(c, call, after) ==
  IF call.attempt >= MaxRetries
    THEN Finish(c, call, Exhausted(c, call)) /\ UNCHANGED earliest
    ELSE /\ \E jitter \in {0, Ceiling(call.attempt)} :
              calls' = [calls EXCEPT ![c] =
                [call EXCEPT !.pc = "backoff", !.attempt = @ + 1,
                             !.until = now + FullJitter(jitter, after)]]
         /\ earliest' = [earliest EXCEPT ![c] = now + Largest(after, 0)]

Awaited(c) == calls[c].pc = "inflight" /\ UNCHANGED <<now, bucket, sent>>

\* fetch throws: DNS, TCP, TLS, or the attempt's timeout.
Unreachable(c) ==
  /\ Awaited(c) /\ UNCHANGED told
  /\ Retry(c, [calls[c] EXCEPT !.status = Null], Null)

\* A status that is not 2xx.  A 429 or a 5xx is retried, the rest is not; a message
\* that is gone is not edited.
Refuse(c) ==
  /\ Awaited(c) /\ UNCHANGED told
  /\ \E status \in {400, 404, 429, 500}, header, body \in Headers :
       /\ (VenueFor(c) # "discord" \/ status # 429) => body = Null
       /\ LET call == [calls[c] EXCEPT !.status = status, !.throttled = @ \/ status = 429] IN
          IF status = 429 \/ status >= 500
            THEN Retry(c, call, RetryAfterOf(c, status, header, body))
            ELSE /\ Finish(c, call, IF VenueFor(c) = "discord" /\ status = 404 /\ Asks[c] # <<>>
                                      THEN "gone" ELSE "http")
                 /\ UNCHANGED earliest

\* What ends a call at once: a body that is cut off while it is read, which is outside
\* the try; one that is not JSON or not of the shape, of which Discord's loop makes no
\* id; the caller's signal, which Discord's has not.
Break(c) ==
  /\ \/ Awaited(c) /\ Finish(c, calls[c], "cut")
     \/ /\ Awaited(c)
        /\ Finish(c, calls[c], IF VenueFor(c) = "discord" THEN "done" ELSE "schema")
     \/ /\ VenueFor(c) # "discord" /\ calls[c].pc \in {"queued", "backoff", "inflight"}
        /\ Finish(c, calls[c], "aborted") /\ UNCHANGED <<now, bucket, sent>>
  /\ UNCHANGED <<earliest, told>>

\* Variant: the answer is read in the order of the request.
FiledInOrder(found, batch, body) ==
  [id \in DOMAIN found \cup {batch[i] : i \in DOMAIN body} |->
     IF \E i \in DOMAIN body : batch[i] = id
       THEN body[CHOOSE i \in DOMAIN body : batch[i] = id] ELSE found[id]]

\* Each record is filed under the id it carries.
Filed(found, batch, body) ==
  [id \in DOMAIN found \cup Range(body) |-> IF id \in Range(body) THEN id ELSE found[id]]

\* The venue answers about the ids it knows, in its own order.
Bodies(batch) == {s \in SeqOf(Range(batch), Len(batch)) : IsInjective(s)}

\* Variant: the batch that ends with the last id but one is taken for the last.
AllAskedEarly(c, next) == next >= Len(Wanted(c))

AllAsked(c, next) == next > Len(Wanted(c))

\* The body is good: fetchBooks goes on to its next batch.
Answer(c) ==
  /\ Awaited(c)
  /\ LET call  == calls[c]
         batch == BatchFrom(c, call.from)
         next  == call.from + Len(batch)
     IN \E body \in Bodies(batch) :
          LET read == [call EXCEPT !.found = Filed(@, batch, body), !.from = next,
                                   !.attempt = 0, !.throttled = FALSE, !.status = Null]
          IN /\ IF VenueFor(c) # "clob" \/ AllAsked(c, next)
                  THEN Finish(c, read, "done")
                  ELSE calls' = [calls EXCEPT ![c] = [read EXCEPT !.pc = "queued", !.until = now]]
             /\ told' = [told EXCEPT ![c] = [asked |-> @.asked \cup Range(batch),
                                             given |-> @.given \cup Range(body)]]
  /\ earliest' = [earliest EXCEPT ![c] = 0]

-----------------------------------------------------------------------------
Next ==
  \/ Tick
  \/ \E c \in Call : Begin(c) \/ Wake(c) \/ Unreachable(c) \/ Refuse(c) \/ Break(c) \/ Answer(c)

Spec == Init /\ [][Next]_vars

-----------------------------------------------------------------------------
(* Properties *)

Within(times, ticks) ==
  \A i, k \in DOMAIN times : i <= k /\ times[k] - times[i] <= ticks =>
    (k - i + 1) * Unit <= Capacity + Rate * ticks

\* TokenBucket: in no window does a client send more than its burst and what the rate
\* adds, however many calls wait on its bucket, back off, or wake at once; and no call
\* asks again before the Retry-After it was given, up to the cap, is over.
Disciplined ==
  /\ \A k \in Client, ticks \in 0..MaxTime : Within(sent[k], ticks)
  /\ \A c \in Call : calls[c].pc = "inflight" /\ calls[c].attempt > 0 => now >= earliest[c]

\* fetchBooks returns what it found, under the id each record carries, and takes the
\* rest for tokens the venue has no book of: what a call that returns has not found, the
\* venue was asked about, in a request it answered well, and left out -- however the ids
\* fall into batches, in whatever order they are answered, and whichever of its requests
\* failed and were made again in between.
MissingIsUnknown ==
  \A c \in Call : VenueFor(c) # "discord" /\ calls[c].result = "done" =>
    /\ Range(Wanted(c)) \subseteq told[c].asked
    /\ DOMAIN calls[c].found = told[c].given
    /\ \A id \in DOMAIN calls[c].found : calls[c].found[id] = id

\* http.ts: "Polymarket's budget is enforced per-IP ... and is therefore shared across
\* every client in this process".
Together == SortSeq(FoldLeft(LAMBDA all, k : all \o sent[k], <<>>,
                             SetToSeq({k \in Client : VenueOf[k] # "discord"})), <)
SharedBudget == \A ticks \in 0..MaxTime : Within(Together, ticks)

=============================================================================
