----------------------------- MODULE RateLimit -----------------------------
(***************************************************************************)
(* ratelimit.TokenBucketLimiter: `limiter`, keyed by user, and              *)
(* `auth_limiter`, keyed by address (deps.client_key), in front of the ask  *)
(* and of the login and signup routes.                                      *)
(*                                                                          *)
(* The routes are plain functions, so calls run in threads, and the limiter *)
(* takes no lock: the dict is read in one step and written in another, and  *)
(* the sweep walks and deletes in between.  Tokens are exact sixtieths      *)
(* where the code has floats; the clock ticks in seconds.                   *)
(***************************************************************************)
EXTENDS Integers, FiniteSets, Functions

CONSTANTS
    Address,        \* who calls
    Nobody,         \* no address is known
    HeaderTrusted,  \* settings.client_ip_header is set
    Call,           \* the threads
    Burst, PerMin,  \* the allowance
    SweepAbove,     \* 1000 in the code
    EvictAfter,     \* _EVICT_AFTER_SECONDS, 3600
    MaxStall,       \* how long a thread may rest within a call
    MaxClock        \* bound: seconds observed

VARIABLES
    clock,      \* time.monotonic()
    buckets,    \* _buckets: what is known of the keys that were seen
    call,       \* where each call is
    promise     \* when each refused key was told to come back: 0 is no promise

limitVars == <<clock, buckets, call, promise>>

\* A bucket is full again before it is forgotten (the comment above
\* _EVICT_AFTER_SECONDS), with time to spare for the threads that rest: two clocks
\* read in one order and used in the other leave a bucket below empty.  The
\* settings shipped, 5 at 30 and 10 at 10, are far from the edge.
ASSUME LimitAssumption ==
    /\ {Burst, PerMin} \subseteq Nat \ {0}
    /\ {SweepAbove, EvictAfter, MaxStall, MaxClock} \subseteq Nat
    /\ 60 * Burst <= (EvictAfter - 2 * MaxStall) * PerMin
    /\ HeaderTrusted \in BOOLEAN
    /\ "unknown" \notin Address /\ Nobody \notin Address

Key == Address \cup {"unknown"}
Request == [header : Address \cup {Nobody}, peer : Address \cup {Nobody}]

client_key(r) ==
    CASE HeaderTrusted /\ r.header # Nobody -> r.header
      [] ~(HeaderTrusted /\ r.header # Nobody) /\ r.peer # Nobody -> r.peer
      [] OTHER -> "unknown"

Full == 60 * Burst
Idle == [at |-> "idle"]
Busy(c) == call[c].at \notin {"idle", "answered", "failed"}

\* Line 52: a key that is not there has a full bucket.
Stored(k, now) ==
    IF k \in DOMAIN buckets THEN buckets[k] ELSE [tokens |-> Full, last |-> now]

\* Mutant: the refill has no ceiling.
RefilledForever(b, now) == b.tokens + (now - b.last) * PerMin

\* Line 53.
Refilled(b, now) ==
    LET tokens == b.tokens + (now - b.last) * PerMin
    IN  IF tokens < Full THEN tokens ELSE Full

\* Mutant: Retry-After without the second that rounds it up.
RetryAfterRoundedDown(tokens) ==
    IF PerMin > 0 THEN (60 - tokens) \div PerMin ELSE 61

\* Line 58 and the header made of it, int(retry_after) + 1.
RetryAfter(tokens) ==
    IF PerMin > 0 THEN (60 - tokens) \div PerMin + 1 ELSE 61

Moves(c, to) == call' = [call EXCEPT ![c] = to]

LimitInit ==
    /\ clock = 0
    /\ buckets = << >>
    /\ call = [c \in Call |-> Idle]
    /\ promise = [k \in Key |-> 0]

-----------------------------------------------------------------------------
(* check, step by step.                                                     *)

\* The clock is read, and a big dict is about to be walked.
Enter(c, k) ==
    /\ call[c] = Idle
    /\ LET size == Cardinality(DOMAIN buckets)
       IN  Moves(c, IF size > SweepAbove
                    THEN [at |-> "listing", key |-> k, now |-> clock, size |-> size]
                    ELSE [at |-> "reading", key |-> k, now |-> clock])
    /\ UNCHANGED <<clock, buckets, promise>>

\* The comprehension over items(): a dict whose size changes under it raises.
ListIdle(c) ==
    /\ call[c].at = "listing"
    /\ Moves(c, IF Cardinality(DOMAIN buckets) # call[c].size
                THEN [at |-> "failed"]
                ELSE [at |-> "evicting", key |-> call[c].key, now |-> call[c].now,
                      doomed |-> {k \in DOMAIN buckets :
                                    buckets[k].last < call[c].now - EvictAfter}])
    /\ UNCHANGED <<clock, buckets, promise>>

\* One `del` of the sweep: a key that another sweep has deleted raises.
Evict(c, k) ==
    /\ call[c].at = "evicting"
    /\ k \in call[c].doomed
    /\ IF k \in DOMAIN buckets
       THEN /\ buckets' = Restrict(buckets, DOMAIN buckets \ {k})
            /\ Moves(c, [call[c] EXCEPT !.doomed = @ \ {k}])
       ELSE /\ Moves(c, [at |-> "failed"])
            /\ UNCHANGED buckets
    /\ UNCHANGED <<clock, promise>>

Read(c) ==
    /\ \/ call[c].at = "reading"
       \/ call[c].at = "evicting" /\ call[c].doomed = {}
    /\ LET k == call[c].key
           now == call[c].now
       IN  Moves(c, [at |-> "writing", key |-> k, now |-> now,
                     tokens |-> Refilled(Stored(k, now), now)])
    /\ UNCHANGED <<clock, buckets, promise>>

\* Lines 55-60 and the route's answer.
WriteBack(c) ==
    /\ call[c].at = "writing"
    /\ LET k == call[c].key
           have == call[c].tokens
           now == call[c].now
           left == IF have >= 60 THEN have - 60 ELSE have
       IN  /\ buckets' = [q \in DOMAIN buckets \cup {k} |->
                           IF q = k THEN [tokens |-> left, last |-> now] ELSE buckets[q]]
           /\ promise' = [promise EXCEPT ![k] =
                            IF have >= 60 THEN 0 ELSE now + RetryAfter(have)]
           /\ Moves(c, [at |-> "answered", allowed |-> have >= 60])
    /\ UNCHANGED clock

Finish(c) ==
    /\ call[c].at \in {"answered", "failed"}
    /\ Moves(c, Idle)
    /\ UNCHANGED <<clock, buckets, promise>>

\* A second.  No thread rests in a call for as long as the idle are kept.
Tick ==
    /\ clock < MaxClock
    /\ \A c \in Call : Busy(c) => clock - call[c].now < MaxStall
    /\ clock' = clock + 1
    /\ UNCHANGED <<buckets, call, promise>>

CallStep(c) ==
    \/ \E r \in Request : Enter(c, client_key(r))
    \/ ListIdle(c)
    \/ \E k \in Key : Evict(c, k)
    \/ Read(c)
    \/ WriteBack(c)
    \/ Finish(c)

LimitNext == Tick \/ \E c \in Call : CallStep(c)

LimitSpec == LimitInit /\ [][LimitNext]_limitVars

-----------------------------------------------------------------------------
(* Properties.                                                              *)

\* A caller who waits as long as the 429 told it to, and whose key took no token
\* meanwhile, is served: however calls overlap, whatever is swept.
RetryIsEnough ==
    \A k \in Key :
      promise[k] # 0 /\ clock >= promise[k] => Refilled(Stored(k, clock), clock) >= 60

\* What a call will be told, and leave in the bucket, as things are.
Have(c) ==
    IF call[c].at = "writing" THEN call[c].tokens
    ELSE Refilled(Stored(call[c].key, call[c].now), call[c].now)
Verdict(c) ==
    CASE Busy(c) -> IF Have(c) >= 60 THEN "allowed" ELSE "refused"
      [] call[c].at = "answered" -> IF call[c].allowed THEN "allowed" ELSE "refused"
      [] OTHER -> "none"
Left(c) ==
    [tokens |-> IF Have(c) >= 60 THEN Have(c) - 60 ELSE Have(c), last |-> call[c].now]
Level(k) ==
    IF \E c \in Call : Busy(c) /\ call[c].key = k
    THEN Refilled(Left(CHOOSE c \in Call : Busy(c) /\ call[c].key = k), clock)
    ELSE Refilled(Stored(k, clock), clock)

Levels == [k \in Key |-> Level(k)]
Verdicts == [c \in Call |-> Verdict(c)]
Bucket == INSTANCE TokenBucket WITH level <- Levels, verdict <- Verdicts

\* No two calls of one key overlap, no call has failed in its sweep, and what a
\* sweep is about to delete has not been used since it was listed.
Apart ==
    /\ \A c, d \in Call : c # d /\ Busy(c) /\ Busy(d) => call[c].key # call[d].key
    /\ \A c \in Call : call[c].at # "failed"
    /\ \A c \in Call : call[c].at = "evicting" =>
         \A k \in call[c].doomed :
           k \in DOMAIN buckets /\ buckets[k].last < call[c].now - EvictAfter

\* While the calls of a key come one after the other and sweeps are let finish, the
\* limiter is a bucket that never forgets: it is as if each call took its token at
\* the time it read the clock, and forgetting idle buckets gives nobody a token.
ChargesLikeABucket ==
    Bucket!Init /\ [][Apart /\ Apart' => Bucket!Next]_<<Levels, Verdicts>>

\* What "_evict_idle" is written for, and what two sweeps at once do not keep: it
\* never fails the request it runs in.
SweepNeverFails == \A c \in Call : call[c].at # "failed"

\* "Consume one token": not so for calls that overlap, which read the same bucket.
AlwaysABucket ==
    [][SweepNeverFails /\ SweepNeverFails' => Bucket!Next]_<<Levels, Verdicts>>
=============================================================================
