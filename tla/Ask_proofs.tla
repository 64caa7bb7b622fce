----------------------------- MODULE Ask_proofs -----------------------------
(***************************************************************************)
(* Proofs about what lies in front of a question and what becomes of it:    *)
(* the rate limiter, for any callers, threads and allowance; and the reply, *)
(* for any texts, windows and answers: the chunks, the defused passages,    *)
(* the findings and the trace.  What Prompt defines over letters is         *)
(* recursive; each lemma about it gives what it yields in closed form.      *)
(***************************************************************************)
EXTENDS RateLimit, Reply, FiniteSetTheorems, WellFoundedInduction, TLAPS

-----------------------------------------------------------------------------
(* The limiter's state.                                                     *)

\* Where a call can be.
Stage ==
    {Idle} \cup [at : {"listing"}, key : Key, now : Nat, size : {Cardinality(S) : S \in SUBSET Key}]
           \cup [at : {"evicting"}, key : Key, now : Nat, doomed : SUBSET Key]
           \cup [at : {"reading"}, key : Key, now : Nat]
           \cup [at : {"writing"}, key : Key, now : Nat, tokens : Int]
           \cup [at : {"answered"}, allowed : BOOLEAN]
           \cup [at : {"failed"}]

LimitTypeOK ==
    /\ clock \in Nat
    /\ DOMAIN buckets \subseteq Key
    /\ \A k \in DOMAIN buckets : buckets[k] \in [tokens : Int, last : Nat]
    /\ call \in [Call -> Stage]
    /\ promise \in [Key -> Nat]

\* A bucket was last written at a time that has been, by a thread that had not rested
\* for long: it is not above full, and below empty by what refills while one rests.
Bounded(tokens, last) ==
    /\ last <= clock
    /\ tokens <= Full
    /\ tokens + (clock - last) * PerMin >= 0

BucketsOK ==
    \A k \in DOMAIN buckets :
      /\ Bounded(buckets[k].tokens, buckets[k].last)
      /\ buckets[k].tokens + MaxStall * PerMin >= 0

CallsOK ==
    \A c \in Call :
      /\ Busy(c) => call[c].now <= clock /\ clock - call[c].now <= MaxStall
      /\ call[c].at = "writing" => Bounded(call[c].tokens, call[c].now)

\* By the time a caller was told to come back there is a token in its bucket.
PromisesOK ==
    \A k \in DOMAIN buckets :
      promise[k] # 0 => buckets[k].tokens + (promise[k] - buckets[k].last) * PerMin >= 60

LimitOK == LimitTypeOK /\ BucketsOK /\ CallsOK /\ PromisesOK

-----------------------------------------------------------------------------
(* Arithmetic.                                                              *)

\* More time puts more tokens back.
LEMMA Faster ==
    ASSUME NEW a \in Int, NEW b \in Int, a <= b
    PROVE  a * PerMin \in Int /\ b * PerMin \in Int /\ a * PerMin <= b * PerMin
<1>1. PerMin \in Nat
  BY LimitAssumption
<1>2. a * PerMin \in Int /\ b * PerMin \in Int
  BY <1>1
<1>3. a * PerMin <= b * PerMin
  BY <1>1
<1> QED
  BY <1>2, <1>3

\* What Retry-After promises: the wait fills the bucket to a token.
LEMMA WaitIsEnough ==
    ASSUME NEW tokens \in Int, tokens < 60
    PROVE  RetryAfter(tokens) \in Nat \ {0} /\ tokens + RetryAfter(tokens) * PerMin >= 60
<1> DEFINE q == (60 - tokens) \div PerMin
<1>1. PerMin \in Nat /\ PerMin > 0 /\ 60 - tokens \in Nat
  BY LimitAssumption
<1>2. q \in Nat /\ 60 - tokens = PerMin * q + ((60 - tokens) % PerMin)
      /\ (60 - tokens) % PerMin \in 0..(PerMin - 1)
  BY <1>1
<1>3. RetryAfter(tokens) = q + 1
  BY <1>1 DEF RetryAfter
<1> HIDE DEF q
<1>4. (q + 1) * PerMin = PerMin * q + PerMin
  BY <1>1, <1>2
<1>5. PerMin * q \in Int /\ (60 - tokens) % PerMin < PerMin
  BY <1>1, <1>2
<1>6. tokens + (q + 1) * PerMin >= 60
  BY <1>1, <1>2, <1>4, <1>5
<1> QED
  BY <1>2, <1>3, <1>6

\* A refilled bucket: between what it would hold without a ceiling and full.
LEMMA RefilledIs ==
    ASSUME NEW b \in [tokens : Int, last : Nat], NEW t \in Nat
    PROVE  /\ Full \in Nat /\ Full >= 60
           /\ (t - b.last) * PerMin \in Int
           /\ Refilled(b, t) \in Int /\ Refilled(b, t) <= Full
           /\ Refilled(b, t) = b.tokens + (t - b.last) * PerMin \/ Refilled(b, t) = Full
           /\ b.tokens + (t - b.last) * PerMin >= Full => Refilled(b, t) = Full
<1>1. Full \in Nat /\ Full >= 60 /\ PerMin \in Nat
  BY LimitAssumption DEF Full
<1>2. (t - b.last) * PerMin \in Int
  BY <1>1
<1> DEFINE d == (t - b.last) * PerMin
<1>3. b.tokens \in Int /\ d \in Int
  BY <1>2
<1>4. Refilled(b, t) = IF b.tokens + d < Full THEN b.tokens + d ELSE Full
  BY DEF Refilled
<1> HIDE DEF d
<1>5. /\ Refilled(b, t) \in Int /\ Refilled(b, t) <= Full
      /\ Refilled(b, t) = b.tokens + d \/ Refilled(b, t) = Full
      /\ b.tokens + d >= Full => Refilled(b, t) = Full
  BY <1>1, <1>3, <1>4
<1> QED
  BY <1>1, <1>3, <1>5 DEF d

\* A key that is not there counts as one with a full bucket.
LEMMA StoredIs ==
    ASSUME LimitTypeOK, NEW k, NEW t \in Nat
    PROVE  Stored(k, t) \in [tokens : Int, last : Nat]
BY LimitAssumption DEF Stored, LimitTypeOK, Full

LEMMA KeyOfRequest == \A r \in Request : client_key(r) \in Key
BY DEF Request, client_key, Key

-----------------------------------------------------------------------------
(* Every step keeps the limiter's state sound.                              *)

LEMMA StageFields ==
    ASSUME NEW x \in Stage
    PROVE  /\ x.at \in {"idle", "listing", "evicting", "reading", "writing", "answered", "failed"}
           /\ x.at = "idle" => x = Idle
           /\ x.at \notin {"idle", "answered", "failed"} => x.key \in Key /\ x.now \in Nat
           /\ x.at = "writing" => x.tokens \in Int
           /\ x.at = "evicting" => x \in [at : {"evicting"}, key : Key, now : Nat, doomed : SUBSET Key]
BY DEF Stage, Idle

\* A bounded bucket stays so as time passes.
LEMMA StaysBounded ==
    ASSUME NEW tokens \in Int, NEW last \in Nat, clock \in Nat, Bounded(tokens, last),
           clock' = clock + 1
    PROVE  Bounded(tokens, last)'
<1>1. (clock - last) * PerMin \in Int /\ (clock + 1 - last) * PerMin \in Int
      /\ (clock - last) * PerMin <= (clock + 1 - last) * PerMin
  BY Faster
<1>2. last <= clock + 1
  BY DEF Bounded
<1>3. tokens + (clock + 1 - last) * PerMin >= 0
  BY <1>1 DEF Bounded
<1> QED
  BY <1>2, <1>3 DEF Bounded, Full

\* What a thread reads is bounded too, as of its own time.
LEMMA ReadIsBounded ==
    ASSUME LimitOK, NEW k, NEW t \in Nat, t <= clock
    PROVE  Bounded(Refilled(Stored(k, t), t), t)
<1> DEFINE b == Stored(k, t)
           x == (t - b.last) * PerMin
           y == (clock - t) * PerMin
           z == (clock - b.last) * PerMin
<1>1. b \in [tokens : Int, last : Nat] /\ clock \in Nat /\ PerMin \in Nat
  BY StoredIs, LimitAssumption DEF LimitOK, LimitTypeOK
<1>2. y \in Int /\ y >= 0
  <2>1. 0 <= clock - t
    BY <1>1
  <2> QED
    BY <1>1, <2>1, Faster
<1>3. x + y = z /\ x \in Int
  BY <1>1
<1>4. b.tokens + z >= 0
  <2>1. CASE k \in DOMAIN buckets
    BY <2>1 DEF LimitOK, BucketsOK, Bounded, Stored
  <2>2. CASE k \notin DOMAIN buckets
    BY <1>1, <1>2, <2>2, LimitAssumption DEF Stored, Full
  <2> QED
    BY <2>1, <2>2
<1>5. /\ Refilled(b, t) \in Int /\ Refilled(b, t) <= Full /\ Full >= 60 /\ Full \in Nat
      /\ Refilled(b, t) = b.tokens + x \/ Refilled(b, t) = Full
  BY <1>1, RefilledIs
<1>6. b.tokens \in Int
  BY <1>1
<1> HIDE DEF b, x, y, z
<1>7. Refilled(b, t) + y >= 0
  BY <1>2, <1>3, <1>4, <1>5, <1>6
<1> QED
  BY <1>5, <1>7 DEF Bounded, y, b

\* A step of one call that leaves the rest alone.
LEMMA CallMoves ==
    ASSUME LimitOK, NEW c \in Call, NEW x \in Stage, Moves(c, x),
           UNCHANGED <<clock, buckets, promise>>,
           x.at \notin {"idle", "answered", "failed"} =>
             x.now <= clock /\ clock - x.now <= MaxStall,
           x.at = "writing" => Bounded(x.tokens, x.now)
    PROVE  LimitOK'
<1>1. call \in [Call -> Stage] /\ call' = [call EXCEPT ![c] = x]
  BY DEF LimitOK, LimitTypeOK, Moves
<1>2. call'[c] = x /\ \A d \in Call : d # c => call'[d] = call[d]
  BY <1>1
<1>3. LimitTypeOK'
  BY <1>1 DEF LimitOK, LimitTypeOK
<1>4. BucketsOK' /\ PromisesOK'
  BY DEF LimitOK, BucketsOK, PromisesOK, Bounded
<1>5. CallsOK'
  BY <1>2 DEF LimitOK, CallsOK, Busy, Bounded
<1> QED
  BY <1>3, <1>4, <1>5 DEF LimitOK

LEMMA LimitStep == LimitOK /\ [LimitNext]_limitVars => LimitOK'
<1> SUFFICES ASSUME LimitOK, [LimitNext]_limitVars PROVE LimitOK'
  OBVIOUS
<1>1. /\ clock \in Nat /\ MaxStall \in Nat /\ PerMin \in Nat
      /\ DOMAIN buckets \in SUBSET Key /\ call \in [Call -> Stage]
  BY LimitAssumption DEF LimitOK, LimitTypeOK
<1>2. CASE UNCHANGED limitVars
  BY <1>2 DEF limitVars, LimitOK, LimitTypeOK, BucketsOK, CallsOK, PromisesOK, Bounded, Busy
<1>3. CASE Tick
  <2>1. /\ clock' = clock + 1 /\ UNCHANGED <<buckets, call, promise>>
        /\ \A c \in Call : Busy(c) => clock - call[c].now < MaxStall
    BY <1>3 DEF Tick
  <2>2. LimitTypeOK' /\ PromisesOK'
    BY <1>1, <2>1 DEF LimitOK, LimitTypeOK, PromisesOK
  <2>3. BucketsOK'
    <3>1. ASSUME NEW k \in DOMAIN buckets
          PROVE  Bounded(buckets[k].tokens, buckets[k].last)'
      <4>1. buckets[k].tokens \in Int /\ buckets[k].last \in Nat
        BY DEF LimitOK, LimitTypeOK
      <4>2. PICK n \in Int, t \in Nat : n = buckets[k].tokens /\ t = buckets[k].last
        BY <4>1
      <4>3. Bounded(n, t)'
        BY <1>1, <2>1, <4>2, StaysBounded DEF LimitOK, BucketsOK
      <4> QED
        BY <2>1, <4>2, <4>3 DEF Bounded
    <3> QED
      BY <2>1, <3>1 DEF LimitOK, BucketsOK, Bounded
  <2>4. CallsOK'
    <3>1. ASSUME NEW c \in Call, Busy(c)
          PROVE  call[c].now <= clock + 1 /\ (clock + 1) - call[c].now <= MaxStall
      <4>1. call[c].now \in Nat
        BY <1>1, <3>1, StageFields DEF Busy
      <4> QED
        BY <1>1, <2>1, <3>1, <4>1 DEF LimitOK, CallsOK
    <3>2. ASSUME NEW c \in Call, call[c].at = "writing"
          PROVE  Bounded(call[c].tokens, call[c].now)'
      <4>1. call[c].now \in Nat /\ call[c].tokens \in Int
        BY <1>1, <3>2, StageFields
      <4>2. PICK n \in Int, t \in Nat : n = call[c].tokens /\ t = call[c].now
        BY <4>1
      <4>3. Bounded(n, t)'
        BY <1>1, <2>1, <3>2, <4>2, StaysBounded DEF LimitOK, CallsOK
      <4> QED
        BY <2>1, <4>2, <4>3 DEF Bounded
    <3>3. ASSUME NEW c \in Call, Busy(c)'
          PROVE  call'[c].now <= clock' /\ clock' - call'[c].now <= MaxStall
      <4>1. Busy(c)
        BY <2>1, <3>3 DEF Busy
      <4>2. call[c].now <= clock + 1 /\ (clock + 1) - call[c].now <= MaxStall
        BY <3>1, <4>1
      <4> QED
        BY <2>1, <4>2
    <3>4. ASSUME NEW c \in Call, call'[c].at = "writing"
          PROVE  Bounded(call[c].tokens, call[c].now)'
      BY <2>1, <3>2, <3>4
    <3> QED
      BY <3>3, <3>4 DEF CallsOK
  <2> QED
    BY <2>2, <2>3, <2>4 DEF LimitOK
<1>4. ASSUME NEW c \in Call, NEW r \in Request, Enter(c, client_key(r)) PROVE LimitOK'
  <2>1. PICK k \in Key : k = client_key(r)
    BY KeyOfRequest
  <2> DEFINE size == Cardinality(DOMAIN buckets)
             x == [at |-> "listing", key |-> k, now |-> clock, size |-> size]
             y == [at |-> "reading", key |-> k, now |-> clock]
  <2>2. /\ Moves(c, x) \/ Moves(c, y)
        /\ UNCHANGED <<clock, buckets, promise>>
    BY <1>4, <2>1 DEF Enter
  <2>3. x \in Stage /\ y \in Stage
    BY <1>1 DEF Stage
  <2>4. CASE Moves(c, x)
    <3>1. x.at = "listing" /\ x.now = clock
      OBVIOUS
    <3> HIDE DEF x
    <3> QED
      BY <1>1, <2>2, <2>3, <2>4, <3>1, CallMoves
  <2>5. CASE Moves(c, y)
    <3>1. y.at = "reading" /\ y.now = clock
      OBVIOUS
    <3> HIDE DEF y
    <3> QED
      BY <1>1, <2>2, <2>3, <2>5, <3>1, CallMoves
  <2> QED
    BY <2>2, <2>4, <2>5
<1>5. ASSUME NEW c \in Call, ListIdle(c) PROVE LimitOK'
  <2>1. /\ call[c].at = "listing" /\ call[c].key \in Key /\ call[c].now \in Nat
        /\ call[c].now <= clock /\ clock - call[c].now <= MaxStall
    BY <1>1, <1>5, StageFields DEF ListIdle, LimitOK, CallsOK, Busy
  <2> DEFINE x == [at |-> "evicting", key |-> call[c].key, now |-> call[c].now,
                   doomed |-> {k \in DOMAIN buckets :
                                 buckets[k].last < call[c].now - EvictAfter}]
             y == [at |-> "failed"]
  <2>2. /\ Moves(c, x) \/ Moves(c, y)
        /\ UNCHANGED <<clock, buckets, promise>>
    BY <1>5 DEF ListIdle
  <2>3. x \in Stage /\ y \in Stage
    BY <1>1, <2>1 DEF Stage
  <2>4. CASE Moves(c, x)
    <3>1. x.at = "evicting" /\ x.now = call[c].now
      OBVIOUS
    <3> HIDE DEF x
    <3> QED
      BY <2>1, <2>2, <2>3, <2>4, <3>1, CallMoves
  <2>5. CASE Moves(c, y)
    BY <2>2, <2>3, <2>5, CallMoves
  <2> QED
    BY <2>2, <2>4, <2>5
<1>6. ASSUME NEW c \in Call, NEW k \in Key, Evict(c, k) PROVE LimitOK'
  <2>1. /\ call[c].at = "evicting" /\ call[c].now \in Nat
        /\ call[c] \in [at : {"evicting"}, key : Key, now : Nat, doomed : SUBSET Key]
        /\ call[c].now <= clock /\ clock - call[c].now <= MaxStall
    BY <1>1, <1>6, StageFields DEF Evict, LimitOK, CallsOK, Busy
  <2>2. CASE k \in DOMAIN buckets
    <3> DEFINE x == [call[c] EXCEPT !.doomed = @ \ {k}]
    <3>1. /\ buckets' = [q \in DOMAIN buckets \ {k} |-> buckets[q]]
          /\ Moves(c, x) /\ UNCHANGED <<clock, promise>>
      BY <1>6, <2>2 DEF Evict, Restrict
    <3>2. x \in Stage /\ x.at = "evicting" /\ x.now = call[c].now
      BY <2>1 DEF Stage
    <3> HIDE DEF x
    <3>3. call' = [call EXCEPT ![c] = x]
      BY <3>1 DEF Moves
    <3>4. LimitTypeOK'
      BY <1>1, <3>1, <3>2, <3>3 DEF LimitOK, LimitTypeOK
    <3>5. BucketsOK' /\ PromisesOK'
      BY <3>1 DEF LimitOK, BucketsOK, PromisesOK, Bounded
    <3>6. CallsOK'
      BY <1>1, <2>1, <3>1, <3>2, <3>3 DEF LimitOK, CallsOK, Busy, Bounded
    <3> QED
      BY <3>4, <3>5, <3>6 DEF LimitOK
  <2>3. CASE k \notin DOMAIN buckets
    <3> DEFINE y == [at |-> "failed"]
    <3>1. Moves(c, y) /\ UNCHANGED <<clock, buckets, promise>> /\ y \in Stage
      BY <1>6, <2>3 DEF Evict, Stage
    <3> QED
      BY <3>1, CallMoves
  <2> QED
    BY <2>2, <2>3
<1>7. ASSUME NEW c \in Call, Read(c) PROVE LimitOK'
  <2>1. /\ call[c].key \in Key /\ call[c].now \in Nat
        /\ call[c].now <= clock /\ clock - call[c].now <= MaxStall
    BY <1>1, <1>7, StageFields DEF Read, LimitOK, CallsOK, Busy
  <2> DEFINE k == call[c].key
             t == call[c].now
             n == Refilled(Stored(k, t), t)
             x == [at |-> "writing", key |-> k, now |-> t, tokens |-> n]
  <2>2. Moves(c, x) /\ UNCHANGED <<clock, buckets, promise>>
    BY <1>7 DEF Read
  <2>3. n \in Int /\ Bounded(n, t)
    BY <2>1, StoredIs, RefilledIs, ReadIsBounded DEF LimitOK
  <2>4. x \in Stage /\ x.at = "writing" /\ x.now = t /\ x.tokens = n
    <3> HIDE DEF n
    <3> QED
      BY <2>1, <2>3 DEF Stage
  <2> HIDE DEF x
  <2> QED
    BY <2>1, <2>2, <2>3, <2>4, CallMoves
<1>8. ASSUME NEW c \in Call, WriteBack(c) PROVE LimitOK'
  <2>1. /\ call[c].at = "writing"
        /\ call[c].key \in Key /\ call[c].now \in Nat /\ call[c].tokens \in Int
        /\ call[c].now <= clock /\ clock - call[c].now <= MaxStall
        /\ Bounded(call[c].tokens, call[c].now)
    BY <1>1, <1>8, StageFields DEF WriteBack, LimitOK, CallsOK, Busy
  <2>2. PICK k \in Key, t \in Nat, have \in Int :
          k = call[c].key /\ t = call[c].now /\ have = call[c].tokens
    BY <2>1
  <2> DEFINE left == IF have >= 60 THEN have - 60 ELSE have
             b == [tokens |-> left, last |-> t]
             x == [at |-> "answered", allowed |-> have >= 60]
             due == IF have >= 60 THEN 0 ELSE t + RetryAfter(have)
  <2>3. /\ buckets' = [q \in DOMAIN buckets \cup {k} |-> IF q = k THEN b ELSE buckets[q]]
        /\ promise' = [promise EXCEPT ![k] = due]
        /\ Moves(c, x) /\ clock' = clock
    BY <1>8, <2>2 DEF WriteBack
  <2>4. left \in Int /\ left <= have /\ (have >= 60 => left >= 0) /\ (have < 60 => left = have)
    OBVIOUS
  <2>5. (clock - t) * PerMin \in Int /\ (clock - t) * PerMin >= 0
        /\ (clock - t) * PerMin <= MaxStall * PerMin
    <3>1. clock - t \in Int /\ 0 <= clock - t /\ clock - t <= MaxStall
      BY <1>1, <2>1, <2>2
    <3>2. 0 * PerMin <= (clock - t) * PerMin
      BY <3>1, Faster
    <3> QED
      BY <1>1, <3>1, <3>2, Faster
  <2>6. Bounded(left, t) /\ left + MaxStall * PerMin >= 0
    <3> DEFINE d == (clock - t) * PerMin
               m == MaxStall * PerMin
    <3>1. d \in Int /\ m \in Int /\ d >= 0 /\ d <= m
      BY <1>1, <2>5
    <3>2. have + d >= 0 /\ t <= clock /\ have <= Full /\ Full \in Nat
      BY <2>1, <2>2, LimitAssumption DEF Bounded, Full
    <3> HIDE DEF d, m, left
    <3>3. left <= Full /\ left + d >= 0 /\ left + m >= 0
      BY <2>4, <3>1, <3>2
    <3> QED
      BY <3>2, <3>3 DEF Bounded, d, m
  <2>7. due \in Nat /\ (due # 0 => left + (due - t) * PerMin >= 60)
    <3>1. CASE have >= 60
      BY <3>1
    <3>2. CASE have < 60
      <4>1. RetryAfter(have) \in Nat /\ have + RetryAfter(have) * PerMin >= 60
        BY <3>2, WaitIsEnough
      <4>2. due = t + RetryAfter(have) /\ left = have
        BY <3>2
      <4>3. due - t = RetryAfter(have) /\ due \in Nat
        BY <4>1, <4>2
      <4> QED
        BY <4>1, <4>2, <4>3
    <3> QED
      BY <3>1, <3>2
  <2>8. x \in Stage /\ x.at = "answered"
    BY DEF Stage
  <2> HIDE DEF left, x, due
  <2>9. call' = [call EXCEPT ![c] = x]
    BY <2>3 DEF Moves
  <2>10. LimitTypeOK'
    BY <1>1, <2>3, <2>4, <2>7, <2>8, <2>9 DEF LimitOK, LimitTypeOK
  <2>11. BucketsOK'
    BY <2>3, <2>6 DEF LimitOK, BucketsOK, Bounded
  <2>12. CallsOK'
    BY <1>1, <2>3, <2>8, <2>9 DEF LimitOK, CallsOK, Busy, Bounded
  <2>13. PromisesOK'
    <3>1. promise'[k] = due /\ \A q \in Key : q # k => promise'[q] = promise[q]
      BY <2>3 DEF LimitOK, LimitTypeOK
    <3>2. buckets'[k] = b /\ \A q \in DOMAIN buckets : q # k => buckets'[q] = buckets[q]
      BY <2>3
    <3>3. DOMAIN buckets' = {k} \cup DOMAIN buckets
      BY <2>3
    <3> QED
      BY <1>1, <2>7, <3>1, <3>2, <3>3 DEF LimitOK, PromisesOK
  <2> QED
    BY <2>10, <2>11, <2>12, <2>13 DEF LimitOK
<1>9. ASSUME NEW c \in Call, Finish(c) PROVE LimitOK'
  <2>1. Moves(c, Idle) /\ UNCHANGED <<clock, buckets, promise>>
    BY <1>9 DEF Finish
  <2>2. Idle \in Stage /\ Idle.at = "idle"
    BY DEF Stage, Idle
  <2> QED
    BY <2>1, <2>2, CallMoves
<1> QED
  BY <1>2, <1>3, <1>4, <1>5, <1>6, <1>7, <1>8, <1>9 DEF LimitNext, CallStep

LEMMA LimitStarts == LimitInit => LimitOK
<1> SUFFICES ASSUME LimitInit PROVE LimitOK
  OBVIOUS
<1>1. DOMAIN buckets = {}
  BY DEF LimitInit
<1>2. \A c \in Call : call[c].at = "idle"
  BY DEF LimitInit, Idle
<1> QED
  BY <1>1, <1>2 DEF LimitInit, LimitOK, LimitTypeOK, BucketsOK, CallsOK, PromisesOK, Busy, Stage

\* A caller who waits as long as the refusal told it to is served: whatever is swept
\* and however calls overlap, unless its key took a token meanwhile.
THEOREM WaitingIsEnough == LimitSpec => []RetryIsEnough
<1>1. ASSUME LimitOK PROVE RetryIsEnough
  <2> SUFFICES ASSUME NEW k \in Key, promise[k] # 0, clock >= promise[k]
               PROVE  Refilled(Stored(k, clock), clock) >= 60
    BY DEF RetryIsEnough
  <2>1. clock \in Nat /\ promise[k] \in Nat
    BY <1>1 DEF LimitOK, LimitTypeOK
  <2> DEFINE b == Stored(k, clock)
             x == (clock - b.last) * PerMin
             y == (promise[k] - b.last) * PerMin
  <2>2. b \in [tokens : Int, last : Nat]
    BY <1>1, <2>1, StoredIs DEF LimitOK
  <2>3. /\ Full \in Nat /\ Full >= 60 /\ x \in Int
        /\ Refilled(b, clock) = b.tokens + x \/ Refilled(b, clock) = Full
        /\ b.tokens + x >= Full => Refilled(b, clock) = Full
    BY <2>1, <2>2, RefilledIs
  <2>4. y \in Int /\ y <= x
    BY <2>1, <2>2, Faster
  <2>5. CASE k \in DOMAIN buckets
    <3>1. b.tokens + y >= 60
      BY <1>1, <2>5 DEF LimitOK, PromisesOK, Stored
    <3>2. b.tokens \in Int
      BY <2>2
    <3> HIDE DEF b, x, y
    <3> QED
      BY <2>3, <2>4, <3>1, <3>2 DEF b
  <2>6. CASE k \notin DOMAIN buckets
    <3>1. b.tokens = Full /\ x = 0
      BY <2>1, <2>6, LimitAssumption DEF Stored
    <3> HIDE DEF b, x
    <3> QED
      BY <2>3, <3>1 DEF b
  <2> QED
    BY <2>5, <2>6
<1> QED
  BY <1>1, LimitStarts, LimitStep, PTL DEF LimitSpec

-----------------------------------------------------------------------------
(* The limiter is a bucket that never forgets.                              *)

\* Of calls that keep apart a key has one at most, whose token is out of the level.
LevelsSaid ==
    /\ \A c \in Call : Busy(c) => Level(call[c].key) = Refilled(Left(c), clock)
    /\ \A k \in Key : (\A c \in Call : Busy(c) => call[c].key # k) =>
         Level(k) = Refilled(Stored(k, clock), clock)

LEMMA LevelsAre == Apart => LevelsSaid
<1> SUFFICES ASSUME Apart PROVE LevelsSaid
  OBVIOUS
<1>1. ASSUME NEW c \in Call, Busy(c)
      PROVE  Level(call[c].key) = Refilled(Left(c), clock)
  <2> DEFINE P(d) == d \in Call /\ Busy(d) /\ call[d].key = call[c].key
  <2>1. \A d : P(d) => d = c
    BY <1>1 DEF Apart
  <2>2. (CHOOSE d \in Call : Busy(d) /\ call[d].key = call[c].key) = c
    BY <1>1, <2>1
  <2> QED
    BY <1>1, <2>2 DEF Level
<1>2. ASSUME NEW k \in Key, \A c \in Call : Busy(c) => call[c].key # k
      PROVE  Level(k) = Refilled(Stored(k, clock), clock)
  BY <1>2 DEF Level
<1> QED
  BY <1>1, <1>2 DEF LevelsSaid

\* What calls have and leave, and the levels, are numbers of tokens.
NumbersOK ==
    /\ \A c \in Call : Busy(c) =>
         /\ Have(c) \in Int /\ Have(c) <= Full
         /\ Left(c) \in [tokens : Int, last : Nat]
    /\ \A k \in Key : Level(k) \in Int /\ Level(k) <= Full

LEMMA NumbersAre == LimitOK /\ Apart => NumbersOK
<1> SUFFICES ASSUME LimitOK, Apart PROVE NumbersOK
  OBVIOUS
<1>1. call \in [Call -> Stage] /\ clock \in Nat
  BY DEF LimitOK, LimitTypeOK
<1>2. ASSUME NEW c \in Call, Busy(c)
      PROVE  /\ Have(c) \in Int /\ Have(c) <= Full
             /\ Left(c) \in [tokens : Int, last : Nat]
  <2>1. call[c].now \in Nat /\ (call[c].at = "writing" => call[c].tokens \in Int)
    BY <1>1, <1>2, StageFields DEF Busy
  <2>2. Have(c) \in Int /\ Have(c) <= Full
    <3>1. CASE call[c].at = "writing"
      BY <2>1, <3>1 DEF Have, LimitOK, CallsOK, Bounded
    <3>2. CASE call[c].at # "writing"
      BY <2>1, <3>2, StoredIs, RefilledIs DEF Have, LimitOK
    <3> QED
      BY <3>1, <3>2
  <2> QED
    BY <2>1, <2>2 DEF Left
<1>3. ASSUME NEW k \in Key PROVE Level(k) \in Int /\ Level(k) <= Full
  <2>1. CASE \E c \in Call : Busy(c) /\ call[c].key = k
    <3>1. PICK c \in Call : Busy(c) /\ call[c].key = k
      BY <2>1
    <3>2. Level(k) = Refilled(Left(c), clock)
      BY <3>1, LevelsAre DEF LevelsSaid
    <3> QED
      BY <1>1, <1>2, <3>1, <3>2, RefilledIs
  <2>2. CASE ~ \E c \in Call : Busy(c) /\ call[c].key = k
    <3>1. Level(k) = Refilled(Stored(k, clock), clock)
      BY <2>2, LevelsAre DEF LevelsSaid
    <3> QED
      BY <1>1, <3>1, StoredIs, RefilledIs DEF LimitOK
  <2> QED
    BY <2>1, <2>2
<1> QED
  BY <1>2, <1>3 DEF NumbersOK

\* A key's level is the same after a step of no time that changes neither who calls
\* with the key, nor what they leave, nor the bucket of a key nobody calls with.
LEMMA SameLevel ==
    ASSUME Apart, Apart', clock' = clock, NEW k \in Key,
           \A c \in Call : (Busy(c) /\ call[c].key = k)' <=> (Busy(c) /\ call[c].key = k),
           \A c \in Call : Busy(c) /\ call[c].key = k => Left(c)' = Left(c),
           (\A c \in Call : ~(Busy(c) /\ call[c].key = k)) =>
             Refilled(Stored(k, clock), clock)' = Refilled(Stored(k, clock), clock)
    PROVE  Level(k)' = Level(k)
<1>1. LevelsSaid /\ LevelsSaid'
  BY LevelsAre, PTL
<1>2. CASE \E c \in Call : Busy(c) /\ call[c].key = k
  <2>1. PICK c \in Call : Busy(c) /\ call[c].key = k
    BY <1>2
  <2>2. (Busy(c) /\ call[c].key = k)'
    BY <2>1
  <2>3. Level(k) = Refilled(Left(c), clock)
    BY <1>1, <2>1 DEF LevelsSaid
  <2>4. Level(k)' = Refilled(Left(c), clock)'
    BY <1>1, <2>2 DEF LevelsSaid
  <2>5. Left(c)' = Left(c)
    BY <2>1
  <2> QED
    BY <2>3, <2>4, <2>5
<1>3. CASE ~ \E c \in Call : Busy(c) /\ call[c].key = k
  <2>1. Level(k) = Refilled(Stored(k, clock), clock)
    BY <1>1, <1>3 DEF LevelsSaid
  <2>2. Level(k)' = Refilled(Stored(k, clock), clock)'
    BY <1>1, <1>3 DEF LevelsSaid
  <2> QED
    BY <1>3, <2>1, <2>2
<1> QED
  BY <1>2, <1>3

\* A call on its way will be told what it has is worth; another was told, or is none.
VerdictsSaid ==
    \A c \in Call :
      /\ Busy(c) => Verdict(c) = IF Have(c) >= 60 THEN "allowed" ELSE "refused"
      /\ ~Busy(c) => Verdict(c) = IF call[c].at # "answered" THEN "none"
                                  ELSE IF call[c].allowed THEN "allowed" ELSE "refused"

LEMMA VerdictsAre == VerdictsSaid
<1> SUFFICES ASSUME NEW c \in Call
             PROVE  /\ Busy(c) => Verdict(c) = IF Have(c) >= 60 THEN "allowed" ELSE "refused"
                    /\ ~Busy(c) => Verdict(c) = IF call[c].at # "answered" THEN "none"
                                   ELSE IF call[c].allowed THEN "allowed" ELSE "refused"
  BY DEF VerdictsSaid
<1>1. CASE Busy(c)
  <2>1. call[c].at # "answered"
    BY <1>1 DEF Busy
  <2> QED
    BY <1>1, <2>1 DEF Verdict
<1>2. CASE ~Busy(c)
  BY <1>2 DEF Verdict
<1> QED
  BY <1>1, <1>2

\* A step that leaves every level and verdict as it is.
LEMMA NobodyCharged ==
    ASSUME Apart, Apart', clock' = clock, NEW c \in Call,
           \A d \in Call : d # c => call'[d] = call[d],
           Busy(c)', Busy(c), call'[c].key = call[c].key, call'[c].now = call[c].now,
           \A d \in Call : Busy(d) => Have(d)' = Have(d),
           \A k \in Key :
             Refilled(Stored(k, clock), clock)' = Refilled(Stored(k, clock), clock)
    PROVE  UNCHANGED <<Levels, Verdicts>>
<1>0. VerdictsSaid /\ VerdictsSaid'
  BY VerdictsAre, PTL
<1>1. ASSUME NEW d \in Call
      PROVE  /\ Busy(d)' <=> Busy(d)
             /\ Busy(d) => call'[d].key = call[d].key /\ call'[d].now = call[d].now
             /\ ~Busy(d) => call'[d] = call[d]
  BY DEF Busy
<1>2. ASSUME NEW d \in Call, Busy(d) PROVE Left(d)' = Left(d)
  BY <1>1, <1>2 DEF Left
<1>3. ASSUME NEW k \in Key PROVE Level(k)' = Level(k)
  <2>1. \A d \in Call : (Busy(d) /\ call[d].key = k)' <=> (Busy(d) /\ call[d].key = k)
    BY <1>1
  <2> QED
    BY <1>2, <2>1, SameLevel
<1>4. ASSUME NEW d \in Call PROVE Verdict(d)' = Verdict(d)
  BY <1>0, <1>1 DEF VerdictsSaid
<1> QED
  BY <1>3, <1>4 DEF Levels, Verdicts

\* A bucket that is forgotten would be full for any thread that may still look.
LEMMA ForgottenIsFull ==
    ASSUME LimitOK, NEW k \in DOMAIN buckets, NEW n \in Nat,
           buckets[k].last < n - EvictAfter, NEW t \in Nat, n - MaxStall <= t
    PROVE  Refilled(buckets[k], t) = Full /\ Refilled([tokens |-> Full, last |-> t], t) = Full
<1> DEFINE b == buckets[k]
<1>1. /\ b \in [tokens : Int, last : Nat] /\ {EvictAfter, MaxStall, PerMin} \subseteq Nat
      /\ b.tokens + MaxStall * PerMin >= 0
      /\ 60 * Burst <= (EvictAfter - 2 * MaxStall) * PerMin
  BY LimitAssumption DEF LimitOK, LimitTypeOK, BucketsOK
<1>2. /\ b.last \in Nat /\ b.tokens \in Int
      /\ EvictAfter - MaxStall \in Int /\ t - b.last \in Int
      /\ EvictAfter - MaxStall <= t - b.last
  BY <1>1
<1>3. (EvictAfter - MaxStall) * PerMin <= (t - b.last) * PerMin
  BY <1>2, Faster
<1>4. (EvictAfter - MaxStall) * PerMin = (EvictAfter - 2 * MaxStall) * PerMin + MaxStall * PerMin
  BY <1>1
<1> DEFINE x == (t - b.last) * PerMin
           y == (EvictAfter - 2 * MaxStall) * PerMin
           z == MaxStall * PerMin
<1>5. x \in Int /\ y \in Int /\ z \in Int
  BY <1>1, <1>2
<1>6. b.tokens + x >= Full
  <2>1. Full <= y /\ y + z <= x /\ b.tokens + z >= 0 /\ Full \in Nat
    BY <1>1, <1>3, <1>4, LimitAssumption DEF Full
  <2> HIDE DEF x, y, z, b
  <2> QED
    BY <1>2, <1>5, <2>1
<1>7. Refilled(b, t) = Full
  BY <1>1, <1>6, RefilledIs
<1>8. Refilled([tokens |-> Full, last |-> t], t) = Full
  <2> DEFINE f == [tokens |-> Full, last |-> t]
  <2>1. f \in [tokens : Int, last : Nat] /\ f.tokens = Full /\ (t - f.last) * PerMin = 0
    BY LimitAssumption DEF Full
  <2>2. f.tokens + (t - f.last) * PerMin >= Full
    BY <2>1, LimitAssumption DEF Full
  <2> HIDE DEF f
  <2>3. Refilled(f, t) = Full
    BY <2>1, <2>2, RefilledIs
  <2> QED
    BY <2>3 DEF f
<1> QED
  BY <1>7, <1>8

\* The sweep, the read and a request on its way charge nobody.
LEMMA SweepsForFree ==
    ASSUME LimitOK, LimitOK', Apart, Apart', NEW c \in Call,
           ListIdle(c) \/ (\E k \in Key : Evict(c, k)) \/ Read(c)
    PROVE  UNCHANGED <<Levels, Verdicts>>
<1>1. call \in [Call -> Stage] /\ clock \in Nat /\ MaxStall \in Nat
  BY LimitAssumption DEF LimitOK, LimitTypeOK
<1>2. Busy(c) /\ call[c].key \in Key /\ call[c].now \in Nat
  BY <1>1, StageFields DEF ListIdle, Evict, Read, Busy
<1>3. CASE ListIdle(c)
  <2> DEFINE x == [at |-> "evicting", key |-> call[c].key, now |-> call[c].now,
                   doomed |-> {k \in DOMAIN buckets :
                                 buckets[k].last < call[c].now - EvictAfter}]
  <2>1. /\ call[c].at = "listing" /\ UNCHANGED <<clock, buckets>>
        /\ call' = [call EXCEPT ![c] = x] \/ call' = [call EXCEPT ![c] = [at |-> "failed"]]
    BY <1>3 DEF ListIdle, Moves
  <2>2. call'[c].at # "failed"
    BY DEF Apart
  <2>3. call'[c] = x
    <3>1. call'[c] = x \/ call'[c] = [at |-> "failed"]
      BY <1>1, <2>1
    <3> QED
      BY <2>2, <3>1
  <2>4. call'[c].at = "evicting" /\ call'[c].key = call[c].key /\ call'[c].now = call[c].now
    BY <2>3
  <2> HIDE DEF x
  <2>5. \A d \in Call : d # c => call'[d] = call[d]
    BY <1>1, <2>1
  <2>6. Busy(c)'
    BY <2>4 DEF Busy
  <2>7. \A d \in Call : Have(d)' = Have(d)
    BY <2>1, <2>4, <2>5 DEF Have, Stored
  <2>8. \A k \in Key :
          Refilled(Stored(k, clock), clock)' = Refilled(Stored(k, clock), clock)
    BY <2>1 DEF Stored
  <2> QED
    BY <1>2, <2>1, <2>4, <2>5, <2>6, <2>7, <2>8, NobodyCharged
<1>4. ASSUME NEW k \in Key, Evict(c, k) PROVE UNCHANGED <<Levels, Verdicts>>
  <2>1. call[c] \in [at : {"evicting"}, key : Key, now : Nat, doomed : SUBSET Key]
    BY <1>1, <1>4, StageFields DEF Evict
  <2>2. /\ k \in DOMAIN buckets /\ buckets[k].last < call[c].now - EvictAfter
        /\ call[c].at = "evicting"
    BY <1>4 DEF Apart, Evict
  <2> DEFINE x == [call[c] EXCEPT !.doomed = @ \ {k}]
  <2>3. /\ buckets' = [q \in DOMAIN buckets \ {k} |-> buckets[q]]
        /\ call' = [call EXCEPT ![c] = x] /\ clock' = clock
    BY <1>4, <2>2 DEF Evict, Restrict, Moves
  <2>4. x.at = "evicting" /\ x.key = call[c].key /\ x.now = call[c].now
    BY <2>1
  <2> HIDE DEF x
  <2>5. /\ call'[c].at = "evicting" /\ call'[c].key = call[c].key
        /\ call'[c].now = call[c].now
        /\ \A d \in Call : d # c => call'[d] = call[d]
    BY <1>1, <2>3, <2>4
  <2>6. Busy(c)'
    BY <2>5 DEF Busy
  <2>7. ASSUME NEW t \in Nat, call[c].now - MaxStall <= t, NEW q
        PROVE  Refilled(Stored(q, t)', t) = Refilled(Stored(q, t), t)
    <3>1. CASE q = k
      <4>1. Stored(q, t) = buckets[k] /\ Stored(q, t)' = [tokens |-> Full, last |-> t]
        BY <2>2, <2>3, <3>1 DEF Stored
      <4> QED
        BY <1>2, <2>2, <2>7, <4>1, ForgottenIsFull
    <3>2. CASE q # k
      BY <2>3, <3>2 DEF Stored
    <3> QED
      BY <3>1, <3>2
  <2>8. ASSUME NEW d \in Call, Busy(d) PROVE Have(d)' = Have(d)
    <3>1. call'[d].at = call[d].at /\ call'[d].key = call[d].key /\ call'[d].now = call[d].now
      BY <2>2, <2>5
    <3>2. CASE call[d].at = "writing"
      <4>1. d # c
        BY <2>2, <3>2
      <4> QED
        BY <2>5, <3>2, <4>1 DEF Have
    <3>3. CASE call[d].at # "writing"
      <4>1. /\ call[d].now \in Nat /\ clock - call[d].now <= MaxStall
            /\ call[c].now <= clock
        BY <1>1, <1>2, <2>8, StageFields DEF Busy, LimitOK, CallsOK
      <4>2. PICK t \in Nat, q \in Key : t = call[d].now /\ q = call[d].key
        BY <1>1, <2>8, <4>1, StageFields DEF Busy
      <4>3. call[c].now - MaxStall <= t
        BY <1>1, <1>2, <4>1, <4>2
      <4>4. Refilled(Stored(q, t)', t) = Refilled(Stored(q, t), t)
        BY <2>7, <4>3
      <4>5. Have(d) = Refilled(Stored(q, t), t)
        BY <3>3, <4>2 DEF Have
      <4>6. Have(d)' = Refilled(Stored(q, t)', t)
        BY <3>1, <3>3, <4>2 DEF Have
      <4> QED
        BY <4>4, <4>5, <4>6
    <3> QED
      BY <3>2, <3>3
  <2>9. ASSUME NEW q \in Key
        PROVE  Refilled(Stored(q, clock), clock)' = Refilled(Stored(q, clock), clock)
    <3>1. call[c].now <= clock
      BY <1>2 DEF LimitOK, CallsOK
    <3>2. PICK t \in Nat : t = clock
      BY <1>1
    <3>3. call[c].now - MaxStall <= t
      BY <1>1, <1>2, <3>1, <3>2
    <3>4. Refilled(Stored(q, t)', t) = Refilled(Stored(q, t), t)
      BY <2>7, <3>3
    <3> QED
      BY <2>3, <3>2, <3>4 DEF Stored
  <2> QED
    BY <1>2, <2>3, <2>5, <2>6, <2>8, <2>9, NobodyCharged
<1>5. CASE Read(c)
  <2> DEFINE n == Refilled(Stored(call[c].key, call[c].now), call[c].now)
             x == [at |-> "writing", key |-> call[c].key, now |-> call[c].now, tokens |-> n]
  <2>1. /\ call' = [call EXCEPT ![c] = x] /\ UNCHANGED <<clock, buckets>>
        /\ call[c].at # "writing"
    BY <1>5 DEF Read, Moves
  <2>2. /\ call'[c].at = "writing" /\ call'[c].key = call[c].key
        /\ call'[c].now = call[c].now /\ call'[c].tokens = n
        /\ \A d \in Call : d # c => call'[d] = call[d]
    BY <1>1, <2>1
  <2>3. Busy(c)'
    BY <2>2 DEF Busy
  <2>4. \A d \in Call : Have(d)' = Have(d)
    BY <2>1, <2>2 DEF Have, Stored
  <2>5. \A k \in Key :
          Refilled(Stored(k, clock), clock)' = Refilled(Stored(k, clock), clock)
    BY <2>1 DEF Stored
  <2> QED
    BY <1>2, <2>1, <2>2, <2>3, <2>4, <2>5, NobodyCharged
<1> QED
  BY <1>3, <1>4, <1>5

\* What a call leaves has been taken from the level before it is written.
LEMMA WritesForFree ==
    ASSUME LimitOK, LimitOK', Apart, Apart', NEW c \in Call, WriteBack(c)
    PROVE  UNCHANGED <<Levels, Verdicts>>
<1>0. VerdictsSaid /\ VerdictsSaid' /\ LevelsSaid /\ LevelsSaid'
  BY VerdictsAre, LevelsAre, PTL
<1>1. call \in [Call -> Stage] /\ clock' = clock /\ call[c].at = "writing" /\ Busy(c)
  BY DEF LimitOK, LimitTypeOK, WriteBack, Busy
<1>2. PICK k \in Key, t \in Nat, have \in Int :
        k = call[c].key /\ t = call[c].now /\ have = call[c].tokens
  BY <1>1, StageFields
<1> DEFINE b == [tokens |-> IF have >= 60 THEN have - 60 ELSE have, last |-> t]
           x == [at |-> "answered", allowed |-> have >= 60]
<1>3. /\ buckets' = [q \in DOMAIN buckets \cup {k} |-> IF q = k THEN b ELSE buckets[q]]
      /\ call' = [call EXCEPT ![c] = x]
  BY <1>2 DEF WriteBack, Moves
<1>4. /\ call'[c].at = "answered" /\ call'[c].allowed = (have >= 60)
      /\ \A d \in Call : d # c => call'[d] = call[d]
  BY <1>1, <1>3
<1>5. ~Busy(c)' /\ \A d \in Call : d # c => (Busy(d)' <=> Busy(d))
  BY <1>4 DEF Busy
<1>6. \A d \in Call : d # c /\ Busy(d) => call[d].key # k
  BY <1>1, <1>2 DEF Apart
<1> HIDE DEF x
<1>7. ASSUME NEW q, q # k, NEW u PROVE Stored(q, u)' = Stored(q, u)
  BY <1>3, <1>7 DEF Stored
<1>8. ASSUME NEW d \in Call, d # c, Busy(d) PROVE Have(d)' = Have(d) /\ Left(d)' = Left(d)
  <2>1. call'[d] = call[d] /\ call[d].key # k
    BY <1>4, <1>6, <1>8
  <2>2. PICK q, u : q = call[d].key /\ u = call[d].now
    OBVIOUS
  <2>3. Stored(q, u)' = Stored(q, u)
    BY <1>7, <2>1, <2>2
  <2>4. Have(d)' = Have(d)
    BY <2>1, <2>2, <2>3 DEF Have
  <2> QED
    BY <2>1, <2>4 DEF Left
<1>9. Level(k)' = Level(k)
  <2>1. Level(k) = Refilled(Left(c), clock)
    BY <1>0, <1>1, <1>2 DEF LevelsSaid
  <2>2. Left(c) = b
    BY <1>1, <1>2 DEF Left, Have
  <2>3. \A d \in Call : Busy(d)' => call'[d].key # k
    BY <1>4, <1>5, <1>6
  <2>4. Level(k)' = Refilled(Stored(k, clock), clock)'
    BY <1>0, <2>3 DEF LevelsSaid
  <2>5. Stored(k, clock)' = b
    <3> HIDE DEF b
    <3> QED
      BY <1>3 DEF Stored
  <2> QED
    BY <1>1, <2>1, <2>2, <2>4, <2>5
<1>10. ASSUME NEW q \in Key, q # k PROVE Level(q)' = Level(q)
  <2>1. \A d \in Call : (Busy(d) /\ call[d].key = q)' <=> (Busy(d) /\ call[d].key = q)
    BY <1>2, <1>4, <1>5, <1>10
  <2>2. \A d \in Call : Busy(d) /\ call[d].key = q => Left(d)' = Left(d)
    BY <1>2, <1>8, <1>10
  <2>3. Refilled(Stored(q, clock), clock)' = Refilled(Stored(q, clock), clock)
    BY <1>1, <1>3, <1>10 DEF Stored
  <2> QED
    BY <1>1, <2>1, <2>2, <2>3, SameLevel
<1>11. Verdict(c)' = Verdict(c)
  <2>1. Have(c) = have
    BY <1>1, <1>2 DEF Have
  <2> QED
    BY <1>0, <1>1, <1>4, <1>5, <2>1 DEF VerdictsSaid
<1>12. ASSUME NEW d \in Call, d # c PROVE Verdict(d)' = Verdict(d)
  BY <1>0, <1>4, <1>5, <1>8, <1>12 DEF VerdictsSaid
<1> QED
  BY <1>9, <1>10, <1>11, <1>12 DEF Levels, Verdicts

\* A call that is over gives up its verdict and nothing else.
LEMMA FinishIsDone ==
    ASSUME LimitOK, LimitOK', Apart, Apart', NEW c \in Call, Finish(c)
    PROVE  Bucket!Done(c)
<1>0. VerdictsSaid /\ VerdictsSaid'
  BY VerdictsAre, PTL
<1>1. /\ call \in [Call -> Stage] /\ UNCHANGED <<clock, buckets>>
      /\ call[c].at = "answered" /\ call' = [call EXCEPT ![c] = Idle]
  BY DEF LimitOK, LimitTypeOK, Finish, Moves, Apart
<1>2. /\ call'[c].at = "idle" /\ \A d \in Call : d # c => call'[d] = call[d]
  BY <1>1 DEF Idle
<1>3. ~Busy(c) /\ ~Busy(c)' /\ \A d \in Call : d # c => (Busy(d)' <=> Busy(d))
  BY <1>1, <1>2 DEF Busy
<1>4. \A d \in Call : d # c => Have(d)' = Have(d) /\ Left(d)' = Left(d)
  BY <1>1, <1>2 DEF Have, Left, Stored
<1>5. ASSUME NEW k \in Key PROVE Level(k)' = Level(k)
  <2>1. \A d \in Call : (Busy(d) /\ call[d].key = k)' <=> (Busy(d) /\ call[d].key = k)
    BY <1>2, <1>3
  <2>2. \A d \in Call : Busy(d) /\ call[d].key = k => Left(d)' = Left(d)
    BY <1>3, <1>4
  <2>3. Refilled(Stored(k, clock), clock)' = Refilled(Stored(k, clock), clock)
    BY <1>1 DEF Stored
  <2> QED
    BY <1>1, <2>1, <2>2, <2>3, SameLevel
<1>6. Verdict(c) # "none" /\ Verdict(c)' = "none"
  BY <1>0, <1>1, <1>2, <1>3 DEF VerdictsSaid
<1>7. \A d \in Call : d # c => Verdict(d)' = Verdict(d)
  BY <1>0, <1>2, <1>3, <1>4 DEF VerdictsSaid
<1>8. Levels' = Levels /\ Verdicts[c] # "none"
  BY <1>5, <1>6 DEF Levels, Verdicts
<1>9. Verdicts' = [Verdicts EXCEPT ![c] = "none"]
  BY <1>6, <1>7 DEF Verdicts
<1> QED
  BY <1>8, <1>9 DEF Bucket!Done

\* A request takes its token, or is refused, when it reads the clock.
LEMMA EnterIsAsk ==
    ASSUME LimitOK, LimitOK', Apart, Apart', NEW c \in Call, NEW k \in Key, Enter(c, k)
    PROVE  Bucket!Ask(c, k)
<1>0. VerdictsSaid /\ VerdictsSaid' /\ LevelsSaid /\ LevelsSaid' /\ NumbersOK /\ NumbersOK'
  BY VerdictsAre, LevelsAre, NumbersAre, PTL
<1>1. /\ call \in [Call -> Stage] /\ clock \in Nat /\ UNCHANGED <<clock, buckets>>
      /\ call[c] = Idle /\ Idle.at = "idle"
  BY DEF LimitOK, LimitTypeOK, Enter, Idle
<1>2. /\ call'[c].at \in {"listing", "reading"}
      /\ call'[c].key = k /\ call'[c].now = clock
      /\ \A d \in Call : d # c => call'[d] = call[d]
  <2> DEFINE x == [at |-> "listing", key |-> k, now |-> clock,
                   size |-> Cardinality(DOMAIN buckets)]
             y == [at |-> "reading", key |-> k, now |-> clock]
  <2>1. call' = [call EXCEPT ![c] = x] \/ call' = [call EXCEPT ![c] = y]
    BY DEF Enter, Moves
  <2>2. /\ x.at = "listing" /\ x.key = k /\ x.now = clock
        /\ y.at = "reading" /\ y.key = k /\ y.now = clock
    OBVIOUS
  <2> HIDE DEF x, y
  <2> QED
    BY <1>1, <2>1, <2>2
<1>3. ~Busy(c) /\ Busy(c)' /\ \A d \in Call : d # c => (Busy(d)' <=> Busy(d))
  BY <1>1, <1>2 DEF Busy
<1>4. \A d \in Call : d # c /\ Busy(d) => call[d].key # k
  BY <1>2, <1>3 DEF Apart
<1>5. \A d \in Call : d # c => Have(d)' = Have(d) /\ Left(d)' = Left(d)
  BY <1>1, <1>2 DEF Have, Left, Stored
<1>6. Level(k) = Refilled(Stored(k, clock), clock) /\ Level(k) \in Int /\ Level(k) <= Full
  <2>1. \A d \in Call : Busy(d) => call[d].key # k
    BY <1>3, <1>4
  <2> QED
    BY <1>0, <2>1 DEF LevelsSaid, NumbersOK
<1>7. Have(c)' = Level(k)
  BY <1>1, <1>2, <1>6 DEF Have, Stored
<1>8. Level(k)' = IF Level(k) >= 60 THEN Level(k) - 60 ELSE Level(k)
  <2>1. Level(k)' = Refilled(Left(c)', clock)
    BY <1>0, <1>1, <1>2, <1>3 DEF LevelsSaid
  <2>2. PICK h \in Int : h = Level(k) /\ h <= Full
    BY <1>6
  <2> DEFINE left == IF h >= 60 THEN h - 60 ELSE h
             b == [tokens |-> left, last |-> clock]
  <2>3. Left(c)' = b
    BY <1>1, <1>2, <1>7, <2>2 DEF Left
  <2>4. Refilled(b, clock) = left
    <3>1. left \in Int /\ left <= Full /\ Full \in Nat
      BY <2>2, LimitAssumption DEF Full
    <3> HIDE DEF left
    <3>2. b \in [tokens : Int, last : Nat] /\ b.tokens = left /\ b.last = clock
      BY <1>1, <3>1
    <3>3. (clock - b.last) * PerMin = 0
      BY <1>1, <3>2, LimitAssumption
    <3> HIDE DEF b
    <3>4. b.tokens + (clock - b.last) * PerMin = left
      BY <3>1, <3>2, <3>3
    <3> QED
      BY <3>1, <3>4 DEF Refilled
  <2> QED
    BY <2>1, <2>2, <2>3, <2>4
<1>9. ASSUME NEW q \in Key, q # k PROVE Level(q)' = Level(q)
  <2>1. \A d \in Call : (Busy(d) /\ call[d].key = q)' <=> (Busy(d) /\ call[d].key = q)
    BY <1>2, <1>3, <1>9
  <2>2. \A d \in Call : Busy(d) /\ call[d].key = q => Left(d)' = Left(d)
    BY <1>3, <1>5
  <2>3. Refilled(Stored(q, clock), clock)' = Refilled(Stored(q, clock), clock)
    BY <1>1 DEF Stored
  <2> QED
    BY <1>1, <2>1, <2>2, <2>3, SameLevel
<1>10. /\ Verdict(c) = "none"
       /\ Verdict(c)' = IF Level(k) >= 60 THEN "allowed" ELSE "refused"
  <2>1. Verdict(c) = "none"
    BY <1>0, <1>1, <1>3 DEF VerdictsSaid
  <2>2. Verdict(c)' = IF Have(c)' >= 60 THEN "allowed" ELSE "refused"
    BY <1>0, <1>3 DEF VerdictsSaid
  <2> QED
    BY <1>7, <2>1, <2>2
<1>11. \A d \in Call : d # c => Verdict(d)' = Verdict(d)
  BY <1>0, <1>2, <1>3, <1>5 DEF VerdictsSaid
<1>12. Levels[k] = Level(k) /\ Verdicts[c] = "none"
  BY <1>10 DEF Levels, Verdicts
<1>13. CASE Level(k) >= 60
  <2>1. Levels' = [Levels EXCEPT ![k] = @ - 60]
    BY <1>8, <1>9, <1>13 DEF Levels
  <2>2. Verdicts' = [Verdicts EXCEPT ![c] = "allowed"]
    BY <1>10, <1>11, <1>13 DEF Verdicts
  <2> QED
    BY <1>12, <1>13, <2>1, <2>2 DEF Bucket!Ask
<1>14. CASE ~(Level(k) >= 60)
  <2>1. Levels' = Levels
    BY <1>8, <1>9, <1>14 DEF Levels
  <2>2. Verdicts' = [Verdicts EXCEPT ![c] = "refused"]
    BY <1>10, <1>11, <1>14 DEF Verdicts
  <2> QED
    BY <1>12, <1>14, <2>1, <2>2 DEF Bucket!Ask
<1> QED
  BY <1>13, <1>14

\* A second later a bucket holds what a second puts back, and no more than is full.
LEMMA RefilledLater ==
    ASSUME NEW b \in [tokens : Int, last : Nat], NEW t \in Nat
    PROVE  Refilled(b, t + 1) = Bucket!Lesser(Bucket!Full, Refilled(b, t) + PerMin)
<1> DEFINE x == (t - b.last) * PerMin
           n == b.tokens
<1>1. n \in Int /\ b.last \in Int /\ PerMin \in Nat /\ Full \in Nat
  BY LimitAssumption DEF Full
<1>2. x \in Int /\ ((t + 1) - b.last) * PerMin = x + PerMin
  BY <1>1
<1>3. /\ Refilled(b, t) = IF n + x < Full THEN n + x ELSE Full
      /\ Refilled(b, t + 1) = IF n + (x + PerMin) < Full THEN n + (x + PerMin) ELSE Full
  BY <1>2 DEF Refilled
<1> HIDE DEF x, n
<1>4. Refilled(b, t + 1) =
        IF Full <= Refilled(b, t) + PerMin THEN Full ELSE Refilled(b, t) + PerMin
  BY <1>1, <1>2, <1>3
<1>5. Bucket!Full = Full
  BY DEF Bucket!Full, Full
<1> QED
  BY <1>4, <1>5 DEF Bucket!Lesser

\* A second refills every bucket, those that are forgotten or full too.
LEMMA TickIsRefill ==
    ASSUME LimitOK, LimitOK', Apart, Apart', Tick
    PROVE  Bucket!Refill
<1>0. VerdictsSaid /\ VerdictsSaid' /\ LevelsSaid /\ LevelsSaid' /\ NumbersOK
  BY VerdictsAre, LevelsAre, NumbersAre, PTL
<1>1. clock \in Nat /\ clock' = clock + 1 /\ UNCHANGED <<buckets, call>>
  BY DEF LimitOK, LimitTypeOK, Tick
<1>2. \A c \in Call : Busy(c)' <=> Busy(c)
  BY <1>1 DEF Busy
<1>3. \A c \in Call : Have(c)' = Have(c) /\ Left(c)' = Left(c)
  BY <1>1 DEF Have, Left, Stored
<1>4. ASSUME NEW k \in Key
      PROVE  Level(k)' = Bucket!Lesser(Bucket!Full, Level(k) + PerMin)
  <2>1. CASE \E c \in Call : Busy(c) /\ call[c].key = k
    <3>1. PICK c \in Call : Busy(c) /\ call[c].key = k
      BY <2>1
    <3>2. PICK b \in [tokens : Int, last : Nat] : b = Left(c)
      BY <1>0, <3>1 DEF NumbersOK
    <3>3. Level(k) = Refilled(b, clock)
      BY <1>0, <3>1, <3>2 DEF LevelsSaid
    <3>4. Level(k)' = Refilled(b, clock + 1)
      <4>1. Busy(c)' /\ call'[c].key = k /\ Left(c)' = b
        BY <1>1, <1>2, <1>3, <3>1, <3>2
      <4>2. Level(k)' = Refilled(Left(c), clock)'
        BY <1>0, <4>1 DEF LevelsSaid
      <4> QED
        BY <1>1, <4>1, <4>2
    <3> QED
      BY <1>1, <3>3, <3>4, RefilledLater
  <2>2. CASE ~ \E c \in Call : Busy(c) /\ call[c].key = k
    <3>1. Level(k) = Refilled(Stored(k, clock), clock)
      BY <1>0, <2>2 DEF LevelsSaid
    <3>2. Level(k)' = Refilled(Stored(k, clock)', clock + 1)
      <4>1. \A c \in Call : Busy(c)' => call'[c].key # k
        BY <1>1, <1>2, <2>2
      <4>2. Level(k)' = Refilled(Stored(k, clock), clock)'
        BY <1>0, <4>1 DEF LevelsSaid
      <4> QED
        BY <1>1, <4>2
    <3>3. CASE k \in DOMAIN buckets
      <4>1. PICK b \in [tokens : Int, last : Nat] : b = buckets[k]
        BY <3>3 DEF LimitOK, LimitTypeOK
      <4>2. Stored(k, clock) = b /\ Stored(k, clock)' = b
        BY <1>1, <3>3, <4>1 DEF Stored
      <4> QED
        BY <1>1, <3>1, <3>2, <4>1, <4>2, RefilledLater
    <3>4. CASE k \notin DOMAIN buckets
      <4> DEFINE b == [tokens |-> Full, last |-> clock]
                 a == [tokens |-> Full, last |-> clock + 1]
      <4>1. Stored(k, clock) = b /\ Stored(k, clock)' = a
        BY <1>1, <3>4 DEF Stored
      <4>2. /\ Full \in Nat /\ PerMin \in Nat
            /\ (clock - b.last) * PerMin = 0 /\ ((clock + 1) - a.last) * PerMin = 0
        BY <1>1, LimitAssumption DEF Full
      <4>3. Refilled(b, clock) = Full /\ Refilled(a, clock + 1) = Full
        BY <4>2 DEF Refilled
      <4>4. Bucket!Lesser(Bucket!Full, Full + PerMin) = Full
        <5>1. Bucket!Full = Full
          BY DEF Bucket!Full, Full
        <5> QED
          BY <4>2, <5>1 DEF Bucket!Lesser
      <4> QED
        BY <3>1, <3>2, <4>1, <4>3, <4>4
    <3> QED
      BY <3>3, <3>4
  <2> QED
    BY <2>1, <2>2
<1>5. ASSUME NEW c \in Call PROVE Verdict(c)' = Verdict(c)
  BY <1>0, <1>1, <1>2, <1>3 DEF VerdictsSaid
<1>6. Levels' = [k \in Key |-> Bucket!Lesser(Bucket!Full, Levels[k] + PerMin)]
  BY <1>4 DEF Levels
<1>7. Verdicts' = Verdicts
  BY <1>5 DEF Verdicts
<1> QED
  BY <1>6, <1>7 DEF Bucket!Refill

\* While the calls of a key come one after the other and sweeps are let finish, the
\* limiter implements the bucket that never forgets: for any callers, threads and
\* allowance, and any way the calls of different keys and the sweeps interleave.
THEOREM LimiterIsABucket == LimitSpec => ChargesLikeABucket
<1>1. ASSUME LimitInit PROVE Bucket!Init
  <2>1. /\ DOMAIN buckets = {} /\ clock = 0
        /\ \A c \in Call : call[c].at = "idle"
    BY <1>1 DEF LimitInit, Idle
  <2>2. \A c \in Call : ~Busy(c)
    BY <2>1 DEF Busy
  <2>3. ASSUME NEW k \in Key PROVE Level(k) = Full
    <3>1. Level(k) = Refilled(Stored(k, clock), clock)
      BY <2>2 DEF Level
    <3> DEFINE b == [tokens |-> Full, last |-> 0]
    <3>2. Stored(k, clock) = b
      BY <2>1 DEF Stored
    <3>3. Full \in Nat /\ (0 - b.last) * PerMin = 0
      BY LimitAssumption DEF Full
    <3>4. Refilled(b, 0) = Full
      BY <3>3 DEF Refilled
    <3> QED
      BY <2>1, <3>1, <3>2, <3>4
  <2>4. \A c \in Call : Verdict(c) = "none"
    BY <2>1, <2>2, VerdictsAre DEF VerdictsSaid
  <2>5. Bucket!Full = Full
    BY DEF Bucket!Full, Full
  <2> QED
    BY <2>3, <2>4, <2>5 DEF Bucket!Init, Levels, Verdicts
<1>2. ASSUME LimitOK, LimitOK', [LimitNext]_limitVars, Apart, Apart'
      PROVE  Bucket!Next \/ UNCHANGED <<Levels, Verdicts>>
  <2>1. CASE Tick
    BY <1>2, <2>1, TickIsRefill DEF Bucket!Next
  <2>2. ASSUME NEW c \in Call, CallStep(c)
        PROVE  Bucket!Next \/ UNCHANGED <<Levels, Verdicts>>
    <3>1. CASE \E r \in Request : Enter(c, client_key(r))
      <4>1. PICK k \in Key : Enter(c, k)
        BY <3>1, KeyOfRequest
      <4> QED
        BY <1>2, <4>1, EnterIsAsk DEF Bucket!Next
    <3>2. CASE ListIdle(c) \/ (\E k \in Key : Evict(c, k)) \/ Read(c)
      BY <1>2, <3>2, SweepsForFree
    <3>3. CASE WriteBack(c)
      BY <1>2, <3>3, WritesForFree
    <3>4. CASE Finish(c)
      BY <1>2, <3>4, FinishIsDone DEF Bucket!Next
    <3> QED
      BY <2>2, <3>1, <3>2, <3>3, <3>4 DEF CallStep
  <2>3. CASE UNCHANGED limitVars
    <3>1. UNCHANGED <<clock, buckets, call>>
      BY <2>3 DEF limitVars
    <3> QED
      BY <3>1 DEF Levels, Verdicts, Level, Verdict, Left, Have, Busy, Stored
  <2> QED
    BY <1>2, <2>1, <2>2, <2>3 DEF LimitNext
<1>3. LimitOK /\ LimitOK' /\ [LimitNext]_limitVars =>
        [Apart /\ Apart' => Bucket!Next]_<<Levels, Verdicts>>
  BY <1>2
<1> QED
  BY <1>1, <1>3, LimitStarts, LimitStep, PTL DEF LimitSpec, ChargesLikeABucket

-----------------------------------------------------------------------------
(* The chunks: the overlap does what it is for.                             *)

\* The phrases that end at or before n are whole in some chunk.
WholeUpTo(n) ==
    \A a, b \in 1..Len(text) :
      b <= n /\ a <= b /\ b <= a + Overlap /\ Ink(a) /\ Ink(b) =>
        \E i \in 1..Len(chunks) : a..b \subseteq chunks[i]

\* What the windows behind `start` have reached.
Reached == IF chunked THEN Len(text) ELSE IF start = 0 THEN 0 ELSE start + Overlap

IsText(t) == t \in Seq({t[i] : i \in DOMAIN t})

\* The loop's invariant: the window starts within the text, a chunk has positions of
\* it, and everything that ends within the reach of the last window is whole.
ChunksOK ==
    /\ IsText(text)
    /\ Len(text) \in Nat
    /\ start \in Nat
    /\ chunks \in Seq(SUBSET Int)
    /\ \A i \in 1..Len(chunks) : chunks[i] # {} /\ chunks[i] \subseteq 1..Len(text)
    /\ chunked \in BOOLEAN
    /\ WholeUpTo(Reached)

\* What has letters is a sequence of its own.
LEMMA TextIs ==
    ASSUME NEW V, NEW t \in Seq(V)
    PROVE  IsText(t)
<1> DEFINE L == {t[i] : i \in DOMAIN t}
<1>1. Len(t) \in Nat /\ t \in [1..Len(t) -> L]
  OBVIOUS
<1>2. t \in Seq(L)
  <2> HIDE DEF L
  <2> QED
    BY <1>1
<1> QED
  BY <1>2 DEF IsText

LEMMA ChunksStart == ChunkInit => ChunksOK
<1> SUFFICES ASSUME ChunkInit PROVE ChunksOK
  OBVIOUS
<1>1. Len(text) \in Nat /\ IsText(text)
  <2>1. PICK t \in Text : \E a \in 1..(Len(t) + 1), b \in 0..Len(t) : text = SubSeq(t, a, b)
    BY DEF ChunkInit
  <2>2. PICK a \in 1..(Len(t) + 1), b \in 0..Len(t) : text = SubSeq(t, a, b)
    BY <2>1
  <2> DEFINE L == {t[i] : i \in DOMAIN t}
  <2>3. t \in Seq(L)
    BY ChunkAssumption
  <2> HIDE DEF L
  <2>4. text \in Seq(L)
    BY <2>2, <2>3
  <2> QED
    BY <2>4, TextIs
<1>2. WholeUpTo(Reached)
  <2>1. CASE text = << >>
    BY <2>1 DEF ChunkInit, WholeUpTo, Reached
  <2>2. CASE text # << >>
    <3>1. ~chunked /\ start = 0
      BY <2>2 DEF ChunkInit
    <3>2. Reached = 0
      BY <3>1 DEF Reached
    <3> QED
      BY <1>1, <3>2 DEF WholeUpTo
  <2> QED
    BY <2>1, <2>2
<1> QED
  BY <1>1, <1>2 DEF ChunkInit, ChunksOK

\* The positions of a phrase that lies in the window are in its piece.
LEMMA PieceHolds ==
    ASSUME NEW lo \in Int, NEW hi \in Int, NEW a \in Int, NEW b \in Int,
           lo <= a, a <= b, b <= hi, Ink(a), Ink(b)
    PROVE  a..b \subseteq Piece(lo, hi)
BY DEF Piece

\* One round: a phrase that ends within the new reach ends within the old one, or it
\* starts within the window.
LEMMA ChunksStep == ChunksOK /\ [Chunk]_chunkVars => ChunksOK'
<1> SUFFICES ASSUME ChunksOK, [Chunk]_chunkVars PROVE ChunksOK'
  OBVIOUS
<1> USE ChunkAssumption
<1>1. CASE UNCHANGED chunkVars
  BY <1>1 DEF ChunksOK, IsText, WholeUpTo, Reached, Ink, chunkVars
<1>2. CASE Chunk
  <2> DEFINE end == IF start + Size < Len(text) THEN start + Size ELSE Len(text)
             piece == Piece(start + 1, end)
  <2>1. /\ Len(text) \in Nat /\ start \in Nat /\ end \in Int
        /\ text' = text
        /\ ~chunked
        /\ chunked' = (start + Size >= Len(text))
        /\ start' = IF chunked' THEN start ELSE start + (Size - Overlap)
        /\ chunks' = IF piece = {} THEN chunks ELSE Append(chunks, piece)
        /\ chunks \in Seq(SUBSET Int)
    BY <1>2 DEF ChunksOK, Chunk
  <2>2. start' \in Nat /\ Len(text') \in Nat /\ chunked' \in BOOLEAN
    BY <2>1
  <2>3. piece \in SUBSET Int /\ piece \subseteq 1..Len(text)
    BY <2>1 DEF Piece
  <2>4. chunks' \in Seq(SUBSET Int)
    BY <2>1, <2>3
  <2>5. \A i \in 1..Len(chunks) : i \in 1..Len(chunks') /\ chunks'[i] = chunks[i]
    BY <2>1, <2>3
  <2>6. piece # {} => Len(chunks') \in 1..Len(chunks') /\ chunks'[Len(chunks')] = piece
    BY <2>1, <2>3
  <2>7. Reached' = end
    <3>1. CASE start + Size >= Len(text)
      <4>1. chunked'
        BY <2>1, <3>1, Zenon
      <4>2. end = Len(text) /\ Len(text') = Len(text)
        BY <2>1, <3>1
      <4> QED
        BY <4>1, <4>2 DEF Reached
    <3>2. CASE ~(start + Size >= Len(text))
      <4>1. ~chunked'
        BY <2>1, <3>2, Zenon
      <4>2. end = start + Size
        BY <2>1, <3>2
      <4>3. start' = start + (Size - Overlap) /\ start' # 0
        BY <2>1, <4>1
      <4> HIDE DEF end
      <4> QED
        BY <2>1, <4>1, <4>2, <4>3 DEF Reached
    <3> QED
      BY <3>1, <3>2
  <2>8. ASSUME NEW a \in 1..Len(text), NEW b \in 1..Len(text),
               b <= end, a <= b, b <= a + Overlap, Ink(a), Ink(b)
        PROVE  \E i \in 1..Len(chunks') : a..b \subseteq chunks'[i]
    <3>1. CASE b <= Reached
      <4>1. PICK i \in 1..Len(chunks) : a..b \subseteq chunks[i]
        BY <2>8, <3>1 DEF ChunksOK, WholeUpTo
      <4> QED
        BY <4>1, <2>5
    <3>2. CASE ~(b <= Reached)
      <4>1. start + 1 <= a
        BY <2>1, <2>8, <3>2 DEF Reached
      <4>2. a..b \subseteq piece
        BY <4>1, <2>1, <2>8, PieceHolds
      <4>3. piece # {}
        BY <4>2, <2>8, <2>1
      <4> QED
        BY <4>2, <4>3, <2>6
    <3> QED BY <3>1, <3>2
  <2>9. WholeUpTo(Reached)'
    BY <2>1, <2>7, <2>8 DEF WholeUpTo, Ink
  <2>10. \A i \in 1..Len(chunks') : chunks'[i] # {} /\ chunks'[i] \subseteq 1..Len(text')
    <3> TAKE i \in 1..Len(chunks')
    <3>1. CASE i \in 1..Len(chunks)
      BY <2>1, <2>5, <3>1 DEF ChunksOK
    <3>2. CASE i \notin 1..Len(chunks)
      <4>1. piece # {} /\ i = Len(chunks')
        BY <2>1, <2>3, <3>2
      <4> QED
        BY <2>1, <2>3, <2>6, <4>1
    <3> QED
      BY <3>1, <3>2
  <2>11. IsText(text)'
    BY <2>1 DEF ChunksOK, IsText
  <2> QED
    BY <2>2, <2>4, <2>9, <2>10, <2>11 DEF ChunksOK
<1> QED
  BY <1>1, <1>2

-----------------------------------------------------------------------------
(* The trace: what was opened is held until it is ended.                    *)

TraceOK ==
    /\ spans \in [{"ask", "retrieval", "answer"} -> {"none", "open", "ended"}]
    /\ stage = "stored" => trace = "none" /\ \A s \in DOMAIN spans : spans[s] = "none"
    /\ trace = "on" => \A s \in DOMAIN spans : spans[s] = "open" => s \in held \cup {"ask"}
    /\ FinishedTraceIsClosed

LEMMA TraceStarts ==
    ASSUME TraceOK, stage = "stored", TraceStart, stage' # "stored"
    PROVE  TraceOK'
BY DEF TraceOK, TraceStart, FinishedTraceIsClosed

LEMMA TraceGoesOn ==
    ASSUME TraceOK, TraceSources, stage' # "stored"
    PROVE  TraceOK'
BY DEF TraceOK, TraceSources, FinishedTraceIsClosed, traceVars

\* Only a trace whose last span was ended too is finished.
LEMMA TraceFinishes ==
    ASSUME TraceOK, NEW e, TraceFinish(e), stage' # "stored"
    PROVE  TraceOK'
<1>1. CASE UNCHANGED traceVars
  BY <1>1 DEF TraceOK, FinishedTraceIsClosed, traceVars
<1>2. CASE trace = "on" /\ ~UNCHANGED traceVars
  <2>1. PICK n \in 0..3 :
          /\ trace' = IF n = 3 THEN "finished" ELSE "failed"
          /\ spans' = [s \in DOMAIN spans |->
                         IF s \in held \cup {"ask"} /\ \E i \in 1..n : Span[i] = s
                         THEN "ended" ELSE spans[s]]
    BY <1>2 DEF TraceFinish, Span
  <2>2. spans' \in [{"ask", "retrieval", "answer"} -> {"none", "open", "ended"}]
    BY <2>1 DEF TraceOK
  <2>3. CASE n = 3
    <3>1. \A s \in {"ask", "retrieval", "answer"} : \E i \in 1..n : Span[i] = s
      <4>1. Span[1] = "retrieval" /\ Span[2] = "answer" /\ Span[3] = "ask"
        BY DEF Span
      <4>2. {1, 2, 3} \subseteq 1..n
        BY <2>3
      <4> QED
        BY <4>1, <4>2
    <3>2. \A s \in DOMAIN spans : spans'[s] # "open"
      BY <1>2, <2>1, <3>1 DEF TraceOK
    <3> QED
      BY <2>1, <2>2, <2>3, <3>2 DEF TraceOK, FinishedTraceIsClosed
  <2>4. CASE n # 3
    BY <2>1, <2>2, <2>4 DEF TraceOK, FinishedTraceIsClosed
  <2> QED
    BY <2>3, <2>4
<1> QED
  BY <1>1, <1>2 DEF TraceFinish

-----------------------------------------------------------------------------
(* Recursion over positions and over finite sets.  Induction is by a least  *)
(* counterexample, which well-founded orders have.                          *)

\* Every set of natural numbers that is not empty has a least element.
LEMMA LeastNumber ==
    ASSUME NEW N \in SUBSET Nat, N # {}
    PROVE  \E n \in N : \A m \in N : n <= m
<1> DEFINE R == OpToRel(<, Nat)
<1>1. PICK n \in N : \A m \in N : ~(<<m, n>> \in R)
  <2>1. IsWellFoundedOn(R, Nat)
    BY NatLessThanWellFounded
  <2> HIDE DEF R
  <2> QED
    BY <2>1, WFMin
<1>2. ASSUME NEW m \in N PROVE n <= m
  <2>1. m \in Nat /\ n \in Nat
    OBVIOUS
  <2>2. <<m, n>> \in R <=> m < n
    BY <2>1 DEF OpToRel
  <2>3. ~(m < n)
    BY <1>1, <2>2
  <2> QED
    BY <2>1, <2>3
<1> QED
  BY <1>2

\* Max and Min of positions are what their names say.
LEMMA MinIs ==
    ASSUME NEW N \in SUBSET Nat, N # {}
    PROVE  Min(N) \in N /\ \A m \in N : Min(N) <= m
BY LeastNumber DEF Min

LEMMA MaxIs ==
    ASSUME NEW n \in Nat, NEW N \in SUBSET (1..n), N # {}
    PROVE  Max(N) \in N /\ \A m \in N : m <= Max(N)
<1> DEFINE D == {n - m : m \in N}
<1>1. D \in SUBSET Nat /\ D # {}
  <2>1. \A m \in N : n - m \in Nat
    OBVIOUS
  <2>2. PICK m \in N : TRUE
    OBVIOUS
  <2>3. n - m \in D
    OBVIOUS
  <2> QED
    BY <2>1, <2>3
<1>2. PICK d \in D : \A e \in D : d <= e
  <2> HIDE DEF D
  <2> QED
    BY <1>1, LeastNumber
<1>3. PICK x \in N : d = n - x
  OBVIOUS
<1>4. \A m \in N : x >= m
  <2> TAKE m \in N
  <2>1. d <= n - m
    BY <1>2
  <2> QED
    BY <1>3, <2>1
<1>5. /\ Max(N) \in N
      /\ \A m \in N : Max(N) >= m
  BY <1>4 DEF Max
<1> QED
  BY <1>5

\* A recursion that moves to the right over the positions up to n exists.
GoesRight(f, n, A, to) == f = [i \in 1..(n + 1) |-> IF i > n THEN {} ELSE A[i] \cup f[to[i]]]

LEMMA ChainExists ==
    ASSUME NEW n \in Nat, NEW A, NEW to, \A i \in 1..n : to[i] \in (i + 1)..(n + 1)
    PROVE  \E f : GoesRight(f, n, A, to)
<1> DEFINE Chain(f, k) ==
             f = [i \in k..(n + 1) |-> IF i > n THEN {} ELSE A[i] \cup f[to[i]]]
           None == {k \in Nat : k <= n /\ ~ \E f : Chain(f, (n + 1) - k)}
<1>1. None = {}
  <2> SUFFICES ASSUME None # {} PROVE FALSE
    OBVIOUS
  <2>1. PICK k \in None : \A m \in None : k <= m
    <3>1. None \in SUBSET Nat
      OBVIOUS
    <3> HIDE DEF None
    <3> QED
      BY <3>1, LeastNumber
  <2> DEFINE i == (n + 1) - k
  <2>2. i \in 1..(n + 1) /\ k \in Nat /\ k <= n
    OBVIOUS
  <2>3. CASE k = 0
    <3>1. Chain([j \in (n + 1)..(n + 1) |-> {}], n + 1)
      OBVIOUS
    <3>2. (n + 1) - k = n + 1
      BY <2>3
    <3>3. \E f : Chain(f, (n + 1) - k)
      <4> HIDE DEF Chain
      <4> QED
        BY <3>1, <3>2
    <3>4. k \notin None
      <4> HIDE DEF Chain
      <4> QED
        BY <3>3
    <3> QED
      BY <2>1, <3>4, Zenon
  <2>4. CASE k # 0
    <3>1. PICK f : Chain(f, i + 1)
      <4>1. k - 1 \in Nat /\ k - 1 <= n /\ (n + 1) - (k - 1) = i + 1
        BY <2>2, <2>4
      <4>2. k - 1 \notin None
        <5> HIDE DEF None
        <5> QED
          BY <2>1, <2>2
      <4> HIDE DEF i, Chain
      <4> QED
        BY <4>1, <4>2
    <3> DEFINE h == [j \in i..(n + 1) |-> IF j = i THEN A[i] \cup f[to[i]] ELSE f[j]]
    <3>2. i <= n /\ to[i] \in (i + 1)..(n + 1)
      BY <2>2, <2>4
    <3> HIDE DEF i
    <3>3. \A j \in (i + 1)..(n + 1) : h[j] = f[j]
      BY <2>2
    <3>4. \A j \in i..(n + 1) : h[j] = IF j > n THEN {} ELSE A[j] \cup h[to[j]]
      <4> SUFFICES ASSUME NEW j \in i..(n + 1)
                   PROVE  h[j] = IF j > n THEN {} ELSE A[j] \cup h[to[j]]
        OBVIOUS
      <4>1. CASE j = i
        <5>1. h[to[i]] = f[to[i]]
          BY <3>2, <3>3
        <5> QED
          BY <2>2, <3>2, <4>1, <5>1
      <4>2. CASE j # i
        <5>1. j \in (i + 1)..(n + 1)
          BY <2>2, <4>2
        <5>2. f[j] = IF j > n THEN {} ELSE A[j] \cup f[to[j]]
          BY <3>1, <5>1
        <5>3. j <= n => to[j] \in (i + 1)..(n + 1)
          BY <2>2, <5>1
        <5>4. j <= n => h[to[j]] = f[to[j]]
          BY <3>3, <5>3
        <5>5. h[j] = f[j]
          BY <3>3, <5>1
        <5> HIDE DEF h
        <5>6. CASE j > n
          BY <5>2, <5>5, <5>6
        <5>7. CASE ~(j > n)
          <6>1. j <= n
            BY <2>2, <5>1, <5>7
          <6> QED
            BY <5>2, <5>4, <5>5, <5>7, <6>1
        <5> QED
          BY <5>6, <5>7
      <4> QED
        BY <4>1, <4>2
    <3>5. Chain(h, i)
      BY <3>4
    <3> HIDE DEF h, Chain
    <3> QED
      BY <2>1, <3>5 DEF i
  <2> QED
    BY <2>3, <2>4
<1>2. (n + 1) - n = 1 /\ n <= n
  OBVIOUS
<1>3. \E f : Chain(f, (n + 1) - n)
  <2>1. n \notin None
    BY <1>1, Zenon
  <2> HIDE DEF Chain
  <2> QED
    BY <2>1, <1>2
<1>4. PICK f : Chain(f, 1)
  <2> HIDE DEF Chain
  <2> QED
    BY <1>2, <1>3
<1> QED
  BY <1>4 DEF GoesRight

\* A recursion that takes the elements of a finite set one by one exists, and what its
\* rounds keep holds of what it makes of each subset: V[T] is what may be made of T.
Round(g, T, base, pick, step) == IF T = {} THEN base ELSE step[pick[T]][g[T \ {pick[T]}]]
GoesRound(g, S, base, pick, step) == g = [T \in SUBSET S |-> Round(g, T, base, pick, step)]

LEMMA FoldExists ==
    ASSUME NEW S, IsFiniteSet(S), NEW V, NEW base \in V[{}], NEW pick, NEW step,
           \A T \in SUBSET S : T # {} =>
             pick[T] \in T /\ \A v \in V[T \ {pick[T]}] : step[pick[T]][v] \in V[T]
    PROVE  \E g : /\ GoesRound(g, S, base, pick, step)
                  /\ \A T \in SUBSET S : g[T] \in V[T]
<1> DEFINE Small(n) == {T \in SUBSET S : Cardinality(T) <= n}
           Go(g, T) == Round(g, T, base, pick, step)
           Goes(g, n) == g = [T \in Small(n) |-> Go(g, T)] /\ \A T \in Small(n) : g[T] \in V[T]
           None == {n \in Nat : ~ \E g : Goes(g, n)}
<1>1. \A T \in SUBSET S : IsFiniteSet(T) /\ Cardinality(T) \in Nat
  BY FS_Subset, FS_CardinalityType
<1>2. None = {}
  <2> SUFFICES ASSUME None # {} PROVE FALSE
    OBVIOUS
  <2>1. PICK n \in None : \A m \in None : n <= m
    <3>1. None \in SUBSET Nat
      OBVIOUS
    <3> HIDE DEF None
    <3> QED
      BY <3>1, LeastNumber
  <2>2. CASE n = 0
    <3> DEFINE g == [T \in Small(0) |-> base]
    <3>1. \A T \in Small(0) : T = {}
      BY <1>1, FS_EmptySet
    <3>2. Goes(g, 0)
      BY <3>1 DEF Round
    <3> HIDE DEF Goes
    <3> QED
      BY <2>1, <2>2, <3>2
  <2>3. CASE n # 0
    <3>1. n \in Nat /\ n - 1 \in Nat /\ n - 1 \notin None
      <4>1. n \in Nat /\ \A m \in None : n <= m
        BY <2>1
      <4> HIDE DEF None
      <4> QED
        BY <2>3, <4>1
    <3>2. PICK g : Goes(g, n - 1)
      BY <3>1
    <3> DEFINE h == [T \in Small(n) |-> Go(g, T)]
    <3>3. \A T \in Small(n) : T # {} => pick[T] \in S /\ T \ {pick[T]} \in Small(n - 1)
      <4> SUFFICES ASSUME NEW T \in Small(n), T # {}
                   PROVE  pick[T] \in S /\ T \ {pick[T]} \in Small(n - 1)
        OBVIOUS
      <4>1. pick[T] \in T
        OBVIOUS
      <4>2. Cardinality(T \ {pick[T]}) = Cardinality(T) - 1
        BY <1>1, <4>1, FS_RemoveElement
      <4> QED
        BY <1>1, <4>1, <4>2, <3>1
    <3>4. \A T \in Small(n - 1) : T \in Small(n) /\ h[T] = g[T]
      <4>1. \A T \in Small(n - 1) : T \in Small(n)
        BY <1>1, <3>1
      <4>2. \A T \in Small(n - 1) : g[T] = Go(g, T)
        BY <3>2
      <4> HIDE DEF Small, Go
      <4> QED
        BY <4>1, <4>2
    <3>5. \A T \in Small(n) : h[T] = Go(h, T) /\ h[T] \in V[T]
      <4> SUFFICES ASSUME NEW T \in Small(n) PROVE h[T] = Go(h, T) /\ h[T] \in V[T]
        OBVIOUS
      <4>1. h[T] = Go(g, T)
        <5> HIDE DEF Small, Go
        <5> QED
          OBVIOUS
      <4>2. T # {} => h[T \ {pick[T]}] = g[T \ {pick[T]}] /\ g[T \ {pick[T]}] \in V[T \ {pick[T]}]
        BY <3>2, <3>3, <3>4
      <4>3. CASE T = {}
        <5> HIDE DEF Small, h
        <5> QED
          BY <4>1, <4>3 DEF Round
      <4>4. CASE T # {}
        <5>1. pick[T] \in S
          BY <3>3, <4>4
        <5>2. h[T] = step[pick[T]][g[T \ {pick[T]}]]
          <6> HIDE DEF Small, h
          <6> QED
            BY <4>1, <4>4 DEF Round
        <5>3. T \in SUBSET S
          OBVIOUS
        <5>4. step[pick[T]][g[T \ {pick[T]}]] \in V[T]
          <6> HIDE DEF Small, h
          <6> QED
            BY <4>2, <4>4, <5>3
        <5> HIDE DEF Small, h
        <5> QED
          BY <4>2, <4>4, <5>1, <5>2, <5>4 DEF Round
      <4> QED
        BY <4>3, <4>4
    <3>6. Goes(h, n)
      <4>1. h = [T \in Small(n) |-> Go(h, T)]
        <5>1. \A T \in Small(n) : Go(g, T) = Go(h, T)
          <6> HIDE DEF Small, Go
          <6> QED
            BY <3>5
        <5> HIDE DEF Small, Go
        <5> QED
          BY <5>1
      <4> HIDE DEF h, Small, Go
      <4> QED
        BY <3>5, <4>1
    <3> HIDE DEF Goes
    <3> QED
      BY <2>1, <3>6
  <2> QED
    BY <2>2, <2>3
<1>3. Cardinality(S) \in Nat /\ \A T \in SUBSET S : Cardinality(T) <= Cardinality(S)
  BY FS_Subset, FS_CardinalityType
<1>4. Small(Cardinality(S)) = SUBSET S
  BY <1>3
<1>5. PICK g : Goes(g, Cardinality(S))
  BY <1>2, <1>3
<1> QED
  <2> HIDE DEF Small
  <2> QED
    BY <1>4, <1>5 DEF GoesRound

\* What holds of the empty set, and of a set when it holds of what is left without some
\* element of it, holds of a finite set.
LEMMA ByRemoval ==
    ASSUME NEW S, IsFiniteSet(S), NEW G, {} \in G,
           \A T \in SUBSET S : T # {} => \E x \in T : T \ {x} \in G => T \in G
    PROVE  S \in G
<1> DEFINE Bad == {T \in SUBSET S : T \notin G}
           N == {Cardinality(T) : T \in Bad}
<1> SUFFICES ASSUME S \notin G PROVE FALSE
  OBVIOUS
<1>1. \A T \in SUBSET S : IsFiniteSet(T) /\ Cardinality(T) \in Nat
  BY FS_Subset, FS_CardinalityType
<1>2. PICK n \in N : \A m \in N : n <= m
  <2>1. S \in Bad
    OBVIOUS
  <2>2. N \in SUBSET Nat /\ N # {}
    BY <1>1, <2>1
  <2> HIDE DEF N
  <2> QED
    BY <2>2, LeastNumber
<1>3. PICK T \in Bad : n = Cardinality(T)
  OBVIOUS
<1>4. PICK x \in T : T \ {x} \in G => T \in G
  OBVIOUS
<1>5. Cardinality(T \ {x}) = n - 1 /\ n \in Nat
  BY <1>1, <1>3, FS_RemoveElement
<1>6. T \ {x} \in Bad
  BY <1>3, <1>4
<1>7. n - 1 \in N
  BY <1>5, <1>6
<1>8. n <= n - 1
  <2> HIDE DEF N
  <2> QED
    BY <1>2, <1>7
<1> QED
  BY <1>5, <1>8

-----------------------------------------------------------------------------
(* Sets of positions, listed from left to right.                            *)

Increasing(s) == \A i, j \in 1..Len(s) : i < j => s[i] < s[j]

Lists(s, S) ==
    /\ s \in Seq(Int)
    /\ Increasing(s)
    /\ \A i \in 1..Len(s) : s[i] \in S
    /\ \A x \in S : \E i \in 1..Len(s) : s[i] = x

LEMMA ListsGive ==
    ASSUME NEW s, NEW S, Lists(s, S)
    PROVE  /\ Len(s) \in Nat
           /\ \A i \in 1..Len(s) : s[i] \in S /\ s[i] \in Int
           /\ \A i, j \in 1..Len(s) : i < j => s[i] < s[j]
           /\ \A x \in S : \E i \in 1..Len(s) : s[i] = x
BY DEF Lists, Increasing

LEMMA ListsMax ==
    ASSUME NEW n \in Nat, NEW S \in SUBSET (1..n), S # {},
           NEW s, Lists(s, S \ {Max(S)})
    PROVE  Lists(Append(s, Max(S)), S)
<1> DEFINE x == Max(S)
           r == Append(s, x)
<1>1. x \in S /\ \A y \in S : y <= x
  BY MaxIs
<1> HIDE DEF x
<1>2. x \in Int /\ s \in Seq(Int)
  BY <1>1 DEF Lists
<1>3. /\ r \in Seq(Int) /\ Len(s) \in Nat /\ Len(r) = Len(s) + 1
      /\ \A i \in 1..Len(s) : r[i] = s[i]
      /\ r[Len(s) + 1] = x
  BY <1>2
<1>4. \A i \in 1..Len(s) : s[i] \in S \ {x} /\ s[i] < x /\ s[i] \in Int
  <2> TAKE i \in 1..Len(s)
  <2>1. s[i] \in S \ {x} /\ s[i] \in 1..n
    BY DEF Lists, x
  <2> QED
    BY <1>1, <1>2, <2>1
<1>5. \A i \in 1..Len(r) : i \in 1..Len(s) \/ i = Len(s) + 1
  BY <1>3
<1> HIDE DEF r
<1>6. Increasing(r)
  <2> SUFFICES ASSUME NEW i \in 1..Len(r), NEW j \in 1..Len(r), i < j
               PROVE  r[i] < r[j]
    BY DEF Increasing
  <2>1. i \in 1..Len(s)
    BY <1>3
  <2>2. CASE j \in 1..Len(s)
    BY <1>3, <2>1, <2>2 DEF Lists, Increasing
  <2>3. CASE j = Len(s) + 1
    BY <1>3, <1>4, <2>1, <2>3
  <2> QED
    BY <1>5, <2>2, <2>3
<1>7. \A i \in 1..Len(r) : r[i] \in S
  BY <1>1, <1>3, <1>4, <1>5
<1>8. ASSUME NEW y \in S PROVE \E i \in 1..Len(r) : r[i] = y
  <2>1. CASE y = x
    BY <1>3, <2>1
  <2>2. CASE y # x
    <3>1. PICK i \in 1..Len(s) : s[i] = y
      BY <2>2 DEF Lists, x
    <3>2. i \in 1..Len(r)
      BY <1>3
    <3> QED
      BY <1>3, <3>1, <3>2
  <2> QED
    BY <2>1, <2>2
<1>9. Lists(r, S)
  BY <1>3, <1>6, <1>7, <1>8 DEF Lists
<1> QED
  BY <1>9 DEF r, x

LEMMA InOrderLists ==
    ASSUME NEW n \in Nat, NEW S \in SUBSET (1..n)
    PROVE  Lists(InOrder(S), S)
<1> DEFINE pick == [T \in SUBSET S |-> Max(T)]
           step == [x \in S |-> [s \in Seq(Int) |-> Append(s, x)]]
           V == [T \in SUBSET S |-> {s \in Seq(Int) : Lists(s, T)}]
           Goes(g) == g = [T \in SUBSET S |->
                             IF T = {} THEN << >> ELSE Append(g[T \ {Max(T)}], Max(T))]
           iter == CHOOSE g : Goes(g)
<1>1. IsFiniteSet(S)
  <2>1. IsFiniteSet(1..n)
    BY FS_Interval
  <2> QED
    BY <2>1, FS_Subset
<1>2. << >> \in V[{}]
  BY DEF Lists, Increasing
<1>3. ASSUME NEW T \in SUBSET S, T # {}
      PROVE  /\ Max(T) \in T
             /\ \A s \in Seq(Int) : Lists(s, T \ {Max(T)}) => Append(s, Max(T)) \in V[T]
  <2>1. T \in SUBSET (1..n)
    OBVIOUS
  <2>2. Max(T) \in T
    BY <1>3, <2>1, MaxIs
  <2>4. Max(T) \in Int
    <3>1. Max(T) \in 1..n
      BY <2>1, <2>2, Zenon
    <3> QED
      BY <3>1
  <2>3. ASSUME NEW s \in Seq(Int), Lists(s, T \ {Max(T)}) PROVE Append(s, Max(T)) \in V[T]
    <3>1. Lists(Append(s, Max(T)), T)
      BY <1>3, <2>1, <2>3, ListsMax
    <3> QED
      BY <2>4, <3>1
  <2> QED
    BY <2>2, <2>3
<1>4. Goes(iter)
  <2>1. \A T \in SUBSET S : T # {} =>
          pick[T] \in T /\ \A v \in V[T \ {pick[T]}] : step[pick[T]][v] \in V[T]
    BY <1>3
  <2>2. PICK g : /\ GoesRound(g, S, << >>, pick, step)
                 /\ \A T \in SUBSET S : g[T] \in V[T]
    <3> HIDE DEF pick, step, V
    <3> QED
      BY <1>1, <1>2, <2>1, FoldExists
  <2>3. ASSUME NEW T \in SUBSET S
        PROVE  Round(g, T, << >>, pick, step)
                 = IF T = {} THEN << >> ELSE Append(g[T \ {Max(T)}], Max(T))
    <3>1. CASE T = {}
      BY <3>1 DEF Round
    <3>2. CASE T # {}
      <4>1. Max(T) \in S /\ g[T \ {Max(T)}] \in Seq(Int)
        BY <1>3, <2>2, <3>2
      <4> QED
        BY <3>2, <4>1 DEF Round
    <3> QED
      BY <3>1, <3>2
  <2>4. Goes(g)
    <3> HIDE DEF pick, step, V
    <3> QED
      BY <2>2, <2>3 DEF GoesRound
  <2> HIDE DEF Goes
  <2> QED
    BY <2>4, Zenon
<1>5. InOrder(S) = iter[S]
  BY DEF InOrder, MapThenFoldSet
<1> HIDE DEF iter
<1> DEFINE G == {T \in SUBSET S : iter[T] \in V[T]}
<1>6. {} \in G
  BY <1>2, <1>4
<1>7. ASSUME NEW T \in SUBSET S, T # {} PROVE \E x \in T : T \ {x} \in G => T \in G
  <2>1. Max(T) \in T
    BY <1>3, <1>7
  <2>2. iter[T] = Append(iter[T \ {Max(T)}], Max(T))
    BY <1>4, <1>7
  <2>3. ASSUME T \ {Max(T)} \in G PROVE T \in G
    BY <1>3, <1>7, <2>2, <2>3
  <2> QED
    BY <2>1, <2>3
<1>8. S \in G
  <2> HIDE DEF G
  <2> QED
    BY <1>1, <1>6, <1>7, ByRemoval
<1> QED
  BY <1>5, <1>8

\* Of two lists of one set, neither is ahead of the other where they first differ.
LEMMA NotAhead ==
    ASSUME NEW S, NEW s, NEW r, Lists(s, S), Lists(r, S), NEW i \in 1..Len(s),
           \A k \in 1..(i - 1) : k \in 1..Len(r) /\ r[k] = s[k]
    PROVE  i \in 1..Len(r) /\ r[i] <= s[i]
<1>1. /\ Len(s) \in Nat /\ Len(r) \in Nat /\ i \in Int
      /\ \A k \in 1..Len(s) : s[k] \in Int
      /\ \A k \in 1..Len(r) : r[k] \in Int
  BY DEF Lists
<1>2. PICK l \in 1..Len(r) : r[l] = s[i]
  BY DEF Lists
<1>3. ~(l < i)
  <2> SUFFICES ASSUME l < i PROVE FALSE
    OBVIOUS
  <2>1. l \in 1..(i - 1) /\ l \in 1..Len(s)
    BY <1>1
  <2>2. s[l] < s[i]
    BY <1>1, <2>1 DEF Lists, Increasing
  <2> QED
    BY <1>1, <1>2, <2>1, <2>2
<1>4. i \in 1..Len(r) /\ i <= l
  BY <1>1, <1>3
<1>5. i < l => r[i] < r[l]
  BY <1>4 DEF Lists, Increasing
<1> QED
  BY <1>1, <1>2, <1>4, <1>5

LEMMA ListsIsOne ==
    ASSUME NEW S, NEW s, NEW r, Lists(s, S), Lists(r, S)
    PROVE  s = r
<1> DEFINE Same(i) == i \in 1..Len(s) /\ i \in 1..Len(r) /\ s[i] = r[i]
           D == {i \in Nat : i \in (1..Len(s)) \cup (1..Len(r)) /\ ~Same(i)}
<1>1. Len(s) \in Nat /\ Len(r) \in Nat /\ s \in Seq(Int) /\ r \in Seq(Int)
  BY DEF Lists
<1>2. D = {}
  <2> SUFFICES ASSUME D # {} PROVE FALSE
    OBVIOUS
  <2>1. PICK i \in D : \A j \in D : i <= j
    <3>1. D \in SUBSET Nat
      OBVIOUS
    <3> HIDE DEF D
    <3> QED
      BY <3>1, LeastNumber
  <2>2. ASSUME NEW k \in 1..(i - 1) PROVE Same(k)
    <3>1. k \in Nat /\ k < i /\ i \in (1..Len(s)) \cup (1..Len(r))
      BY <1>1
    <3>2. k \notin D
      <4> HIDE DEF D
      <4> QED
        BY <2>1, <3>1
    <3>3. k \in (1..Len(s)) \cup (1..Len(r))
      BY <1>1, <3>1
    <3> QED
      BY <3>1, <3>2, <3>3
  <2>3. i \in 1..Len(s) => i \in 1..Len(r) /\ r[i] <= s[i]
    BY <2>2, NotAhead
  <2>4. i \in 1..Len(r) => i \in 1..Len(s) /\ s[i] <= r[i]
    BY <2>2, NotAhead
  <2>5. i \in 1..Len(s) /\ i \in 1..Len(r)
    BY <2>3, <2>4
  <2>6. s[i] \in Int /\ r[i] \in Int
    BY <1>1, <2>5
  <2>7. Same(i)
    BY <2>3, <2>4, <2>5, <2>6
  <2> QED
    BY <2>7
<1>3. Len(s) = Len(r)
  <2>1. Len(s) \in 1..Len(s) => Len(s) \in 1..Len(r)
    BY <1>1, <1>2
  <2>2. Len(r) \in 1..Len(r) => Len(r) \in 1..Len(s)
    BY <1>1, <1>2
  <2> QED
    BY <1>1, <2>1, <2>2
<1>4. \A i \in 1..Len(s) : s[i] = r[i]
  <2> TAKE i \in 1..Len(s)
  <2>1. i \in Nat /\ i \notin D
    BY <1>1, <1>2
  <2> QED
    BY <2>1
<1> QED
  BY <1>1, <1>3, <1>4

LEMMA InOrderIs ==
    ASSUME NEW n \in Nat, NEW S \in SUBSET (1..n), NEW s, Lists(s, S)
    PROVE  InOrder(S) = s
BY InOrderLists, ListsIsOne

-----------------------------------------------------------------------------
(* What a pattern finds.                                                    *)

\* Spans of positions up to n that do not touch each other.
Spaced(M, n) ==
    /\ \A m \in M : \E i, j \in 1..n : i <= j /\ m = <<i, j>>
    /\ \A m, l \in M : m = l \/ m[2] < l[1] \/ l[2] < m[1]

Covers(k, m) == m[1] <= k /\ k <= m[2]

\* What was found from position i on is matched and spaced, and covers where every
\* match begins.
FoundFrom(M, p, f, i) ==
    /\ Spaced(M, Len(f))
    /\ \A m \in M : i <= m[1] /\ Matches(p, f, m[1], m[2])
    /\ \A a, b \in 1..Len(f) : i <= a /\ a <= b /\ Matches(p, f, a, b) => \E m \in M : Covers(a, m)

LEMMA FoundRound ==
    ASSUME NEW p, NEW f, Len(f) \in Nat, NEW i \in 1..Len(f), NEW M, NEW j \in i..Len(f),
           Matches(p, f, i, j), FoundFrom(M, p, f, j + 1)
    PROVE  FoundFrom({<<i, j>>} \cup M, p, f, i)
<1>1. i \in 1..Len(f) /\ j \in 1..Len(f) /\ i <= j
  OBVIOUS
<1>2. \A m \in M : m[1] \in Int /\ m[2] \in Int /\ m[1] <= m[2] /\ j < m[1]
  <2> TAKE m \in M
  <2>1. PICK a, b \in 1..Len(f) : a <= b /\ m = <<a, b>>
    BY DEF FoundFrom, Spaced
  <2>2. j + 1 <= m[1]
    BY DEF FoundFrom
  <2> QED
    BY <1>1, <2>1, <2>2
<1>3. Spaced({<<i, j>>} \cup M, Len(f))
  <2>1. \A m \in {<<i, j>>} \cup M : \E a, b \in 1..Len(f) : a <= b /\ m = <<a, b>>
    BY <1>1 DEF FoundFrom, Spaced
  <2>2. ASSUME NEW m \in {<<i, j>>} \cup M, NEW l \in {<<i, j>>} \cup M
        PROVE  m = l \/ m[2] < l[1] \/ l[2] < m[1]
    <3>1. CASE m \in M /\ l \in M
      BY <3>1 DEF FoundFrom, Spaced
    <3>2. CASE m = <<i, j>> \/ l = <<i, j>>
      BY <1>2, <3>2
    <3> QED
      BY <3>1, <3>2
  <2> QED
    BY <2>1, <2>2 DEF Spaced
<1>4. \A m \in {<<i, j>>} \cup M : i <= m[1] /\ Matches(p, f, m[1], m[2])
  BY <1>1, <1>2 DEF FoundFrom
<1>5. ASSUME NEW a \in 1..Len(f), NEW b \in 1..Len(f), i <= a, a <= b, Matches(p, f, a, b)
      PROVE  \E m \in {<<i, j>>} \cup M : Covers(a, m)
  <2>1. CASE a <= j
    <3>1. Covers(a, <<i, j>>)
      BY <1>5, <2>1 DEF Covers
    <3> QED
      BY <3>1
  <2>2. CASE ~(a <= j)
    <3>1. j + 1 <= a
      BY <1>1, <2>2
    <3> QED
      BY <1>5, <3>1 DEF FoundFrom
  <2> QED
    BY <2>1, <2>2
<1> QED
  BY <1>3, <1>4, <1>5 DEF FoundFrom

LEMMA FoundNone ==
    ASSUME NEW p, NEW f, Len(f) \in Nat, NEW i \in 1..Len(f), NEW M,
           \A j \in i..Len(f) : ~Matches(p, f, i, j), FoundFrom(M, p, f, i + 1)
    PROVE  FoundFrom(M, p, f, i)
<1>1. \A m \in M : i <= m[1]
  <2> TAKE m \in M
  <2>1. PICK a, b \in 1..Len(f) : a <= b /\ m = <<a, b>>
    BY DEF FoundFrom, Spaced
  <2>2. i + 1 <= m[1]
    BY DEF FoundFrom
  <2> QED
    BY <2>1, <2>2
<1>2. ASSUME NEW a \in 1..Len(f), NEW b \in 1..Len(f), i <= a, a <= b, Matches(p, f, a, b)
      PROVE  \E m \in M : Covers(a, m)
  <2>1. a # i
    BY <1>2
  <2>2. i + 1 <= a
    BY <1>2, <2>1
  <2> QED
    BY <1>2, <2>2 DEF FoundFrom
<1> QED
  BY <1>1, <1>2 DEF FoundFrom

\* Matches do not touch each other, and no match begins outside them.
LEMMA FoundIs ==
    ASSUME NEW p, NEW f, Len(f) \in Nat
    PROVE  FoundFrom(Found(p, f), p, f, 1)
<1> DEFINE n == Len(f)
           Ends(i) == {j \in i..Len(f) : Matches(p, f, i, j)}
           Goes(g) == g = [i \in 1..(Len(f) + 1) |->
                             CASE i > Len(f) -> {}
                               [] i <= Len(f) /\ Ends(i) = {} -> g[i + 1]
                               [] OTHER -> {<<i, Max(Ends(i))>>} \cup g[Max(Ends(i)) + 1]]
           from == CHOOSE g : Goes(g)
           A == [i \in 1..n |-> IF Ends(i) = {} THEN {} ELSE {<<i, Max(Ends(i))>>}]
           to == [i \in 1..n |-> IF Ends(i) = {} THEN i + 1 ELSE Max(Ends(i)) + 1]
<1>1. Found(p, f) = from[1]
  BY DEF Found
<1>2. ASSUME NEW i \in 1..n, Ends(i) # {}
      PROVE  Max(Ends(i)) \in i..n /\ Matches(p, f, i, Max(Ends(i)))
  <2>1. Ends(i) \in SUBSET (1..n) /\ n \in Nat
    OBVIOUS
  <2>2. Max(Ends(i)) \in Ends(i)
    <3> HIDE DEF Ends, n
    <3> QED
      BY <1>2, <2>1, MaxIs
  <2> QED
    BY <2>2
<1>3. Goes(from)
  <2>1. \A i \in 1..n : to[i] \in (i + 1)..(n + 1)
    <3> TAKE i \in 1..n
    <3>1. CASE Ends(i) = {}
      <4> HIDE DEF Ends
      <4> QED
        BY <3>1
    <3>2. CASE Ends(i) # {}
      <4>1. Max(Ends(i)) \in i..n
        BY <1>2, <3>2
      <4> HIDE DEF Ends
      <4> QED
        BY <3>2, <4>1
    <3> QED
      BY <3>1, <3>2
  <2>2. PICK g : GoesRight(g, n, A, to)
    <3>1. n \in Nat
      OBVIOUS
    <3> HIDE DEF A, to, n
    <3> QED
      BY <2>1, <3>1, ChainExists
  <2>3. ASSUME NEW i \in 1..(n + 1)
        PROVE  (IF i > n THEN {} ELSE A[i] \cup g[to[i]]) =
               CASE i > Len(f) -> {}
                 [] i <= Len(f) /\ Ends(i) = {} -> g[i + 1]
                 [] OTHER -> {<<i, Max(Ends(i))>>} \cup g[Max(Ends(i)) + 1]
    <3>1. CASE i > n
      BY <3>1
    <3>2. CASE ~(i > n) /\ Ends(i) = {}
      <4>1. i \in 1..n
        BY <3>2
      <4> HIDE DEF Ends
      <4> QED
        BY <3>2, <4>1
    <3>3. CASE ~(i > n) /\ Ends(i) # {}
      <4>1. i \in 1..n
        BY <3>3
      <4> HIDE DEF Ends
      <4> QED
        BY <3>3, <4>1
    <3> QED
      BY <3>1, <3>2, <3>3
  <2>4. Goes(g)
    <3> HIDE DEF A, to, Ends
    <3> QED
      BY <2>2, <2>3 DEF GoesRight
  <2> HIDE DEF Goes
  <2> QED
    BY <2>4, Zenon
<1> HIDE DEF from
<1> DEFINE Bad == {k \in Nat : k <= n /\ ~FoundFrom(from[(n + 1) - k], p, f, (n + 1) - k)}
<1>4. Bad = {}
  <2> SUFFICES ASSUME Bad # {} PROVE FALSE
    OBVIOUS
  <2>1. PICK k \in Bad : \A l \in Bad : k <= l
    <3>1. Bad \in SUBSET Nat
      OBVIOUS
    <3> HIDE DEF Bad
    <3> QED
      BY <3>1, LeastNumber
  <2> DEFINE i == (n + 1) - k
  <2>2. k \in Nat /\ k <= n /\ i \in 1..(n + 1)
    OBVIOUS
  <2>3. ~FoundFrom(from[i], p, f, i)
    OBVIOUS
  <2>4. ASSUME NEW j \in (i + 1)..(n + 1) PROVE FoundFrom(from[j], p, f, j)
    <3> DEFINE l == (n + 1) - j
    <3>1. l \in Nat /\ l < k /\ l <= n /\ (n + 1) - l = j
      BY <2>2
    <3>2. l \notin Bad
      <4> HIDE DEF Bad, l
      <4> QED
        BY <2>1, <2>2, <3>1
    <3>3. FoundFrom(from[(n + 1) - l], p, f, (n + 1) - l)
      <4> HIDE DEF l
      <4> QED
        BY <3>1, <3>2
    <3> HIDE DEF l, n
    <3> QED
      BY <3>1, <3>3
  <2>5. from[i] = CASE i > Len(f) -> {}
                    [] i <= Len(f) /\ Ends(i) = {} -> from[i + 1]
                    [] OTHER -> {<<i, Max(Ends(i))>>} \cup from[Max(Ends(i)) + 1]
    <3> HIDE DEF Ends, i
    <3> QED
      BY <1>3, <2>2
  <2> HIDE DEF i, Bad
  <2>6. CASE i > n
    <3>1. from[i] = {}
      <4> HIDE DEF Ends
      <4> QED
        BY <2>2, <2>5, <2>6
    <3>2. FoundFrom({}, p, f, i)
      BY <2>2, <2>6 DEF FoundFrom, Spaced
    <3> QED
      BY <2>3, <3>1, <3>2
  <2>7. CASE ~(i > n) /\ Ends(i) = {}
    <3>1. i \in 1..n /\ i + 1 \in (i + 1)..(n + 1)
      BY <2>2, <2>7
    <3>2. from[i] = from[i + 1]
      <4> HIDE DEF Ends
      <4> QED
        BY <2>5, <2>7, <3>1
    <3>3. FoundFrom(from[i + 1], p, f, i + 1)
      BY <2>4, <3>1
    <3>4. \A j \in i..Len(f) : ~Matches(p, f, i, j)
      BY <2>7
    <3> QED
      BY <2>3, <3>1, <3>2, <3>3, <3>4, FoundNone
  <2>8. CASE ~(i > n) /\ Ends(i) # {}
    <3> DEFINE j == Max(Ends(i))
    <3>1. i \in 1..n
      BY <2>2, <2>8
    <3>2. j \in i..n /\ Matches(p, f, i, j)
      BY <1>2, <2>8, <3>1
    <3>3. from[i] = {<<i, j>>} \cup from[j + 1]
      <4> HIDE DEF Ends
      <4> QED
        BY <2>5, <2>8, <3>1
    <3> HIDE DEF j
    <3>4. FoundFrom(from[j + 1], p, f, j + 1)
      BY <2>4, <3>1, <3>2
    <3> QED
      BY <2>3, <3>1, <3>2, <3>3, <3>4, FoundRound
  <2> QED
    BY <2>6, <2>7, <2>8
<1>5. (n + 1) - n = 1 /\ n \in Nat /\ n <= n
  OBVIOUS
<1>6. n \notin Bad
  BY <1>4, Zenon
<1>7. FoundFrom(from[(n + 1) - n], p, f, (n + 1) - n)
  <2> HIDE DEF n
  <2> QED
    BY <1>5, <1>6
<1> QED
  <2> HIDE DEF n
  <2> QED
    BY <1>1, <1>5, <1>7

-----------------------------------------------------------------------------
(* Replacement.                                                             *)

\* What is kept of n positions when each span leaves one, and the text they make.
Kept(S, n) == {k \in 1..n : \A s \in S : k \notin (s[1] + 1)..s[2]}
Begins(S, k) == \E s \in S : k = s[1]
Through(t, S, marker, left) ==
    [k \in 1..Len(left) |-> IF Begins(S, left[k]) THEN marker ELSE t[left[k]]]

\* A list that holds the first m positions begins with them.
LEMMA ListBegins ==
    ASSUME NEW n \in Nat, NEW S \in SUBSET (1..n), NEW h, Lists(h, S),
           NEW m \in Nat, 1..m \subseteq S
    PROVE  \A i \in 1..m : i \in 1..Len(h) /\ h[i] = i
<1> DEFINE D == {i \in Nat : i \in 1..m /\ ~(i \in 1..Len(h) /\ h[i] = i)}
<1>1. /\ Len(h) \in Nat
      /\ \A i \in 1..Len(h) : h[i] \in 1..n /\ h[i] \in Int
      /\ \A i, j \in 1..Len(h) : i < j => h[i] < h[j]
  BY DEF Lists, Increasing
<1>2. D = {}
  <2> SUFFICES ASSUME D # {} PROVE FALSE
    OBVIOUS
  <2>1. PICK i \in D : \A j \in D : i <= j
    <3>1. D \in SUBSET Nat
      OBVIOUS
    <3> HIDE DEF D
    <3> QED
      BY <3>1, LeastNumber
  <2>2. i \in Nat /\ i \in 1..m /\ ~(i \in 1..Len(h) /\ h[i] = i)
    OBVIOUS
  <2>3. ASSUME NEW k \in 1..(i - 1) PROVE k \in 1..Len(h) /\ h[k] = k
    <3>1. k \in Nat /\ k \in 1..m /\ k < i
      BY <2>2
    <3>2. k \notin D
      <4> HIDE DEF D
      <4> QED
        BY <2>1, <2>2, <3>1
    <3> QED
      BY <3>1, <3>2
  <2>4. PICK l \in 1..Len(h) : h[l] = i
    BY <2>2 DEF Lists
  <2>5. ~(l < i)
    BY <1>1, <2>2, <2>3, <2>4
  <2>6. i \in 1..Len(h) /\ l # i
    BY <1>1, <2>2, <2>4, <2>5
  <2>7. h[i] < i /\ h[i] \in 1..(i - 1)
    BY <1>1, <2>2, <2>4, <2>5, <2>6
  <2>8. h[h[i]] = h[i] /\ h[i] \in 1..Len(h)
    BY <2>3, <2>7
  <2>9. h[h[i]] < h[i]
    BY <1>1, <2>6, <2>7, <2>8
  <2> QED
    BY <1>1, <2>6, <2>8, <2>9
<1> QED
  <2> TAKE i \in 1..m
  <2>1. i \in Nat /\ i \notin D
    BY <1>2
  <2> QED
    BY <2>1

\* The span on the left of all others is replaced after them.
LEMMA CutStep ==
    ASSUME NEW V, NEW t \in Seq(V), NEW marker \in V, NEW S, Spaced(S, Len(t)),
           NEW s \in S, \A r \in S : s[1] <= r[1],
           NEW h, Lists(h, Kept(S \ {s}, Len(t)))
    PROVE  \E g : /\ Lists(g, Kept(S, Len(t)))
                  /\ Cut(Through(t, S \ {s}, marker, h), s, marker) = Through(t, S, marker, g)
<1> DEFINE n == Len(t)
           R == S \ {s}
           a == s[1]
           b == s[2]
           L == Len(h)
           u == Through(t, R, marker, h)
           g == [i \in 1..(L - (b - a)) |-> IF i <= a THEN h[i] ELSE h[i + (b - a)]]
<1>1. n \in Nat /\ a \in 1..n /\ b \in 1..n /\ a <= b /\ L \in Nat
  <2>1. PICK i, j \in 1..n : i <= j /\ s = <<i, j>>
    BY DEF Spaced
  <2> QED
    BY <2>1 DEF Lists
<1>2. \A r \in R : r[1] \in 1..n /\ r[2] \in 1..n /\ b < r[1]
  <2> TAKE r \in R
  <2>1. PICK i, j \in 1..n : i <= j /\ r = <<i, j>>
    BY DEF Spaced
  <2>2. r # s /\ r \in S /\ s[1] <= r[1]
    OBVIOUS
  <2>3. s[2] < r[1] \/ r[2] < s[1]
    BY <2>2 DEF Spaced
  <2> QED
    BY <1>1, <2>1, <2>2, <2>3
<1> HIDE DEF a, b, n, R, L
<1>3. \A i \in 1..b : i \in 1..L /\ h[i] = i
  <2>1. 1..b \subseteq Kept(R, n) /\ Kept(R, n) \in SUBSET (1..n)
    BY <1>1, <1>2 DEF Kept
  <2>2. Lists(h, Kept(R, n))
    BY DEF R, n
  <2>3. b \in Nat
    BY <1>1
  <2> QED
    BY <1>1, <2>1, <2>2, <2>3, ListBegins DEF L
<1>4. b <= L
  BY <1>1, <1>3
<1>5. /\ \A i \in 1..L : h[i] \in Kept(R, n) /\ h[i] \in Int /\ h[i] \in 1..n
      /\ \A i, j \in 1..L : i < j => h[i] < h[j]
      /\ \A x \in Kept(R, n) : \E i \in 1..L : h[i] = x
  BY DEF Lists, Increasing, R, n, L, Kept
<1>6. \A i \in 1..L : b < i => b < h[i]
  BY <1>1, <1>3, <1>5
<1>7. Kept(S, n) = {x \in Kept(R, n) : ~(a < x /\ x <= b)}
  <2>1. \A x \in 1..n : x \in (s[1] + 1)..s[2] <=> a < x /\ x <= b
    BY <1>1 DEF a, b
  <2> QED
    BY <2>1 DEF Kept, R
<1>8. /\ g \in Seq(Int)
      /\ Len(g) = L - (b - a)
      /\ \A i \in 1..Len(g) : IF i <= a THEN g[i] = i /\ h[i] = i /\ i \in 1..L
                                        ELSE /\ g[i] = h[i + (b - a)] /\ i + (b - a) \in 1..L
                                             /\ b < i + (b - a)
  <2>1. L - (b - a) \in Nat
    BY <1>1, <1>4
  <2>2. ASSUME NEW i \in 1..(L - (b - a)), i <= a PROVE g[i] = i /\ h[i] = i /\ i \in 1..L
    <3>1. i \in 1..b
      BY <1>1, <2>2
    <3> QED
      BY <1>3, <2>2, <3>1
  <2>3. ASSUME NEW i \in 1..(L - (b - a)), ~(i <= a)
        PROVE g[i] = h[i + (b - a)] /\ i + (b - a) \in 1..L /\ b < i + (b - a)
    BY <1>1, <1>4, <2>3
  <2>4. \A i \in 1..(L - (b - a)) : g[i] \in Int
    BY <1>5, <2>2, <2>3
  <2>5. g \in Seq(Int) /\ Len(g) = L - (b - a)
    <3>1. g \in [1..(L - (b - a)) -> Int]
      BY <2>4
    <3> HIDE DEF g
    <3> QED
      BY <2>1, <3>1
  <2> QED
    BY <2>2, <2>3, <2>5
<1> HIDE DEF g
<1>9. Lists(g, Kept(S, n))
  <2>1. Increasing(g)
    <3> SUFFICES ASSUME NEW i \in 1..Len(g), NEW j \in 1..Len(g), i < j PROVE g[i] < g[j]
      BY DEF Increasing
    <3>1. CASE j <= a
      BY <1>1, <1>8, <3>1
    <3>2. CASE ~(j <= a) /\ i <= a
      <4>1. g[i] = i /\ g[j] = h[j + (b - a)] /\ b < h[j + (b - a)]
        BY <1>6, <1>8, <3>2
      <4>2. h[j + (b - a)] \in Int
        BY <1>5, <1>8, <3>2
      <4> QED
        BY <1>1, <1>8, <3>2, <4>1, <4>2
    <3>3. CASE ~(j <= a) /\ ~(i <= a)
      <4>1. i + (b - a) < j + (b - a)
        BY <1>1, <1>8
      <4> QED
        BY <1>5, <1>8, <3>3, <4>1
    <3> QED
      BY <3>1, <3>2, <3>3
  <2>2. \A i \in 1..Len(g) : g[i] \in Kept(S, n)
    <3> TAKE i \in 1..Len(g)
    <3>1. CASE i <= a
      <4>1. g[i] = i /\ h[i] = i /\ i \in 1..L
        BY <1>8, <3>1
      <4>2. g[i] \in Kept(R, n)
        BY <1>5, <4>1
      <4>3. ~(a < g[i])
        BY <1>1, <3>1, <4>1
      <4> QED
        BY <1>7, <4>2, <4>3
    <3>2. CASE ~(i <= a)
      <4>1. g[i] = h[i + (b - a)] /\ i + (b - a) \in 1..L /\ b < h[i + (b - a)]
        BY <1>6, <1>8, <3>2
      <4>2. h[i + (b - a)] \in Kept(R, n) /\ h[i + (b - a)] \in Int
        BY <1>5, <4>1
      <4> QED
        BY <1>1, <1>7, <4>1, <4>2
    <3> QED
      BY <3>1, <3>2
  <2>3. ASSUME NEW x \in Kept(S, n) PROVE \E i \in 1..Len(g) : g[i] = x
    <3>1. PICK l \in 1..L : h[l] = x
      BY <1>5, <1>7
    <3>2. CASE l <= b
      <4>1. h[l] = l
        BY <1>1, <1>3, <3>2
      <4>2. l <= a
        BY <1>1, <1>7, <3>1, <3>2, <4>1
      <4>3. l \in 1..Len(g)
        BY <1>1, <1>4, <1>8, <4>2
      <4> QED
        BY <1>8, <3>1, <4>1, <4>2, <4>3
    <3>3. CASE ~(l <= b)
      <4>1. l - (b - a) \in 1..Len(g) /\ ~(l - (b - a) <= a) /\ (l - (b - a)) + (b - a) = l
        BY <1>1, <1>4, <1>8, <3>3
      <4> QED
        BY <1>8, <3>1, <4>1
    <3> QED
      BY <3>2, <3>3
  <2> QED
    BY <1>8, <2>1, <2>2, <2>3 DEF Lists
<1>10. /\ u \in Seq(V) /\ Len(u) = L
       /\ \A i \in 1..L : u[i] = IF Begins(R, h[i]) THEN marker ELSE t[h[i]]
  <2>1. \A i \in 1..L : t[h[i]] \in V
    BY <1>5 DEF n
  <2>2. u = [i \in 1..L |-> IF Begins(R, h[i]) THEN marker ELSE t[h[i]]]
    BY DEF Through, L
  <2> HIDE DEF u
  <2>3. u \in [1..L -> V]
    BY <2>1, <2>2
  <2> QED
    BY <1>1, <2>2, <2>3
<1> HIDE DEF u
<1>11. /\ Cut(u, s, marker) \in Seq(V)
       /\ Len(Cut(u, s, marker)) = L - (b - a)
       /\ \A i \in 1..(L - (b - a)) :
            Cut(u, s, marker)[i] = IF i < a THEN u[i] ELSE IF i = a THEN marker ELSE u[i + (b - a)]
  <2> DEFINE x == SubSeq(u, 1, a - 1)
             y == SubSeq(u, b + 1, L)
             w == x \o <<marker>>
  <2>1. Cut(u, s, marker) = w \o y
    BY <1>10 DEF Cut, a, b
  <2>2. x \in Seq(V) /\ Len(x) = a - 1 /\ \A i \in 1..(a - 1) : x[i] = u[i]
    BY <1>1, <1>4, <1>10
  <2>3. y \in Seq(V) /\ Len(y) = L - b /\ \A i \in 1..(L - b) : y[i] = u[i + b]
    BY <1>1, <1>4, <1>10
  <2> HIDE DEF x, y
  <2>4. /\ w \in Seq(V) /\ Len(w) = a
        /\ \A i \in 1..(a - 1) : w[i] = u[i]
        /\ w[a] = marker
    BY <1>1, <2>2
  <2> HIDE DEF w
  <2>5. /\ w \o y \in Seq(V) /\ Len(w \o y) = a + (L - b)
        /\ \A i \in 1..a : (w \o y)[i] = w[i]
        /\ \A i \in 1..(L - b) : (w \o y)[a + i] = y[i]
    <3>1. w \o y \in Seq(V) /\ Len(w \o y) = Len(w) + Len(y)
      BY <2>3, <2>4
    <3>2. \A i \in 1..Len(w) : (w \o y)[i] = w[i]
      BY <1>1, <1>4, <2>3, <2>4
    <3>3. \A i \in 1..Len(y) : (w \o y)[Len(w) + i] = y[i]
      BY <1>1, <1>4, <2>3, <2>4
    <3> QED
      BY <2>3, <2>4, <3>1, <3>2, <3>3
  <2>6. ASSUME NEW i \in 1..(L - (b - a)), ~(i <= a)
        PROVE  (w \o y)[i] = u[i + (b - a)]
    <3>1. i - a \in 1..(L - b) /\ a + (i - a) = i /\ (i - a) + b = i + (b - a)
      BY <1>1, <1>4, <2>6
    <3>2. (w \o y)[a + (i - a)] = y[i - a] /\ y[i - a] = u[(i - a) + b]
      BY <2>3, <2>5, <3>1
    <3> QED
      BY <3>1, <3>2
  <2> QED
    BY <1>1, <1>4, <2>1, <2>4, <2>5, <2>6
<1>12. Cut(u, s, marker) = Through(t, S, marker, g)
  <2>1. ASSUME NEW i \in 1..Len(g)
        PROVE  Cut(u, s, marker)[i] = IF Begins(S, g[i]) THEN marker ELSE t[g[i]]
    <3>1. \A x : Begins(S, x) <=> Begins(R, x) \/ x = a
      BY DEF Begins, R, a
    <3>2. \A x \in Int : x <= b => ~Begins(R, x)
      BY <1>1, <1>2 DEF Begins
    <3>3. CASE i < a
      <4>1. g[i] = i /\ h[i] = i /\ i \in 1..L /\ i \in Int /\ i <= b /\ i # a
        BY <1>1, <1>8, <3>3
      <4>2. u[i] = t[i]
        BY <1>10, <3>2, <4>1
      <4> QED
        BY <1>8, <1>11, <3>1, <3>2, <3>3, <4>1, <4>2
    <3>4. CASE i = a
      BY <1>8, <1>11, <3>1, <3>4, <1>1
    <3>5. CASE ~(i <= a)
      <4> DEFINE k == i + (b - a)
      <4>1. g[i] = h[k] /\ k \in 1..L /\ b < h[k] /\ h[k] \in Int
        BY <1>5, <1>6, <1>8, <3>5
      <4>2. h[k] # a
        BY <1>1, <4>1
      <4>3. Cut(u, s, marker)[i] = u[k]
        BY <1>1, <1>8, <1>11, <3>5
      <4> HIDE DEF k
      <4> QED
        BY <1>10, <3>1, <4>1, <4>2, <4>3
    <3> QED
      BY <1>1, <3>3, <3>4, <3>5
  <2>2. Cut(u, s, marker) = [i \in 1..Len(g) |-> Cut(u, s, marker)[i]]
    BY <1>8, <1>11
  <2> QED
    BY <2>1, <2>2 DEF Through
<1>13. Lists(g, Kept(S, Len(t)))
  BY <1>9 DEF n
<1> QED
  BY <1>12, <1>13 DEF u, R

LEMMA ThroughType ==
    ASSUME NEW V, NEW t \in Seq(V), NEW marker \in V, NEW S, NEW left, Lists(left, Kept(S, Len(t)))
    PROVE  /\ Through(t, S, marker, left) \in Seq(V)
           /\ Len(Through(t, S, marker, left)) = Len(left)
           /\ Len(left) \in Nat
<1> DEFINE u == Through(t, S, marker, left)
<1>1. Len(left) \in Nat /\ Len(t) \in Nat
  BY DEF Lists
<1>2. \A i \in 1..Len(left) : t[left[i]] \in V
  BY DEF Lists, Kept
<1>3. u \in [1..Len(left) -> V]
  BY <1>2 DEF Through
<1> HIDE DEF u
<1>4. u \in Seq(V) /\ Len(u) = Len(left)
  BY <1>1, <1>3
<1> QED
  BY <1>1, <1>4 DEF u

LEMMA LeftmostIs ==
    ASSUME NEW n \in Nat, NEW S, S # {}, Spaced(S, n)
    PROVE  Leftmost(S) \in S /\ \A r \in S : Leftmost(S)[1] <= r[1]
<1> DEFINE N == {r[1] : r \in S}
<1>1. \A r \in S : r[1] \in Nat
  BY DEF Spaced
<1>2. PICK k \in N : \A l \in N : k <= l
  <2>1. N \in SUBSET Nat /\ N # {}
    BY <1>1
  <2> HIDE DEF N
  <2> QED
    BY <2>1, LeastNumber
<1>3. PICK s \in S : s[1] = k
  OBVIOUS
<1>4. \A r \in S : s[1] <= r[1]
  BY <1>2, <1>3
<1> QED
  BY <1>4 DEF Leftmost

LEMMA SpacedPart ==
    ASSUME NEW n, NEW S, Spaced(S, n), NEW T \in SUBSET S
    PROVE  Spaced(T, n)
BY DEF Spaced

LEMMA SpacedIsFinite ==
    ASSUME NEW n \in Nat, NEW S, Spaced(S, n)
    PROVE  IsFiniteSet(S)
<1>1. IsFiniteSet(1..n)
  BY FS_Interval
<1>2. IsFiniteSet((1..n) \X (1..n))
  BY <1>1, FS_Product
<1>3. S \subseteq (1..n) \X (1..n)
  BY DEF Spaced
<1> QED
  BY <1>2, <1>3, FS_Subset

\* Where nothing is cut out, nothing changes.
LEMMA ThroughNone ==
    ASSUME NEW V, NEW t \in Seq(V), NEW marker
    PROVE  t = Through(t, {}, marker, InOrder(Kept({}, Len(t))))
<1> DEFINE n == Len(t)
<1>1. n \in Nat
  OBVIOUS
<1> HIDE DEF n
<1> DEFINE id == [i \in 1..n |-> i]
<1>2. Kept({}, n) = 1..n
  BY DEF Kept
<1>3. Lists(id, 1..n)
  <2>1. id \in [1..n -> Int]
    OBVIOUS
  <2>2. id \in Seq(Int) /\ Len(id) = n
    <3> HIDE DEF id
    <3> QED
      BY <1>1, <2>1
  <2> QED
    BY <2>2 DEF Lists, Increasing
<1>4. InOrder(Kept({}, n)) = id
  <2> HIDE DEF id
  <2> QED
    BY <1>1, <1>2, <1>3, InOrderIs
<1>5. Len(id) = n
  <2>1. id \in [1..n -> Int]
    OBVIOUS
  <2> HIDE DEF id
  <2> QED
    BY <1>1, <2>1
<1>6. Through(t, {}, marker, InOrder(Kept({}, n))) = [k \in 1..n |-> t[k]]
  BY <1>4, <1>5 DEF Through, Begins
<1> QED
  BY <1>6 DEF n

\* Every letter outside the spans stays, in its order, and each span leaves one marker.
LEMMA ReplaceIs ==
    ASSUME NEW V, NEW t \in Seq(V), NEW marker \in V, NEW S, Spaced(S, Len(t))
    PROVE  replace_folded(t, S, marker)
             = Through(t, S, marker, InOrder(Kept(S, Len(t))))
<1> DEFINE n == Len(t)
           Made(T) == Through(t, T, marker, InOrder(Kept(T, n)))
           pick == [T \in SUBSET S |-> Leftmost(T)]
           step == [s \in S |-> [u \in Seq(V) |-> Cut(u, s, marker)]]
           W == [T \in SUBSET S |-> {Made(T)}]
           Goes(g) == g = [T \in SUBSET S |->
                             IF T = {} THEN t ELSE Cut(g[T \ {Leftmost(T)}], Leftmost(T), marker)]
           iter == CHOOSE g : Goes(g)
<1>1. n \in Nat
  OBVIOUS
<1> HIDE DEF n
<1>2. IsFiniteSet(S)
  BY <1>1, SpacedIsFinite DEF n
<1>3. \A T \in SUBSET S : Lists(InOrder(Kept(T, n)), Kept(T, n))
  <2> TAKE T \in SUBSET S
  <2>1. Kept(T, n) \in SUBSET (1..n)
    BY DEF Kept
  <2> QED
    BY <1>1, <2>1, InOrderLists
<1>4. \A T \in SUBSET S : Made(T) \in Seq(V)
  BY <1>3, ThroughType DEF n
<1>5. t = Made({})
  BY ThroughNone DEF n
<1>6. ASSUME NEW T \in SUBSET S, T # {}
      PROVE  /\ Leftmost(T) \in T
             /\ Cut(Made(T \ {Leftmost(T)}), Leftmost(T), marker) = Made(T)
  <2>1. Spaced(T, n)
    BY SpacedPart DEF n
  <2>2. Leftmost(T) \in T /\ \A r \in T : Leftmost(T)[1] <= r[1]
    BY <1>1, <1>6, <2>1, LeftmostIs
  <2>3. Lists(InOrder(Kept(T \ {Leftmost(T)}, n)), Kept(T \ {Leftmost(T)}, n))
    BY <1>3
  <2>4. PICK g : /\ Lists(g, Kept(T, n))
                 /\ Cut(Made(T \ {Leftmost(T)}), Leftmost(T), marker) = Through(t, T, marker, g)
    BY <2>1, <2>2, <2>3, CutStep DEF n
  <2>5. Kept(T, n) \in SUBSET (1..n)
    BY DEF Kept
  <2>6. InOrder(Kept(T, n)) = g
    BY <1>1, <2>4, <2>5, InOrderIs
  <2> QED
    BY <2>2, <2>4, <2>6
<1> HIDE DEF Made
<1>7. Goes(iter)
  <2>1. \A T \in SUBSET S : T # {} =>
          pick[T] \in T /\ \A v \in W[T \ {pick[T]}] : step[pick[T]][v] \in W[T]
    BY <1>4, <1>6
  <2>2. PICK g : /\ GoesRound(g, S, t, pick, step)
                 /\ \A T \in SUBSET S : g[T] \in W[T]
    <3>1. t \in W[{}]
      BY <1>5
    <3> HIDE DEF pick, step, W
    <3> QED
      BY <1>2, <2>1, <3>1, FoldExists
  <2>3. ASSUME NEW T \in SUBSET S
        PROVE  Round(g, T, t, pick, step)
                 = IF T = {} THEN t ELSE Cut(g[T \ {Leftmost(T)}], Leftmost(T), marker)
    <3>1. CASE T = {}
      BY <3>1 DEF Round
    <3>2. CASE T # {}
      <4>1. Leftmost(T) \in S /\ g[T \ {Leftmost(T)}] \in Seq(V)
        BY <1>4, <1>6, <2>2, <3>2
      <4> QED
        BY <3>2, <4>1 DEF Round
    <3> QED
      BY <3>1, <3>2
  <2>4. Goes(g)
    <3> HIDE DEF pick, step, W
    <3> QED
      BY <2>2, <2>3 DEF GoesRound
  <2> HIDE DEF Goes
  <2> QED
    BY <2>4, Zenon
<1>8. replace_folded(t, S, marker) = iter[S]
  BY DEF replace_folded, MapThenFoldSet
<1> HIDE DEF iter
<1> DEFINE G == {T \in SUBSET S : iter[T] = Made(T)}
<1>9. {} \in G
  BY <1>5, <1>7
<1>10. ASSUME NEW T \in SUBSET S, T # {} PROVE \E x \in T : T \ {x} \in G => T \in G
  BY <1>6, <1>7, <1>10
<1>11. S \in G
  <2> HIDE DEF G
  <2> QED
    BY <1>2, <1>9, <1>10, ByRemoval
<1> QED
  BY <1>8, <1>11 DEF Made, n

-----------------------------------------------------------------------------
(* Folding, and what replacement makes of the folded text.                  *)

Visible(t) == {i \in 1..Len(t) : ~is_invisible(t[i])}

LEMMA OriginIs ==
    ASSUME NEW V, NEW t \in Seq(V)
    PROVE  Lists(Origin(t), Visible(t))
<1>1. Len(t) \in Nat /\ Visible(t) \in SUBSET (1..Len(t))
  BY DEF Visible
<1>2. Lists(InOrder(Visible(t)), Visible(t))
  BY <1>1, InOrderLists
<1> QED
  BY <1>2 DEF Origin, Visible

LEMMA FoldedIs ==
    ASSUME NEW V, NEW t \in Seq(V)
    PROVE  /\ Len(Origin(t)) \in Nat
           /\ Folded(t) \in Seq({Plain(t[k]) : k \in 1..Len(t)})
           /\ Len(Folded(t)) = Len(Origin(t))
           /\ \A k \in 1..Len(Origin(t)) : /\ Origin(t)[k] \in Visible(t)
                                           /\ Folded(t)[k] = Plain(t[Origin(t)[k]])
<1> DEFINE o == Origin(t)
           F == {Plain(t[k]) : k \in 1..Len(t)}
<1>1. /\ Len(o) \in Nat
      /\ \A k \in 1..Len(o) : o[k] \in Visible(t) /\ o[k] \in 1..Len(t)
  BY OriginIs DEF Lists, Visible
<1>2. Folded(t) = [k \in 1..Len(o) |-> Plain(t[o[k]])]
  BY DEF Folded
<1> HIDE DEF o
<1>3. Folded(t) \in [1..Len(o) -> F]
  BY <1>1, <1>2
<1>4. Folded(t) \in Seq(F) /\ Len(Folded(t)) = Len(o)
  <2> HIDE DEF F
  <2> QED
    BY <1>1, <1>3
<1> QED
  BY <1>1, <1>2, <1>4 DEF o

\* A span of the folded text and the span that it stands for.
Lifted(o, M) == {original_span(o, m) : m \in M}

LEMMA SpansLift ==
    ASSUME NEW n \in Nat, NEW S \in SUBSET (1..n), NEW o, Lists(o, S),
           NEW M, Spaced(M, Len(o))
    PROVE  /\ Spaced(Lifted(o, M), n)
           /\ \A x \in 1..Len(o) : /\ o[x] \in Kept(Lifted(o, M), n) <=> x \in Kept(M, Len(o))
                                   /\ Begins(Lifted(o, M), o[x]) <=> Begins(M, x)
<1> DEFINE C == {original_span(o, m) : m \in M}
<1>1. /\ Len(o) \in Nat
      /\ \A x \in 1..Len(o) : o[x] \in 1..n /\ o[x] \in Int
      /\ \A x, y \in 1..Len(o) : x < y => o[x] < o[y]
  BY DEF Lists, Increasing
<1>2. ASSUME NEW m \in M
      PROVE  /\ m[1] \in 1..Len(o) /\ m[2] \in 1..Len(o) /\ m[1] <= m[2]
             /\ original_span(o, m)[1] = o[m[1]] /\ original_span(o, m)[2] = o[m[2]]
             /\ original_span(o, m) = <<o[m[1]], o[m[2]]>>
    <2>1. PICK a, b \in 1..Len(o) : a <= b /\ m = <<a, b>>
      BY DEF Spaced
    <2> QED
      BY <2>1 DEF original_span
<1>3. Spaced(C, n)
  <2>1. ASSUME NEW c \in C PROVE \E i, j \in 1..n : i <= j /\ c = <<i, j>>
    <3>1. PICK m \in M : c = original_span(o, m)
      OBVIOUS
    <3>2. m[1] < m[2] => o[m[1]] < o[m[2]]
      BY <1>1, <1>2
    <3>3. o[m[1]] <= o[m[2]] /\ o[m[1]] \in 1..n /\ o[m[2]] \in 1..n
      BY <1>1, <1>2, <3>2
    <3> QED
      BY <1>2, <3>1, <3>3
  <2>2. ASSUME NEW c \in C, NEW d \in C PROVE c = d \/ c[2] < d[1] \/ d[2] < c[1]
    <3>1. PICK m \in M, l \in M : c = original_span(o, m) /\ d = original_span(o, l)
      OBVIOUS
    <3>2. m = l \/ m[2] < l[1] \/ l[2] < m[1]
      BY DEF Spaced
    <3> QED
      BY <1>1, <1>2, <3>1, <3>2
  <2> HIDE DEF C
  <2> QED
    BY <2>1, <2>2 DEF Spaced
<1>4. ASSUME NEW x \in 1..Len(o)
      PROVE  /\ o[x] \in Kept(C, n) <=> x \in Kept(M, Len(o))
             /\ Begins(C, o[x]) <=> Begins(M, x)
  <2>1. ASSUME NEW m \in M
        PROVE  /\ o[x] \in (original_span(o, m)[1] + 1)..original_span(o, m)[2]
                    <=> x \in (m[1] + 1)..m[2]
               /\ o[x] = original_span(o, m)[1] <=> x = m[1]
    <3> DEFINE a == m[1]
               b == m[2]
    <3>1. /\ a \in 1..Len(o) /\ b \in 1..Len(o)
          /\ original_span(o, m)[1] = o[a] /\ original_span(o, m)[2] = o[b]
      BY <1>2
    <3> HIDE DEF a, b
    <3>2. (o[a] < o[x] <=> a < x) /\ (o[x] = o[a] <=> x = a)
      BY <1>1, <3>1
    <3>3. o[x] <= o[b] <=> x <= b
      BY <1>1, <3>1
    <3>4. /\ o[x] \in Int /\ o[a] \in Int /\ o[b] \in Int
          /\ x \in Int /\ a \in Int /\ b \in Int
      BY <1>1, <3>1
    <3>5. o[x] \in (o[a] + 1)..o[b] <=> o[a] < o[x] /\ o[x] <= o[b]
      BY <3>4
    <3>6. x \in (a + 1)..b <=> a < x /\ x <= b
      BY <3>4
    <3> QED
      BY <3>1, <3>2, <3>3, <3>5, <3>6 DEF a, b
  <2>2. o[x] \in Kept(C, n) <=> \A m \in M : o[x] \notin (original_span(o, m)[1] + 1)..original_span(o, m)[2]
    BY <1>1 DEF Kept
  <2>3. x \in Kept(M, Len(o)) <=> \A m \in M : x \notin (m[1] + 1)..m[2]
    BY DEF Kept
  <2>4. Begins(C, o[x]) <=> \E m \in M : o[x] = original_span(o, m)[1]
    BY DEF Begins
  <2>5. Begins(M, x) <=> \E m \in M : x = m[1]
    BY DEF Begins
  <2> QED
    BY <2>1, <2>2, <2>3, <2>4, <2>5
<1> QED
  BY <1>3, <1>4 DEF Lifted

\* u is what f is when the spans M are replaced in it: g says what has come from where.
Follows(g, u, f, M, marker) ==
    /\ Lists(g, Kept(M, Len(f)))
    /\ Len(g) = Len(u)
    /\ \A i \in 1..Len(g) : u[i] = IF Begins(M, g[i]) THEN marker ELSE f[g[i]]

\* The folded text has the same replaced in it as the text.
LEMMA FoldedThrough ==
    ASSUME NEW V, NEW t \in Seq(V), NEW marker \in V, ~is_invisible(marker), Plain(marker) = marker,
           NEW M, Spaced(M, Len(Origin(t))),
           NEW left, Lists(left, Kept(Lifted(Origin(t), M), Len(t)))
    PROVE  \E g : Follows(g, Folded(Through(t, Lifted(Origin(t), M), marker, left)),
                         Folded(t), M, marker)
<1> DEFINE C == Lifted(Origin(t), M)
           u == Through(t, C, marker, left)
           n == Len(t)
           o == Origin(t)
           ou == Origin(u)
<1>1. n \in Nat /\ Visible(t) \in SUBSET (1..n) /\ Lists(o, Visible(t))
  BY OriginIs DEF Visible
<1>2. /\ u \in Seq(V) /\ Len(u) = Len(left) /\ Len(left) \in Nat
      /\ \A k \in 1..Len(left) : u[k] = IF Begins(C, left[k]) THEN marker ELSE t[left[k]]
  <2>1. Lists(left, Kept(C, Len(t)))
    OBVIOUS
  <2>2. u \in Seq(V) /\ Len(u) = Len(left) /\ Len(left) \in Nat
    BY <2>1, ThroughType DEF C
  <2> QED
    BY <2>2 DEF Through
<1>3. /\ Len(Folded(t)) = Len(o) /\ Len(o) \in Nat
      /\ \A k \in 1..Len(o) : Folded(t)[k] = Plain(t[o[k]])
      /\ Len(Folded(u)) = Len(ou) /\ Len(ou) \in Nat
      /\ \A k \in 1..Len(ou) : Folded(u)[k] = Plain(u[ou[k]])
  BY <1>2, FoldedIs
<1>4. Lists(ou, Visible(u))
  BY <1>2, OriginIs
<1>5. \A x \in 1..Len(o) : /\ o[x] \in Kept(C, n) <=> x \in Kept(M, Len(o))
                           /\ Begins(C, o[x]) <=> Begins(M, x)
  <2> HIDE DEF o
  <2> QED
    BY <1>1, SpansLift DEF o
<1>18. Lists(left, Kept(C, n))
  OBVIOUS
<1> HIDE DEF o, ou, C, u
<1>6. /\ \A x \in 1..Len(o) : o[x] \in Visible(t) /\ o[x] \in Int
      /\ \A x, y \in 1..Len(o) : x < y => o[x] < o[y]
      /\ \A v \in Visible(t) : \E x \in 1..Len(o) : o[x] = v
  BY <1>1, ListsGive
<1>7. /\ \A k \in 1..Len(left) : left[k] \in Kept(C, n) /\ left[k] \in 1..n /\ left[k] \in Int
      /\ \A k, l \in 1..Len(left) : k < l => left[k] < left[l]
      /\ \A v \in Kept(C, n) : \E k \in 1..Len(left) : left[k] = v
  <2>1. \A k \in Kept(C, n) : k \in 1..n
    BY DEF Kept
  <2> QED
    BY <1>18, <2>1, ListsGive
<1>8. /\ \A i \in 1..Len(ou) : ou[i] \in Visible(u) /\ ou[i] \in 1..Len(left) /\ ou[i] \in Int
      /\ \A i, j \in 1..Len(ou) : i < j => ou[i] < ou[j]
      /\ \A k \in Visible(u) : \E i \in 1..Len(ou) : ou[i] = k
  <2>1. \A k \in Visible(u) : k \in 1..Len(left)
    BY <1>2 DEF Visible
  <2> QED
    BY <1>4, <2>1, ListsGive
<1>9. \A x : Begins(C, x) => x \in Visible(t)
  <2> SUFFICES ASSUME NEW x, Begins(C, x) PROVE x \in Visible(t)
    OBVIOUS
  <2>1. PICK m \in M : x = original_span(o, m)[1]
    BY DEF Begins, o, C, Lifted
  <2>2. PICK a, b \in 1..Len(o) : m = <<a, b>>
    BY DEF Spaced, o
  <2>3. x = o[a]
    BY <2>1, <2>2 DEF original_span
  <2> QED
    BY <1>6, <2>2, <2>3
<1>10. \A k \in 1..Len(left) : k \in Visible(u) <=> left[k] \in Visible(t)
  <2> TAKE k \in 1..Len(left)
  <2>1. k \in Visible(u) <=> ~is_invisible(u[k])
    BY <1>2 DEF Visible
  <2>2. left[k] \in Visible(t) <=> ~is_invisible(t[left[k]])
    BY <1>7 DEF Visible, n
  <2> QED
    BY <1>2, <1>9, <2>1, <2>2
<1> DEFINE g == [i \in 1..Len(ou) |-> CHOOSE x \in 1..Len(o) : o[x] = left[ou[i]]]
<1>11. \A i \in 1..Len(ou) : g[i] \in 1..Len(o) /\ g[i] \in Int /\ o[g[i]] = left[ou[i]]
  <2> TAKE i \in 1..Len(ou)
  <2>1. left[ou[i]] \in Visible(t)
    BY <1>8, <1>10
  <2>2. \E x \in 1..Len(o) : o[x] = left[ou[i]]
    BY <1>6, <2>1
  <2>3. g[i] \in 1..Len(o) /\ o[g[i]] = left[ou[i]]
    BY <2>2
  <2> HIDE DEF g
  <2> QED
    BY <1>3, <2>3
<1>12. g \in Seq(Int) /\ Len(g) = Len(ou)
  <2>1. g \in [1..Len(ou) -> Int]
    BY <1>11
  <2> HIDE DEF g
  <2> QED
    BY <1>3, <2>1
<1> HIDE DEF g
<1>13. Increasing(g)
  <2> SUFFICES ASSUME NEW i \in 1..Len(ou), NEW j \in 1..Len(ou), i < j PROVE g[i] < g[j]
    BY <1>12 DEF Increasing
  <2>1. left[ou[i]] < left[ou[j]]
    BY <1>7, <1>8
  <2>2. /\ left[ou[i]] \in Int /\ left[ou[j]] \in Int
        /\ g[i] \in 1..Len(o) /\ g[j] \in 1..Len(o)
        /\ o[g[i]] = left[ou[i]] /\ o[g[j]] = left[ou[j]]
    BY <1>7, <1>8, <1>11
  <2>3. g[i] # g[j]
    BY <2>1, <2>2
  <2>4. ~(g[j] < g[i])
    BY <1>6, <2>1, <2>2
  <2> QED
    BY <1>11, <2>3, <2>4
<1>14. \A i \in 1..Len(g) : g[i] \in Kept(M, Len(o))
  BY <1>5, <1>7, <1>8, <1>11, <1>12
<1>15. ASSUME NEW x \in Kept(M, Len(o)) PROVE \E i \in 1..Len(g) : g[i] = x
  <2>1. x \in 1..Len(o)
    BY DEF Kept
  <2>2. o[x] \in Kept(C, n) /\ o[x] \in Visible(t)
    BY <1>5, <1>6, <2>1
  <2>3. PICK k \in 1..Len(left) : left[k] = o[x]
    BY <1>7, <2>2
  <2>4. PICK i \in 1..Len(ou) : ou[i] = k
    BY <1>8, <1>10, <2>2, <2>3
  <2>5. g[i] \in 1..Len(o) /\ o[g[i]] = o[x]
    BY <1>11, <2>3, <2>4
  <2>6. ~(g[i] < x) /\ ~(x < g[i])
    BY <1>6, <2>1, <2>5
  <2>7. g[i] = x
    BY <1>3, <2>1, <2>5, <2>6
  <2> QED
    BY <1>12, <2>7
<1>16. ASSUME NEW i \in 1..Len(g)
       PROVE  Folded(u)[i] = IF Begins(M, g[i]) THEN marker ELSE Folded(t)[g[i]]
  <2>1. i \in 1..Len(ou)
    BY <1>12
  <2>2. Begins(C, left[ou[i]]) <=> Begins(M, g[i])
    BY <1>5, <1>11, <2>1
  <2>3. u[ou[i]] = IF Begins(C, left[ou[i]]) THEN marker ELSE t[left[ou[i]]]
    BY <1>2, <1>8, <2>1
  <2>4. Folded(u)[i] = Plain(u[ou[i]]) /\ Folded(t)[g[i]] = Plain(t[left[ou[i]]])
    BY <1>3, <1>11, <2>1
  <2> QED
    BY <2>2, <2>3, <2>4
<1>17. Lists(g, Kept(M, Len(o)))
  BY <1>12, <1>13, <1>14, <1>15 DEF Lists
<1>19. Follows(g, Folded(u), Folded(t), M, marker)
  BY <1>3, <1>12, <1>16, <1>17 DEF Follows
<1> QED
  BY <1>19 DEF u, C

-----------------------------------------------------------------------------
(* Defusing settles.                                                        *)

Patterns == {"fence", "citation", "path"}

\* A marker is none of the letters that patterns are made of, nor folded to one.
LEMMA MarkersAre ==
    ASSUME NEW p \in Patterns
    PROVE  /\ Marker(p) \notin White \cup {"fence", "[1", "]", "path:"}
           /\ ~is_invisible(Marker(p)) /\ Plain(Marker(p)) = Marker(p)
BY DEF Patterns, Marker, White, is_invisible, Plain

\* A match in the text after a replacement was one before it, and apart from the spans
\* that were replaced: their markers would be in it.
LEMMA MatchWas ==
    ASSUME NEW f, Len(f) \in Nat, NEW M, Spaced(M, Len(f)),
           NEW marker, marker \notin White \cup {"fence", "[1", "]", "path:"},
           NEW g, NEW u, Follows(g, u, f, M, marker),
           NEW p \in Patterns, NEW i \in 1..Len(u), NEW j \in i..Len(u), Matches(p, u, i, j)
    PROVE  /\ g[i] \in 1..Len(f) /\ g[j] \in 1..Len(f) /\ g[i] <= g[j]
           /\ Matches(p, f, g[i], g[j])
           /\ \A m \in M : ~Covers(g[i], m)
<1>1. /\ Len(g) \in Nat
      /\ \A k \in 1..Len(g) : g[k] \in Kept(M, Len(f)) /\ g[k] \in Int
      /\ \A k, l \in 1..Len(g) : k < l => g[k] < g[l]
      /\ \A x \in Kept(M, Len(f)) : \E k \in 1..Len(g) : g[k] = x
  BY ListsGive DEF Follows
<1>2. /\ i \in 1..Len(g) /\ j \in 1..Len(g) /\ i \in Int /\ j \in Int /\ i <= j
      /\ \A k \in i..j : k \in 1..Len(g) /\ k \in Int
  BY <1>1 DEF Follows
<1>3. \A k \in 1..Len(g) : g[k] \in 1..Len(f)
  BY <1>1 DEF Kept
<1>4. g[i] <= g[j]
  BY <1>1, <1>2
<1>5. \A m \in M : /\ m[1] \in 1..Len(f) /\ m[2] \in 1..Len(f) /\ m[1] <= m[2]
                   /\ m[1] \in Kept(M, Len(f))
  <2> TAKE m \in M
  <2>1. \A l \in M : /\ l[1] \in 1..Len(f) /\ l[2] \in 1..Len(f) /\ l[1] <= l[2]
                     /\ l[1] \in Int /\ l[2] \in Int
    <3> TAKE l \in M
    <3>1. PICK a, b \in 1..Len(f) : a <= b /\ l = <<a, b>>
      BY DEF Spaced
    <3> QED
      BY <3>1
  <2>2. \A l \in M : m[1] \notin (l[1] + 1)..l[2]
    <3> TAKE l \in M
    <3>1. m = l \/ m[2] < l[1] \/ l[2] < m[1]
      BY DEF Spaced
    <3> QED
      BY <2>1, <3>1
  <2> QED
    BY <2>1, <2>2 DEF Kept
\* What stands in front of a kept position is no span's, when its letter is no marker.
<1>6. ASSUME NEW k \in 1..Len(g), u[k] # marker PROVE ~Begins(M, g[k]) /\ f[g[k]] = u[k]
  BY <1>6 DEF Follows
<1>7. ASSUME NEW m \in M, NEW x \in Int, Covers(x, m)
      PROVE  \E l \in 1..Len(g) : g[l] = m[1] /\ u[l] = marker
  <2>1. PICK l \in 1..Len(g) : g[l] = m[1]
    BY <1>1, <1>5
  <2>2. Begins(M, g[l])
    BY <2>1 DEF Begins
  <2> QED
    BY <2>1, <2>2 DEF Follows
<1>8. ASSUME NEW k \in i..j PROVE u[k] # marker
  <2>1. u[k] \in White \cup {"fence", "[1", "]", "path:"}
    <3>1. CASE p = "fence"
      BY <1>2, <3>1 DEF Matches
    <3>2. CASE p = "citation"
      <4>1. k = i \/ k = j \/ k \in (i + 1)..(j - 1)
        BY <1>2
      <4> QED
        BY <3>2, <4>1 DEF Matches, AreBlank
    <3>3. CASE p = "path"
      <4>1. k = j \/ k \in i..(j - 1)
        BY <1>2
      <4> QED
        BY <3>3, <4>1 DEF Matches, AreBlank
    <3> QED
      BY <3>1, <3>2, <3>3 DEF Patterns
  <2> QED
    BY <2>1
<1>9. ASSUME NEW x \in g[i]..g[j], NEW m \in M PROVE ~Covers(x, m)
  <2> SUFFICES ASSUME Covers(x, m) PROVE FALSE
    OBVIOUS
  <2>1. x \in Int /\ g[i] <= x /\ x <= g[j] /\ g[i] \in Int /\ g[j] \in Int
    BY <1>1, <1>2
  <2>2. PICK l \in 1..Len(g) : g[l] = m[1] /\ u[l] = marker
    BY <1>7, <2>1
  <2>3. l \notin i..j
    BY <1>8, <2>2
  <2>4. m[1] <= x /\ x <= m[2] /\ m[1] \in Int /\ m[2] \in Int
    BY <1>5 DEF Covers
  <2>5. l < i \/ j < l
    BY <1>2, <2>3
  <2>6. ~(j < l)
    BY <1>1, <1>2, <2>1, <2>2, <2>4
  <2>7. g[l] < g[i]
    BY <1>1, <1>2, <2>5, <2>6
  <2>8. g[i] \in (m[1] + 1)..m[2]
    BY <2>1, <2>2, <2>4, <2>7
  <2>9. g[i] \in Kept(M, Len(f))
    BY <1>1, <1>2
  <2> QED
    BY <2>8, <2>9 DEF Kept
<1>10. ASSUME NEW x \in 1..Len(f), \A m \in M : ~Covers(x, m)
       PROVE  \E l \in 1..Len(g) : g[l] = x
  <2>1. \A m \in M : x \notin (m[1] + 1)..m[2]
    BY <1>5, <1>10 DEF Covers
  <2>2. x \in Kept(M, Len(f))
    BY <2>1 DEF Kept
  <2> QED
    BY <1>1, <2>2
<1>11. ASSUME NEW x \in g[i]..g[j] PROVE \E l \in i..j : g[l] = x
  <2>1. x \in 1..Len(f)
    BY <1>2, <1>3
  <2>2. PICK l \in 1..Len(g) : g[l] = x
    BY <1>9, <1>10, <2>1
  <2>3. ~(l < i) /\ ~(j < l)
    BY <1>1, <1>2, <2>2
  <2> QED
    BY <1>2, <2>2, <2>3
\* Nothing but a span could hide the newline in front of a path.
<1>12. ASSUME i = 1 \/ u[i - 1] = "newline" PROVE g[i] = 1 \/ f[g[i] - 1] = "newline"
  <2> SUFFICES ASSUME g[i] # 1 PROVE f[g[i] - 1] = "newline"
    OBVIOUS
  <2> DEFINE x == g[i] - 1
  <2>1. x \in 1..Len(f) /\ x \in Int /\ x < g[i] /\ g[i] \in Int
    BY <1>1, <1>2, <1>3
  <2>2. ASSUME NEW l \in 1..Len(g), g[l] < g[i] PROVE l < i /\ g[l] <= g[i - 1] /\ i - 1 \in 1..Len(g)
    <3>1. l < i
      BY <1>1, <1>2, <2>2
    <3>2. i - 1 \in 1..Len(g) /\ (l < i - 1 \/ l = i - 1)
      BY <1>2, <3>1
    <3> DEFINE k == i - 1
    <3>3. k \in 1..Len(g) /\ (l < k \/ l = k)
      BY <3>2
    <3> HIDE DEF k
    <3>4. g[l] \in Int /\ g[k] \in Int
      BY <1>1, <3>3
    <3>5. g[l] <= g[k]
      BY <1>1, <3>3, <3>4
    <3> QED
      BY <3>1, <3>3, <3>5 DEF k
  <2>3. ASSUME NEW m \in M, Covers(x, m) PROVE FALSE
    <3>1. PICK l \in 1..Len(g) : g[l] = m[1] /\ u[l] = marker
      BY <1>7, <2>1, <2>3
    <3>2. m[1] <= x /\ x <= m[2] /\ m[1] \in Int /\ m[2] \in Int
      BY <1>5, <2>3 DEF Covers
    <3>3. g[l] < g[i]
      BY <2>1, <3>1, <3>2
    <3>4. l < i /\ g[l] <= g[i - 1] /\ i - 1 \in 1..Len(g)
      BY <2>2, <3>3
    <3>5. g[i - 1] \in Kept(M, Len(f)) /\ g[i - 1] \in Int /\ g[i - 1] < g[i]
      BY <1>1, <1>2, <3>4
    <3>6. g[i - 1] \notin (m[1] + 1)..m[2]
      BY <3>5 DEF Kept
    <3>7. g[i - 1] = m[1]
      <4> DEFINE y == g[i - 1]
      <4>1. y \in Int /\ m[1] <= y /\ y < g[i] /\ y \notin (m[1] + 1)..m[2]
        BY <3>1, <3>4, <3>5, <3>6
      <4> HIDE DEF y
      <4>2. y <= x
        BY <2>1, <4>1
      <4>3. y <= m[2]
        BY <2>1, <3>2, <4>1, <4>2
      <4>4. y = m[1]
        BY <3>2, <4>1, <4>3
      <4> QED
        BY <4>4 DEF y
    <3>8. ~(l < i - 1)
      BY <1>1, <3>1, <3>4, <3>5, <3>7
    <3>9. l = i - 1
      BY <1>2, <3>4, <3>8
    <3>10. u[i - 1] = "newline"
      BY <1>2, <1>12, <3>4
    <3>11. marker # "newline"
      BY DEF White
    <3> QED
      BY <3>1, <3>9, <3>10, <3>11
  <2>4. PICK l \in 1..Len(g) : g[l] = x
    BY <1>10, <2>1, <2>3
  <2>5. l < i /\ g[l] <= g[i - 1] /\ i - 1 \in 1..Len(g)
    BY <2>1, <2>2, <2>4
  <2>6. g[i - 1] \in Int /\ g[i - 1] < g[i]
    <3> DEFINE k == i - 1
    <3>1. k \in 1..Len(g) /\ k < i
      BY <1>2, <2>5
    <3> HIDE DEF k
    <3>2. g[k] \in Int /\ g[k] < g[i]
      BY <1>1, <1>2, <3>1
    <3> QED
      BY <3>2 DEF k
  <2>7. g[i - 1] = x
    BY <2>1, <2>4, <2>5, <2>6
  <2>8. u[i - 1] = "newline"
    BY <1>2, <1>12, <2>5
  <2>9. marker # "newline"
    BY DEF White
  <2> QED
    BY <1>6, <2>5, <2>7, <2>8, <2>9
<1>13. f[g[i]] = u[i] /\ f[g[j]] = u[j]
  BY <1>2, <1>6, <1>8
<1>14. Matches(p, f, g[i], g[j])
  <2>1. CASE p = "fence"
    BY <1>13, <2>1 DEF Matches
  <2>2. CASE p = "citation"
    <3>1. i < j /\ u[i] = "[1" /\ u[j] = "]" /\ AreBlank(u, i + 1, j - 1)
      BY <2>2 DEF Matches
    <3>2. g[i] < g[j]
      BY <1>1, <1>2, <3>1
    <3>3. ASSUME NEW x \in (g[i] + 1)..(g[j] - 1) PROVE f[x] \in White
      <4>1. x \in g[i]..g[j] /\ x # g[i] /\ x # g[j]
        BY <1>1, <1>2
      <4>2. PICK l \in i..j : g[l] = x
        BY <1>11, <4>1
      <4>3. l \in (i + 1)..(j - 1)
        BY <1>2, <4>1, <4>2
      <4>4. u[l] \in White
        BY <3>1, <4>3 DEF AreBlank
      <4> QED
        BY <1>2, <1>6, <1>8, <4>2, <4>4
    <3> QED
      BY <1>13, <2>2, <3>1, <3>2, <3>3 DEF Matches, AreBlank
  <2>3. CASE p = "path"
    <3>1. u[j] = "path:" /\ AreBlank(u, i, j - 1) /\ (i = 1 \/ u[i - 1] = "newline")
      BY <2>3 DEF Matches
    <3>2. ASSUME NEW x \in g[i]..(g[j] - 1) PROVE f[x] \in White
      <4>1. x \in g[i]..g[j] /\ x # g[j]
        BY <1>1, <1>2
      <4>2. PICK l \in i..j : g[l] = x
        BY <1>11, <4>1
      <4>3. l \in i..(j - 1)
        BY <1>2, <4>1, <4>2
      <4>4. u[l] \in White
        BY <3>1, <4>3 DEF AreBlank
      <4> QED
        BY <1>2, <1>6, <1>8, <4>2, <4>4
    <3>3. g[i] = 1 \/ f[g[i] - 1] = "newline"
      BY <1>12, <3>1
    <3> QED
      BY <1>13, <2>3, <3>1, <3>2, <3>3 DEF Matches, AreBlank
  <2> QED
    BY <2>1, <2>2, <2>3 DEF Patterns
<1>15. g[i] \in g[i]..g[j]
  BY <1>1, <1>2, <1>4
<1> QED
  BY <1>2, <1>3, <1>4, <1>9, <1>14, <1>15

LEMMA FoundNothing ==
    ASSUME NEW p, NEW f, Len(f) \in Nat
    PROVE  Found(p, f) = {} <=> \A i \in 1..Len(f) : \A j \in i..Len(f) : ~Matches(p, f, i, j)
<1>1. FoundFrom(Found(p, f), p, f, 1)
  BY FoundIs
<1>2. ASSUME Found(p, f) = {}, NEW i \in 1..Len(f), NEW j \in i..Len(f), Matches(p, f, i, j)
      PROVE  FALSE
  <2>1. j \in 1..Len(f) /\ 1 <= i /\ i <= j
    OBVIOUS
  <2> QED
    BY <1>1, <1>2, <2>1 DEF FoundFrom
<1>3. ASSUME NEW m \in Found(p, f)
      PROVE  \E i \in 1..Len(f) : \E j \in i..Len(f) : Matches(p, f, i, j)
  <2>1. PICK i, j \in 1..Len(f) : i <= j /\ m = <<i, j>>
    BY <1>1 DEF FoundFrom, Spaced
  <2>2. j \in i..Len(f)
    BY <2>1
  <2>3. Matches(p, f, i, j)
    BY <1>1, <2>1 DEF FoundFrom
  <2> QED
    BY <2>2, <2>3
<1> QED
  BY <1>2, <1>3

\* The spans of a pattern are apart.
LEMMA SpansAre ==
    ASSUME NEW V, NEW t \in Seq(V), NEW p
    PROVE  /\ Spaced(Found(p, Folded(t)), Len(Origin(t)))
           /\ Spaced(Spans(p, t), Len(t))
<1>1. Len(Folded(t)) = Len(Origin(t)) /\ Len(Origin(t)) \in Nat
  BY FoldedIs
<1>2. Spaced(Found(p, Folded(t)), Len(Origin(t)))
  BY <1>1, FoundIs DEF FoundFrom
<1>3. Len(t) \in Nat /\ Visible(t) \in SUBSET (1..Len(t)) /\ Lists(Origin(t), Visible(t))
  BY OriginIs DEF Visible
<1>4. Spaced(Lifted(Origin(t), Found(p, Folded(t))), Len(t))
  BY <1>2, <1>3, SpansLift
<1> QED
  BY <1>2, <1>4 DEF Spans, Lifted

Passed(t, p) == replace_folded(t, Spans(p, t), Marker(p))

\* One pass takes out what its pattern finds, and brings in nothing that another finds.
LEMMA PassCleans ==
    ASSUME NEW V, NEW t \in Seq(V), NEW p \in Patterns, Marker(p) \in V
    PROVE  /\ Passed(t, p) \in Seq(V)
           /\ Found(p, Folded(Passed(t, p))) = {}
           /\ \A q \in Patterns : Found(q, Folded(t)) = {} => Found(q, Folded(Passed(t, p))) = {}
<1> DEFINE u == Passed(t, p)
           f == Folded(t)
           M == Found(p, Folded(t))
           C == Spans(p, t)
           left == InOrder(Kept(C, Len(t)))
<1>1. /\ Spaced(M, Len(Origin(t))) /\ Spaced(C, Len(t))
      /\ Len(f) = Len(Origin(t)) /\ Len(f) \in Nat
  BY SpansAre, FoldedIs
<1>2. C = Lifted(Origin(t), M)
  BY DEF Spans, Lifted
<1>3. Lists(left, Kept(C, Len(t)))
  <2>1. Len(t) \in Nat /\ Kept(C, Len(t)) \in SUBSET (1..Len(t))
    BY DEF Kept
  <2> QED
    BY <2>1, InOrderLists
<1>4. u = Through(t, C, Marker(p), left)
  BY <1>1, ReplaceIs DEF Passed
<1>5. u \in Seq(V)
  BY <1>3, <1>4, ThroughType
<1> HIDE DEF C, left, u
<1>6. PICK g : Follows(g, Folded(u), f, M, Marker(p))
  <2>1. ~is_invisible(Marker(p)) /\ Plain(Marker(p)) = Marker(p)
    BY MarkersAre
  <2> HIDE DEF M
  <2>2. Lists(left, Kept(Lifted(Origin(t), M), Len(t)))
    BY <1>2, <1>3
  <2>3. u = Through(t, Lifted(Origin(t), M), Marker(p), left)
    BY <1>2, <1>4
  <2> QED
    BY <1>1, <2>1, <2>2, <2>3, FoldedThrough
<1>7. Len(Folded(u)) \in Nat
  BY <1>5, FoldedIs
<1>8. ASSUME NEW q \in Patterns, NEW i \in 1..Len(Folded(u)), NEW j \in i..Len(Folded(u)),
             Matches(q, Folded(u), i, j)
      PROVE  /\ g[i] \in 1..Len(f) /\ g[j] \in g[i]..Len(f)
             /\ Matches(q, f, g[i], g[j])
             /\ \A m \in M : ~Covers(g[i], m)
  <2>1. Marker(p) \notin White \cup {"fence", "[1", "]", "path:"}
    BY MarkersAre
  <2>2. Spaced(M, Len(f))
    BY <1>1
  <2> HIDE DEF f, M
  <2>3. /\ g[i] \in 1..Len(f) /\ g[j] \in 1..Len(f) /\ g[i] <= g[j]
        /\ Matches(q, f, g[i], g[j])
        /\ \A m \in M : ~Covers(g[i], m)
    BY <1>1, <1>6, <1>8, <2>1, <2>2, MatchWas
  <2>4. g[j] \in g[i]..Len(f)
    BY <1>1, <2>3
  <2> QED
    BY <2>3, <2>4
<1>9. Found(p, Folded(u)) = {}
  <2> SUFFICES ASSUME NEW i \in 1..Len(Folded(u)), NEW j \in i..Len(Folded(u)),
                      Matches(p, Folded(u), i, j)
               PROVE  FALSE
    BY <1>7, FoundNothing
  <2>1. /\ g[i] \in 1..Len(f) /\ g[j] \in 1..Len(f) /\ 1 <= g[i] /\ g[i] <= g[j]
        /\ Matches(p, f, g[i], g[j])
        /\ \A m \in M : ~Covers(g[i], m)
    BY <1>1, <1>8
  <2>2. FoundFrom(M, p, f, 1)
    BY <1>1, FoundIs
  <2> HIDE DEF f, M
  <2> QED
    BY <2>1, <2>2 DEF FoundFrom
<1>10. ASSUME NEW q \in Patterns, Found(q, f) = {} PROVE Found(q, Folded(u)) = {}
  <2> SUFFICES ASSUME NEW i \in 1..Len(Folded(u)), NEW j \in i..Len(Folded(u)),
                      Matches(q, Folded(u), i, j)
               PROVE  FALSE
    BY <1>7, FoundNothing
  <2>1. g[i] \in 1..Len(f) /\ g[j] \in g[i]..Len(f) /\ Matches(q, f, g[i], g[j])
    BY <1>8
  <2> HIDE DEF f
  <2> QED
    BY <1>1, <1>10, <2>1, FoundNothing
<1> QED
  BY <1>5, <1>9, <1>10 DEF u

\* A pass that finds nothing changes nothing.
LEMMA PassKeeps ==
    ASSUME NEW V, NEW t \in Seq(V), NEW p, Marker(p) \in V, Found(p, Folded(t)) = {}
    PROVE  Passed(t, p) = t
<1>1. Spans(p, t) = {}
  BY DEF Spans
<1>2. Spaced({}, Len(t))
  BY DEF Spaced
<1>3. replace_folded(t, {}, Marker(p)) = t
  BY <1>2, ReplaceIs, ThroughNone
<1> QED
  BY <1>1, <1>3 DEF Passed

\* Nothing is found in the text.
Clean(t) == \A p \in Patterns : Found(p, Folded(t)) = {}

\* No marker matches a pattern, so one pass for each pattern settles it, whatever the
\* text is; one with nothing to find is shown as it is stored.
LEMMA DefuseCleans ==
    ASSUME NEW V, NEW t \in Seq(V), \A p \in Patterns : Marker(p) \in V
    PROVE  /\ Shown(t) \in Seq(V)
           /\ \A p \in Patterns : Spans(p, Shown(t)) = {}
           /\ Clean(t) => Shown(t) = t
<1> DEFINE D == [text : Seq(V), total : Nat]
           S == DOMAIN Grammar
           Pass(d, p) == [text |-> replace_folded(d.text, Spans(p, d.text), Marker(p)),
                          total |-> d.total + Cardinality(Spans(p, d.text))]
           base == [text |-> t, total |-> 0]
           pick == [T \in SUBSET S |-> Max(T)]
           step == [i \in S |-> [d \in D |-> Pass(d, Grammar[i])]]
           W == [T \in SUBSET S |->
                   {d \in D : /\ Clean(t) => d.text = t
                             /\ \A i \in T : Found(Grammar[i], Folded(d.text)) = {}}]
           Goes(g) == g = [T \in SUBSET S |->
                             IF T = {} THEN base
                             ELSE Pass(g[T \ {Max(T)}], Grammar[Max(T)])]
           iter == CHOOSE g : Goes(g)
<1>1. /\ S = 1..3 /\ \A i \in S : Grammar[i] \in Patterns
      /\ \A p \in Patterns : \E i \in S : Grammar[i] = p
  BY DEF Grammar, Patterns
<1> HIDE DEF S
<1>2. IsFiniteSet(S)
  <2> DEFINE n == 3
  <2>1. n \in Int
    OBVIOUS
  <2> HIDE DEF n
  <2>2. IsFiniteSet(1..n)
    BY <2>1, FS_Interval
  <2> QED
    BY <1>1, <2>2 DEF n
<1>3. base \in W[{}]
  OBVIOUS
<1>4. ASSUME NEW T \in SUBSET S, T # {}
      PROVE  Max(T) \in T
  <2>1. T \in SUBSET (1..3) /\ 3 \in Nat
    BY <1>1
  <2> QED
    BY <1>4, <2>1, MaxIs
<1>5. ASSUME NEW d \in D, NEW p \in Patterns
      PROVE  /\ Pass(d, p) \in D
             /\ Found(p, Folded(Pass(d, p).text)) = {}
             /\ \A q \in Patterns : Found(q, Folded(d.text)) = {} => Found(q, Folded(Pass(d, p).text)) = {}
             /\ Found(p, Folded(d.text)) = {} => Pass(d, p).text = d.text
  <2>1. d.text \in Seq(V) /\ d.total \in Nat
    OBVIOUS
  <2>2. Cardinality(Spans(p, d.text)) \in Nat
    <3>1. Spaced(Spans(p, d.text), Len(d.text)) /\ Len(d.text) \in Nat
      BY <2>1, SpansAre
    <3> QED
      BY <3>1, SpacedIsFinite, FS_CardinalityType
  <2> DEFINE u == Passed(d.text, p)
  <2>3. /\ u \in Seq(V)
        /\ Found(p, Folded(u)) = {}
        /\ \A q \in Patterns : Found(q, Folded(d.text)) = {} => Found(q, Folded(u)) = {}
        /\ Found(p, Folded(d.text)) = {} => u = d.text
    <3> DEFINE x == d.text
    <3>1. x \in Seq(V) /\ Marker(p) \in V
      BY <2>1
    <3> HIDE DEF x
    <3>2. /\ Passed(x, p) \in Seq(V)
          /\ Found(p, Folded(Passed(x, p))) = {}
          /\ \A q \in Patterns : Found(q, Folded(x)) = {} => Found(q, Folded(Passed(x, p))) = {}
      BY <3>1, PassCleans
    <3>3. Found(p, Folded(x)) = {} => Passed(x, p) = x
      BY <3>1, PassKeeps
    <3> QED
      BY <3>2, <3>3 DEF x
  <2>4. Pass(d, p) = [text |-> u, total |-> d.total + Cardinality(Spans(p, d.text))]
    BY DEF Passed
  <2>5. Pass(d, p) \in D /\ Pass(d, p).text = u
    <3> HIDE DEF u, Pass
    <3> QED
      BY <2>1, <2>2, <2>3, <2>4
  <2> HIDE DEF u, Pass, D
  <2> QED
    BY <2>3, <2>5
<1> HIDE DEF Pass, D
<1>6. \A T \in SUBSET S : T # {} =>
        /\ Max(T) \in T
        /\ \A d \in W[T \ {Max(T)}] : d \in D /\ Pass(d, Grammar[Max(T)]) \in W[T]
  <2> SUFFICES ASSUME NEW T \in SUBSET S, T # {}, NEW d \in W[T \ {Max(T)}]
               PROVE  d \in D /\ Pass(d, Grammar[Max(T)]) \in W[T]
    BY <1>4
  <2>1. Max(T) \in T /\ d \in D /\ Grammar[Max(T)] \in Patterns
    BY <1>1, <1>4
  <2>2. /\ \A i \in T \ {Max(T)} : Found(Grammar[i], Folded(d.text)) = {}
        /\ Clean(t) => d.text = t
    OBVIOUS
  <2>3. Clean(t) => Pass(d, Grammar[Max(T)]).text = t
    <3> DEFINE p == Grammar[Max(T)]
    <3>1. p \in Patterns
      BY <2>1
    <3> HIDE DEF p
    <3>2. Found(p, Folded(d.text)) = {} => Pass(d, p).text = d.text
      BY <1>5, <2>1, <3>1
    <3>3. Clean(t) => Found(p, Folded(d.text)) = {} /\ d.text = t
      BY <2>2, <3>1 DEF Clean
    <3> QED
      BY <3>2, <3>3 DEF p
  <2> DEFINE e == Pass(d, Grammar[Max(T)])
  <2>4. /\ e \in D
        /\ Found(Grammar[Max(T)], Folded(e.text)) = {}
        /\ \A q \in Patterns : Found(q, Folded(d.text)) = {} => Found(q, Folded(e.text)) = {}
    <3> HIDE DEF W
    <3> QED
      BY <1>5, <2>1
  <2>5. Clean(t) => e.text = t
    BY <2>3
  <2> HIDE DEF e
  <2>6. \A i \in T : Found(Grammar[i], Folded(e.text)) = {}
    <3> TAKE i \in T
    <3>1. CASE i = Max(T)
      BY <2>4, <3>1
    <3>2. CASE i # Max(T)
      <4>1. i \in T \ {Max(T)} /\ Grammar[i] \in Patterns
        BY <1>1, <3>2
      <4>2. Found(Grammar[i], Folded(d.text)) = {}
        BY <2>2, <4>1
      <4> QED
        BY <2>4, <4>1, <4>2
    <3> QED
      BY <3>1, <3>2
  <2>7. e \in W[T]
    BY <2>4, <2>5, <2>6
  <2> QED
    BY <2>1, <2>7 DEF e
<1>7. Goes(iter)
  <2>1. \A T \in SUBSET S : T # {} =>
          pick[T] \in T /\ \A v \in W[T \ {pick[T]}] : step[pick[T]][v] \in W[T]
    <3> SUFFICES ASSUME NEW T \in SUBSET S, T # {}
                 PROVE  pick[T] \in T /\ \A v \in W[T \ {pick[T]}] : step[pick[T]][v] \in W[T]
      OBVIOUS
    <3>1. pick[T] = Max(T) /\ Max(T) \in S
      BY <1>4
    <3> HIDE DEF W
    <3> QED
      BY <1>6, <3>1
  <2>2. PICK g : /\ GoesRound(g, S, base, pick, step)
                 /\ \A T \in SUBSET S : g[T] \in W[T]
    <3> HIDE DEF base, pick, step, W
    <3> QED
      BY <1>2, <1>3, <2>1, FoldExists
  <2>3. ASSUME NEW T \in SUBSET S
        PROVE  Round(g, T, base, pick, step)
                 = IF T = {} THEN base
                   ELSE Pass(g[T \ {Max(T)}], Grammar[Max(T)])
    <3>1. CASE T = {}
      BY <3>1 DEF Round
    <3>2. CASE T # {}
      <4>1. Max(T) \in S /\ g[T \ {Max(T)}] \in D
        <5> HIDE DEF W
        <5> QED
          BY <1>6, <2>2, <3>2
      <4> HIDE DEF base
      <4> QED
        BY <3>2, <4>1 DEF Round
    <3> QED
      BY <3>1, <3>2
  <2>4. Goes(g)
    <3> HIDE DEF base, pick, step, W
    <3> QED
      BY <2>2, <2>3 DEF GoesRound
  <2> HIDE DEF Goes
  <2> QED
    BY <2>4, Zenon
<1>8. Defuse(t) = iter[S]
  BY DEF Defuse, FoldLeft, MapThenFoldSet, S, Pass
<1> HIDE DEF iter
<1> DEFINE G == {T \in SUBSET S : iter[T] \in W[T]}
<1>9. {} \in G
  <2> HIDE DEF base, W
  <2> QED
    BY <1>3, <1>7
<1>10. ASSUME NEW T \in SUBSET S, T # {} PROVE \E x \in T : T \ {x} \in G => T \in G
  <2> HIDE DEF base, W
  <2>1. Max(T) \in T
    BY <1>4, <1>10
  <2>2. iter[T] = Pass(iter[T \ {Max(T)}], Grammar[Max(T)])
    BY <1>7, <1>10
  <2>3. ASSUME T \ {Max(T)} \in G PROVE T \in G
    BY <1>6, <1>10, <2>2, <2>3
  <2> QED
    BY <2>1, <2>3
<1>11. S \in G
  <2> HIDE DEF G
  <2> QED
    BY <1>2, <1>9, <1>10, ByRemoval
<1>12. /\ iter[S] \in D /\ \A i \in S : Found(Grammar[i], Folded(iter[S].text)) = {}
       /\ Clean(t) => iter[S].text = t
  BY <1>11
<1>13. Shown(t) \in Seq(V)
  BY <1>8, <1>12 DEF Shown, D
<1>14. ASSUME NEW p \in Patterns PROVE Found(p, Folded(Shown(t))) = {}
  BY <1>1, <1>8, <1>12 DEF Shown
<1>15. Clean(t) => Shown(t) = t
  BY <1>8, <1>12 DEF Shown
<1> QED
  BY <1>13, <1>14, <1>15 DEF Spans

-----------------------------------------------------------------------------
(* What is compared.                                                        *)

\* A list that is moved in order lists where its elements are moved to.
LEMMA ListsMap ==
    ASSUME NEW S, NEW s, Lists(s, S), NEW m, \A x \in S : m[x] \in Int,
           \A x, y \in S : x < y => m[x] < m[y]
    PROVE  Lists([k \in 1..Len(s) |-> m[s[k]]], {m[x] : x \in S})
<1> DEFINE r == [k \in 1..Len(s) |-> m[s[k]]]
           D == {m[x] : x \in S}
<1>1. /\ Len(s) \in Nat
      /\ \A k \in 1..Len(s) : s[k] \in S /\ s[k] \in Int
      /\ \A k, l \in 1..Len(s) : k < l => s[k] < s[l]
      /\ \A x \in S : \E k \in 1..Len(s) : s[k] = x
  BY ListsGive
<1>2. r \in [1..Len(s) -> Int]
  BY <1>1
<1>3. \A k \in 1..Len(s) : r[k] = m[s[k]]
  OBVIOUS
<1> HIDE DEF r
<1>4. r \in Seq(Int) /\ Len(r) = Len(s)
  BY <1>1, <1>2
<1>5. Increasing(r)
  <2> SUFFICES ASSUME NEW k \in 1..Len(s), NEW l \in 1..Len(s), k < l PROVE r[k] < r[l]
    BY <1>4 DEF Increasing
  <2>1. s[k] \in S /\ s[l] \in S /\ s[k] < s[l]
    BY <1>1
  <2>2. m[s[k]] < m[s[l]]
    BY <2>1
  <2> QED
    BY <1>3, <2>2
<1>6. \A k \in 1..Len(r) : r[k] \in D
  BY <1>1, <1>3, <1>4
<1>7. \A y \in D : \E k \in 1..Len(r) : r[k] = y
  BY <1>1, <1>3, <1>4
<1>8. Lists(r, D)
  BY <1>4, <1>5, <1>6, <1>7 DEF Lists
<1> QED
  BY <1>8 DEF r

\* What lies between two bounds is one run of a list.
IsRun(r, c, s) == c + Len(r) <= Len(s) /\ \A k \in 1..Len(r) : r[k] = s[c + k]

LEMMA ListsRun ==
    ASSUME NEW S, NEW s, Lists(s, S), NEW lo \in Int, NEW hi \in Int
    PROVE  \E c \in Nat : \E r : Lists(r, S \cap (lo..hi)) /\ IsRun(r, c, s)
<1> DEFINE n == Len(s)
           R == S \cap (lo..hi)
           I == {i \in 1..n : s[i] \in lo..hi}
<1>1. /\ n \in Nat
      /\ \A k \in 1..n : s[k] \in S /\ s[k] \in Int
      /\ \A k, l \in 1..n : k < l => s[k] < s[l]
      /\ \A x \in S : \E k \in 1..n : s[k] = x
  BY ListsGive
<1> HIDE DEF n
<1>2. CASE I = {}
  <2>1. R = {}
    BY <1>1, <1>2
  <2>2. << >> \in Seq(Int) /\ Len(<< >>) = 0
    OBVIOUS
  <2>3. Lists(<< >>, {})
    BY <2>2 DEF Lists, Increasing
  <2>4. 0 \in Nat /\ 0 + Len(<< >>) <= n /\ \A k \in 1..Len(<< >>) : << >>[k] = s[0 + k]
    BY <1>1, <2>2
  <2> QED
    BY <2>1, <2>3, <2>4 DEF n, IsRun
<1>3. CASE I # {}
  <2> DEFINE a == Min(I)
             b == Max(I)
             d == (b - a) + 1
             r == [k \in 1..d |-> s[(a - 1) + k]]
  <2>1. I \in SUBSET (1..n) /\ I \in SUBSET Nat
    BY <1>1
  <2>2. /\ a \in I /\ \A i \in I : a <= i
        /\ b \in I /\ \A i \in I : i <= b
    <3> HIDE DEF I
    <3> QED
      BY <1>1, <1>3, <2>1, MinIs, MaxIs
  <2> HIDE DEF a, b
  <2>3. a \in 1..n /\ b \in 1..n /\ a <= b /\ s[a] \in lo..hi /\ s[b] \in lo..hi
    BY <2>2
  <2>4. a \in Int /\ b \in Int /\ d \in Nat /\ a - 1 \in Nat /\ (a - 1) + d <= n
    BY <1>1, <2>3
  <2> HIDE DEF d
  <2>5. \A k \in 1..d : (a - 1) + k \in 1..n /\ a <= (a - 1) + k /\ (a - 1) + k <= b
    BY <1>1, <2>3, <2>4 DEF d
  <2>6. ASSUME NEW i \in 1..n, a <= i, i <= b PROVE s[i] \in R
    <3>1. s[i] \in Int /\ s[i] \in S /\ s[a] \in Int /\ s[b] \in Int
      BY <1>1, <2>3
    <3>2. s[a] <= s[i] /\ s[i] <= s[b]
      <4>1. i = a \/ a < i
        BY <1>1, <2>4, <2>6
      <4>2. i = b \/ i < b
        BY <1>1, <2>4, <2>6
      <4> QED
        BY <1>1, <2>3, <2>6, <3>1, <4>1, <4>2
    <3> QED
      BY <2>3, <3>1, <3>2
  <2>7. r \in [1..d -> Int] /\ \A k \in 1..d : r[k] = s[(a - 1) + k] /\ r[k] \in R
    BY <1>1, <2>5, <2>6
  <2> HIDE DEF r, R
  <2>8. r \in Seq(Int) /\ Len(r) = d
    BY <2>4, <2>7
  <2>9. Increasing(r)
    <3> SUFFICES ASSUME NEW k \in 1..d, NEW l \in 1..d, k < l PROVE r[k] < r[l]
      BY <2>8 DEF Increasing
    <3>1. (a - 1) + k < (a - 1) + l
      BY <2>4
    <3> QED
      BY <1>1, <2>5, <2>7, <3>1
  <2>10. ASSUME NEW x \in R PROVE \E k \in 1..Len(r) : r[k] = x
    <3>1. PICK i \in 1..n : s[i] = x
      BY <1>1 DEF R
    <3>2. i \in I
      BY <3>1 DEF R
    <3>3. a <= i /\ i <= b /\ i \in Int
      BY <2>2, <3>2
    <3> DEFINE k == (i - a) + 1
    <3>4. k \in 1..d /\ (a - 1) + k = i
      BY <2>4, <3>3 DEF d
    <3> QED
      BY <2>7, <2>8, <3>1, <3>4
  <2>11. Lists(r, R)
    BY <2>7, <2>8, <2>9, <2>10 DEF Lists
  <2>12. \A k \in 1..Len(r) : r[k] = s[(a - 1) + k]
    BY <2>7, <2>8
  <2>13. a - 1 \in Nat /\ (a - 1) + Len(r) <= Len(s)
    BY <2>4, <2>8 DEF n
  <2> QED
    BY <2>11, <2>12, <2>13 DEF R, IsRun
<1> QED
  BY <1>2, <1>3

\* The positions that are compared: what is not blank, and the first blank after it
\* if more than blanks follow.
Solid(f, i) == f[i] \notin White
Core(f) ==
    {i \in 1..Len(f) : \/ Solid(f, i)
                       \/ i > 1 /\ Solid(f, i - 1) /\ \E j \in i..Len(f) : Solid(f, j)}
Said(f, kept) == [k \in 1..Len(kept) |-> IF Solid(f, kept[k]) THEN casefold(f[kept[k]]) ELSE " "]

LEMMA ComparableIs == \A t : Comparable(t) = Said(Folded(t), InOrder(Core(Folded(t))))
BY DEF Comparable, Said, Core, Solid

LEMMA CoreListed ==
    ASSUME NEW f, Len(f) \in Nat
    PROVE  Lists(InOrder(Core(f)), Core(f))
<1>1. Core(f) \in SUBSET (1..Len(f))
  BY DEF Core
<1> QED
  BY <1>1, InOrderLists

LEMMA SaidIs ==
    ASSUME NEW f, NEW h, Len(h) \in Nat
    PROVE  /\ Len(Said(f, h)) = Len(h)
           /\ \E V : Said(f, h) \in Seq(V)
<1> DEFINE q == Said(f, h)
           R == {q[k] : k \in 1..Len(h)}
<1>1. q \in [1..Len(h) -> R]
  BY DEF Said
<1> HIDE DEF q
<1>2. Len(q) = Len(h) /\ q \in Seq(R)
  <2> HIDE DEF R
  <2> QED
    BY <1>1
<1> QED
  BY <1>2 DEF q

\* Texts whose letters are alike when folded compare alike.
Alike(f, e) ==
    /\ Len(f) = Len(e)
    /\ \A k \in 1..Len(f) : /\ f[k] \in White <=> e[k] \in White
                            /\ f[k] \in White \/ casefold(f[k]) = casefold(e[k])

LEMMA AlikeCompare ==
    ASSUME NEW t, NEW u, Alike(Folded(t), Folded(u)), Len(Folded(t)) \in Nat
    PROVE  Comparable(t) = Comparable(u)
<1> DEFINE f == Folded(t)
           e == Folded(u)
           h == InOrder(Core(f))
<1>1. Alike(f, e) /\ Len(f) \in Nat
  OBVIOUS
<1> HIDE DEF f, e
<1>2. \A k \in 1..Len(f) : Solid(f, k) <=> Solid(e, k)
  BY <1>1 DEF Alike, Solid
<1>3. Len(f) = Len(e)
  BY <1>1 DEF Alike
<1>4. \A i \in 1..Len(f) : i \in Core(f) <=> i \in Core(e)
  <2> TAKE i \in 1..Len(f)
  <2>1. i > 1 => (Solid(f, i - 1) <=> Solid(e, i - 1))
    BY <1>1, <1>2
  <2>2. \A j \in i..Len(f) : Solid(f, j) <=> Solid(e, j)
    BY <1>1, <1>2
  <2>3. Solid(f, i) <=> Solid(e, i)
    BY <1>2
  <2> QED
    BY <1>3, <2>1, <2>2, <2>3 DEF Core
<1>5. Core(f) = Core(e)
  BY <1>3, <1>4 DEF Core
<1>6. \A k \in 1..Len(h) : h[k] \in 1..Len(f)
  <2>1. Lists(h, Core(f))
    BY <1>1, CoreListed
  <2> HIDE DEF h
  <2> QED
    BY <2>1, ListsGive DEF Core
<1> HIDE DEF h
<1>7. ASSUME NEW k \in 1..Len(h)
      PROVE  (IF Solid(f, h[k]) THEN casefold(f[h[k]]) ELSE " ")
               = IF Solid(e, h[k]) THEN casefold(e[h[k]]) ELSE " "
  <2>1. h[k] \in 1..Len(f)
    BY <1>6
  <2>2. Solid(f, h[k]) <=> Solid(e, h[k])
    BY <1>2, <2>1
  <2>3. Solid(f, h[k]) => casefold(f[h[k]]) = casefold(e[h[k]])
    BY <1>1, <2>1 DEF Alike, Solid
  <2> QED
    BY <2>2, <2>3
<1>8. Said(f, h) = Said(e, h)
  BY <1>7 DEF Said
<1> QED
  BY <1>5, <1>8, ComparableIs DEF f, e, h

\* A part of a folded text is compared with a part of what the text is compared with.
LEMMA PartCompares ==
    ASSUME NEW f, Len(f) \in Nat, NEW e, Len(e) \in Nat, NEW c \in Nat, c + Len(e) <= Len(f),
           \A k \in 1..Len(e) : e[k] = f[c + k]
    PROVE  Within(Said(e, InOrder(Core(e))), Said(f, InOrder(Core(f))))
<1> DEFINE h == InOrder(Core(f))
           g == InOrder(Core(e))
           p == Said(f, h)
           q == Said(e, g)
           I == {i \in 1..Len(e) : Solid(e, i)}
<1>1. /\ Lists(h, Core(f)) /\ Lists(g, Core(e))
      /\ Core(f) \subseteq 1..Len(f) /\ Core(e) \subseteq 1..Len(e)
  BY CoreListed DEF Core
<1> HIDE DEF h, g
<1>2. Len(h) \in Nat /\ Len(g) \in Nat
  BY <1>1, ListsGive
<1>3. PICK P, Q : p \in Seq(P) /\ Len(p) = Len(h) /\ q \in Seq(Q) /\ Len(q) = Len(g)
  BY <1>2, SaidIs
<1> SUFFICES Within(q, p)
  BY DEF p, q, h, g
<1> HIDE DEF p, q
<1>4. CASE I = {}
  <2>1. Core(e) = {}
    <3> SUFFICES ASSUME NEW i \in 1..Len(e), i \in Core(e) PROVE FALSE
      BY DEF Core
    <3>1. ~Solid(e, i) /\ (i > 1 => ~Solid(e, i - 1))
      <4>1. i \in Int /\ (i > 1 => i - 1 \in 1..Len(e))
        OBVIOUS
      <4>2. \A j \in 1..Len(e) : ~Solid(e, j)
        BY <1>4
      <4> QED
        BY <4>1, <4>2
    <3> QED
      BY <3>1 DEF Core
  <2>2. Len(g) = 0
    BY <1>1, <1>2, <2>1, ListsGive
  <2>3. 1 \in 1..((Len(p) - Len(q)) + 1) /\ (1 + Len(q)) - 1 = 0
    BY <1>2, <1>3, <2>2
  <2>4. SubSeq(p, 1, 0) = << >> /\ q = << >>
    BY <1>3, <2>2
  <2> QED
    BY <2>3, <2>4 DEF Within
<1>5. CASE I # {}
  <2> DEFINE a == Min(I)
             b == Max(I)
  <2>1. I \in SUBSET (1..Len(e)) /\ I \in SUBSET Nat
    OBVIOUS
  <2>2. /\ a \in I /\ \A i \in I : a <= i
        /\ b \in I /\ \A i \in I : i <= b
    <3> HIDE DEF I
    <3> QED
      BY <1>5, <2>1, MinIs, MaxIs
  <2> HIDE DEF a, b
  <2>3. a \in 1..Len(e) /\ b \in 1..Len(e) /\ Solid(e, a) /\ Solid(e, b) /\ a \in Int /\ b \in Int
    BY <2>2
  <2>4. \A i \in 1..Len(e) : Solid(e, i) <=> Solid(f, i + c)
    BY DEF Solid
  <2>5. \A i \in 1..Len(e) : Solid(e, i) => a <= i /\ i <= b
    BY <2>2
  <2>6. ASSUME NEW i \in Core(e) PROVE i + c \in Core(f) /\ i + c \in (a + c)..(b + c)
    <3>1. i \in 1..Len(e) /\ i \in Int /\ i + c \in 1..Len(f)
      BY <1>1
    <3>2. CASE Solid(e, i)
      <4>1. a <= i /\ i <= b /\ Solid(f, i + c)
        BY <2>4, <2>5, <3>1, <3>2
      <4> QED
        BY <2>3, <3>1, <4>1 DEF Core
    <3>3. CASE ~Solid(e, i)
      <4>1. PICK j \in i..Len(e) : i > 1 /\ Solid(e, i - 1) /\ Solid(e, j)
        BY <3>3 DEF Core
      <4>2. i - 1 \in 1..Len(e) /\ j \in 1..Len(e)
        BY <3>1, <4>1
      <4>3. a <= i - 1 /\ j <= b /\ Solid(f, (i - 1) + c) /\ Solid(f, j + c)
        BY <2>4, <2>5, <4>1, <4>2
      <4>4. j + c \in (i + c)..Len(f) /\ (i - 1) + c = (i + c) - 1 /\ i + c > 1
        <5>1. j \in Int /\ i <= j /\ j <= Len(e) /\ i > 1
          BY <3>1, <4>1
        <5> QED
          BY <3>1, <5>1
      <4>5. i + c \in Core(f)
        BY <3>1, <4>3, <4>4 DEF Core
      <4> QED
        BY <2>3, <3>1, <4>1, <4>3, <4>5
    <3> QED
      BY <3>2, <3>3
  <2>7. ASSUME NEW x \in Core(f), x \in (a + c)..(b + c) PROVE x - c \in Core(e)
    <3> DEFINE i == x - c
    <3>1. x \in Int /\ i \in Int /\ a <= i /\ i <= b /\ x = i + c /\ i \in 1..Len(e)
      BY <2>3, <2>7
    <3> HIDE DEF i
    <3>2. CASE Solid(f, x)
      <4>1. Solid(e, i)
        BY <2>4, <3>1, <3>2
      <4> QED
        BY <3>1, <4>1 DEF Core, i
    <3>3. CASE ~Solid(f, x)
      <4>1. Solid(f, x - 1)
        BY <3>3 DEF Core
      <4>2. i # a
        BY <2>3, <2>4, <3>1, <3>3
      <4>3. i > 1 /\ i - 1 \in 1..Len(e) /\ x - 1 = (i - 1) + c
        BY <2>3, <3>1, <4>2
      <4>4. Solid(e, i - 1)
        BY <2>4, <4>1, <4>3
      <4>5. b \in i..Len(e)
        BY <2>3, <3>1
      <4>6. i \in Core(e)
        BY <2>3, <3>1, <4>3, <4>4, <4>5 DEF Core
      <4> QED
        BY <4>6 DEF i
    <3> QED
      BY <3>2, <3>3
  <2> DEFINE lo == a + c
             hi == b + c
  <2>8. lo \in Int /\ hi \in Int
    BY <2>3
  <2>8a. PICK d \in Nat : \E r : Lists(r, Core(f) \cap (lo..hi)) /\ IsRun(r, d, h)
    <3> HIDE DEF lo, hi
    <3> QED
      BY <1>1, <2>8, ListsRun
  <2>9. PICK r : Lists(r, Core(f) \cap (lo..hi)) /\ IsRun(r, d, h)
    BY <2>8a
  <2> DEFINE C == Core(f) \cap (lo..hi)
             m == [x \in C |-> x - c]
             l == [k \in 1..Len(r) |-> m[r[k]]]
  <2>10. \A x \in C : x \in Int
    BY <1>1
  <2>11. {m[x] : x \in C} = Core(e)
    <3>1. \A x \in C : m[x] \in Core(e)
      BY <2>7
    <3>2. ASSUME NEW i \in Core(e) PROVE \E x \in C : m[x] = i
      <4>1. i + c \in C /\ i \in Int
        BY <1>1, <2>6
      <4>2. m[i + c] = i
        BY <4>1
      <4> QED
        BY <4>1, <4>2
    <3> QED
      BY <3>1, <3>2
  <2>12. Lists(l, Core(e))
    <3>1. \A x \in C : m[x] \in Int
      BY <2>10
    <3>2. \A x, y \in C : x < y => m[x] < m[y]
      BY <2>10
    <3>3. Lists(r, C)
      BY <2>9
    <3> HIDE DEF m, C
    <3> QED
      BY <2>11, <3>1, <3>2, <3>3, ListsMap
  <2>13. g = l
    <3> HIDE DEF l
    <3> QED
      BY <1>1, <2>12, ListsIsOne
  <2>14. Len(r) \in Nat /\ \A k \in 1..Len(r) : r[k] \in C /\ r[k] \in Int
    BY <2>9, ListsGive
  <2> HIDE DEF C
  <2>15. l \in [1..Len(r) -> Core(e)] /\ \A k \in 1..Len(r) : l[k] = r[k] - c
    <3>1. \A k \in 1..Len(r) : m[r[k]] = r[k] - c /\ m[r[k]] \in Core(e)
      BY <2>11, <2>14
    <3> QED
      BY <3>1
  <2> HIDE DEF l
  <2>16. Len(g) = Len(r)
    BY <2>13, <2>14, <2>15
  <2>17. \A k \in 1..Len(g) : /\ d + k \in 1..Len(h)
                              /\ g[k] \in 1..Len(e) /\ g[k] \in Int
                              /\ h[d + k] = g[k] + c
    <3> TAKE k \in 1..Len(g)
    <3>1. k \in 1..Len(r) /\ k \in Int
      BY <2>14, <2>16
    <3>2. d + Len(r) <= Len(h) /\ r[k] = h[d + k]
      BY <2>9, <3>1 DEF IsRun
    <3>3. d + k \in 1..Len(h)
      BY <1>2, <2>14, <3>1, <3>2
    <3>4. g[k] \in Core(e) /\ g[k] = r[k] - c /\ r[k] \in Int
      BY <2>13, <2>14, <2>15, <3>1
    <3>5. g[k] \in 1..Len(e)
      BY <1>1, <3>4
    <3> QED
      BY <3>2, <3>3, <3>4, <3>5
  <2>18. \A k \in 1..Len(g) : q[k] = p[d + k]
    <3> TAKE k \in 1..Len(g)
    <3>1. /\ d + k \in 1..Len(h) /\ g[k] \in 1..Len(e) /\ h[d + k] = c + g[k]
      BY <2>17
    <3>2. f[h[d + k]] = e[g[k]]
      BY <3>1
    <3>3. p[d + k] = IF Solid(f, h[d + k]) THEN casefold(f[h[d + k]]) ELSE " "
      BY <3>1 DEF Said, p
    <3>4. q[k] = IF Solid(e, g[k]) THEN casefold(e[g[k]]) ELSE " "
      BY DEF Said, q
    <3>5. Solid(e, g[k]) <=> Solid(f, h[d + k])
      BY <3>2 DEF Solid
    <3> QED
      BY <3>2, <3>3, <3>4, <3>5
  <2>19. d + Len(q) <= Len(p) /\ Len(q) \in Nat /\ Len(p) \in Nat
    BY <1>2, <1>3, <2>9, <2>16 DEF IsRun
  <2>20. d + 1 \in 1..((Len(p) - Len(q)) + 1) /\ (d + 1) + (Len(q) - 1) = d + Len(q)
    BY <2>19
  <2>21. SubSeq(p, d + 1, d + Len(q)) = q
    BY <1>3, <2>18, <2>19
  <2>22. SubSeq(p, d + 1, (d + 1) + (Len(q) - 1)) = q
    BY <2>20, <2>21
  <2> QED
    BY <2>20, <2>22, Zenon DEF Within
<1> QED
  BY <1>4, <1>5

\* u spells t: m moves what is visible in t to what is visible in u, in order, and what
\* is moved is folded alike.
Spells(u, t, m) ==
    /\ \A x \in Visible(t) : m[x] \in Int
    /\ \A x, y \in Visible(t) : x < y => m[x] < m[y]
    /\ Visible(u) = {m[x] : x \in Visible(t)}
    /\ \A x \in Visible(t) :
         /\ Plain(t[x]) \in White <=> Plain(u[m[x]]) \in White
         /\ Plain(t[x]) \in White \/ casefold(Plain(t[x])) = casefold(Plain(u[m[x]]))

LEMMA SpellingCompares ==
    ASSUME NEW V, NEW t \in Seq(V), NEW W, NEW u \in Seq(W), NEW m, Spells(u, t, m)
    PROVE  Comparable(u) = Comparable(t)
<1> DEFINE o == Origin(t)
           v == Origin(u)
           l == [k \in 1..Len(o) |-> m[o[k]]]
<1>1. Lists(o, Visible(t)) /\ Lists(v, Visible(u))
  BY OriginIs
<1>2. /\ Len(o) \in Nat /\ Len(Folded(t)) = Len(o)
      /\ \A k \in 1..Len(o) : o[k] \in Visible(t) /\ Folded(t)[k] = Plain(t[o[k]])
  BY FoldedIs
<1>3. /\ Len(Folded(u)) = Len(v)
      /\ \A k \in 1..Len(v) : Folded(u)[k] = Plain(u[v[k]])
  BY FoldedIs
<1> HIDE DEF o, v
<1>4. Lists(l, Visible(u))
  <2>1. \A x \in Visible(t) : m[x] \in Int
    BY DEF Spells
  <2>2. \A x, y \in Visible(t) : x < y => m[x] < m[y]
    BY DEF Spells
  <2>3. Lists(l, {m[x] : x \in Visible(t)})
    BY <1>1, <2>1, <2>2, ListsMap
  <2> QED
    BY <2>3 DEF Spells
<1>5. v = l
  <2> HIDE DEF l
  <2> QED
    BY <1>1, <1>4, ListsIsOne
<1>6. Len(v) = Len(o) /\ \A k \in 1..Len(o) : v[k] = m[o[k]]
  <2>1. l \in [1..Len(o) -> Int]
    BY <1>2 DEF Spells
  <2>2. \A k \in 1..Len(o) : l[k] = m[o[k]]
    OBVIOUS
  <2> HIDE DEF l
  <2>3. Len(l) = Len(o)
    BY <1>2, <2>1
  <2> QED
    BY <1>5, <2>2, <2>3
<1>7. Alike(Folded(t), Folded(u))
  <2> SUFFICES ASSUME NEW k \in 1..Len(o)
               PROVE  /\ Folded(t)[k] \in White <=> Folded(u)[k] \in White
                      /\ Folded(t)[k] \in White \/ casefold(Folded(t)[k]) = casefold(Folded(u)[k])
    BY <1>2, <1>3, <1>6 DEF Alike
  <2>1. o[k] \in Visible(t) /\ Folded(t)[k] = Plain(t[o[k]]) /\ Folded(u)[k] = Plain(u[m[o[k]]])
    BY <1>2, <1>3, <1>6
  <2> QED
    BY <2>1 DEF Spells
<1> QED
  BY <1>2, <1>7, AlikeCompare

\* A part of a text is compared with a part of what the text is compared with.
LEMMA ExcerptCompares ==
    ASSUME NEW V, NEW t \in Seq(V), NEW a \in 1..Len(t), NEW b \in 1..Len(t)
    PROVE  /\ SubSeq(t, a, b) \in Seq(V)
           /\ Within(Comparable(SubSeq(t, a, b)), Comparable(t))
<1> DEFINE u == SubSeq(t, a, b)
           d == a - 1
           lo == a
           hi == b
           S == Visible(t) \cap (lo..hi)
           m == [x \in S |-> x - d]
           f == Folded(t)
           e == Folded(u)
<1>1. /\ u \in Seq(V) /\ Len(t) \in Nat /\ Len(u) \in Nat /\ a \in Int /\ b \in Int /\ d \in Int
      /\ \A i \in 1..Len(u) : u[i] = t[i + d] /\ i + d \in 1..Len(t) /\ i + d \in a..b
      /\ \A x \in a..b : x - d \in 1..Len(u) /\ x \in 1..Len(t) /\ x \in Int
  OBVIOUS
<1> HIDE DEF u, d
<1>2. /\ Lists(Origin(t), Visible(t)) /\ Lists(Origin(u), Visible(u))
      /\ Len(Origin(t)) \in Nat /\ Len(f) = Len(Origin(t))
      /\ Len(Origin(u)) \in Nat /\ Len(e) = Len(Origin(u))
      /\ \A k \in 1..Len(Origin(t)) : f[k] = Plain(t[Origin(t)[k]])
      /\ \A k \in 1..Len(Origin(u)) : e[k] = Plain(u[Origin(u)[k]]) /\ Origin(u)[k] \in Visible(u)
  BY <1>1, OriginIs, FoldedIs
<1>2a. PICK c \in Nat : \E r : Lists(r, S) /\ IsRun(r, c, Origin(t))
  <2>1. lo \in Int /\ hi \in Int
    BY <1>1
  <2> HIDE DEF lo, hi
  <2> QED
    BY <1>2, <2>1, ListsRun
<1>3. PICK r : Lists(r, S) /\ IsRun(r, c, Origin(t))
  BY <1>2a
<1> DEFINE l == [k \in 1..Len(r) |-> m[r[k]]]
<1>4. {m[x] : x \in S} = Visible(u)
  <2>1. ASSUME NEW x \in S PROVE m[x] \in Visible(u)
    <3>1. x - d \in 1..Len(u) /\ (x - d) + d = x
      BY <1>1
    <3>2. u[x - d] = t[x]
      BY <1>1, <3>1
    <3> QED
      BY <3>1, <3>2 DEF Visible
  <2>2. ASSUME NEW i \in Visible(u) PROVE \E x \in S : m[x] = i
    <3>1. i \in 1..Len(u) /\ i \in Int /\ ~is_invisible(u[i])
      BY DEF Visible
    <3>2. i + d \in S /\ (i + d) - d = i
      BY <1>1, <3>1 DEF Visible
    <3>3. m[i + d] = i
      BY <3>2
    <3> QED
      BY <3>2, <3>3
  <2> QED
    BY <2>1, <2>2
<1>5. Lists(l, Visible(u))
  <2>1. \A x \in S : m[x] \in Int /\ x \in Int
    BY <1>1
  <2>2. \A x, y \in S : x < y => m[x] < m[y]
    BY <1>1, <2>1
  <2> HIDE DEF m, S
  <2> QED
    BY <1>3, <1>4, <2>1, <2>2, ListsMap
<1>6. Origin(u) = l
  <2> HIDE DEF l
  <2> QED
    BY <1>2, <1>5, ListsIsOne
<1>7. Len(r) \in Nat /\ \A k \in 1..Len(r) : r[k] \in S
  <2> HIDE DEF S
  <2> QED
    BY <1>3, ListsGive
<1>8. Len(Origin(u)) = Len(r) /\ \A k \in 1..Len(r) : Origin(u)[k] = r[k] - d
  <2>1. l \in [1..Len(r) -> Int] /\ \A k \in 1..Len(r) : l[k] = r[k] - d
    BY <1>1, <1>7
  <2> HIDE DEF l
  <2> QED
    BY <1>6, <1>7, <2>1
<1>9. c + Len(e) <= Len(f)
  BY <1>2, <1>3, <1>8 DEF IsRun
<1>10. ASSUME NEW k \in 1..Len(e) PROVE e[k] = f[c + k]
  <2>1. k \in 1..Len(r) /\ k \in Int /\ k \in 1..Len(Origin(u))
    BY <1>2, <1>8
  <2>2. r[k] = Origin(t)[c + k] /\ c + k \in 1..Len(Origin(t))
    BY <1>2, <1>3, <1>7, <2>1 DEF IsRun
  <2>3. r[k] \in a..b /\ r[k] \in Int
    BY <1>1, <1>7, <2>1
  <2>4. e[k] = Plain(u[r[k] - d])
    BY <1>2, <1>8, <2>1
  <2>5. r[k] - d \in 1..Len(u) /\ (r[k] - d) + d = r[k]
    BY <1>1, <2>3
  <2>6. u[r[k] - d] = t[r[k]]
    BY <1>1, <2>5
  <2> QED
    BY <1>2, <2>2, <2>4, <2>6
<1>11. Within(Said(e, InOrder(Core(e))), Said(f, InOrder(Core(f))))
  <2> HIDE DEF e, f
  <2>1. Len(e) \in Nat /\ Len(f) \in Nat
    BY <1>2
  <2> QED
    BY <1>9, <1>10, <2>1, PartCompares
<1> QED
  BY <1>1, <1>11, ComparableIs DEF u

\* A word that a passage lacks is lacking in what the passage is compared with.
LEMMA ForeignIsMissed ==
    ASSUME NEW V, NEW t \in Seq(V), NEW W, NEW q \in Seq(W), NEW i \in 1..Len(q),
           q[i] \notin White, ~is_invisible(q[i]),
           \A j \in 1..Len(t) : casefold(Plain(q[i])) # casefold(Plain(t[j]))
    PROVE  ~Within(Comparable(q), Comparable(t))
<1> DEFINE L == casefold(Plain(q[i]))
           f == Folded(q)
           g == Folded(t)
           h == InOrder(Core(f))
           r == InOrder(Core(g))
           c == Said(f, h)
           p == Said(g, r)
<1>1. i \in Visible(q)
  BY DEF Visible
<1>2. PICK k \in 1..Len(Origin(q)) : Origin(q)[k] = i
  BY <1>1, OriginIs, ListsGive
<1>3. k \in 1..Len(f) /\ f[k] = Plain(q[i]) /\ Len(f) \in Nat
  BY <1>2, FoldedIs
<1>4. /\ Len(g) \in Nat
      /\ \A n \in 1..Len(g) : \E j \in 1..Len(t) : g[n] = Plain(t[j])
  <2>1. /\ Len(Origin(t)) \in Nat /\ Len(g) = Len(Origin(t))
        /\ \A n \in 1..Len(Origin(t)) : Origin(t)[n] \in Visible(t) /\ g[n] = Plain(t[Origin(t)[n]])
    BY FoldedIs
  <2> QED
    BY <2>1 DEF Visible
<1>5. Plain(q[i]) \notin White /\ L # " "
  BY DEF Plain, White, casefold
<1> HIDE DEF L
<1> HIDE DEF f, g
<1>6. Lists(h, Core(f)) /\ Lists(r, Core(g))
  BY <1>3, <1>4, CoreListed
<1>7. k \in Core(f) /\ Solid(f, k)
  BY <1>3, <1>5 DEF Core, Solid
<1> HIDE DEF h, r
<1>8. PICK l \in 1..Len(h) : h[l] = k
  BY <1>6, <1>7, ListsGive
<1>9. Len(h) \in Nat /\ Len(r) \in Nat /\ \A n \in 1..Len(r) : r[n] \in 1..Len(g)
  BY <1>6, ListsGive DEF Core
<1>10. PICK P, C : c \in Seq(C) /\ p \in Seq(P) /\ Len(c) = Len(h) /\ Len(p) = Len(r)
  BY <1>9, SaidIs
<1>11. c[l] = L
  BY <1>3, <1>7, <1>8 DEF Said, L
<1>12. \A n \in 1..Len(p) : p[n] # L
  <2> TAKE n \in 1..Len(p)
  <2>1. n \in 1..Len(r) /\ r[n] \in 1..Len(g)
    BY <1>9, <1>10
  <2>2. PICK j \in 1..Len(t) : g[r[n]] = Plain(t[j])
    BY <1>4, <2>1
  <2>3. p[n] = IF Solid(g, r[n]) THEN casefold(g[r[n]]) ELSE " "
    BY <2>1 DEF Said
  <2>4. L # casefold(g[r[n]])
    BY <2>2 DEF L
  <2> QED
    BY <1>5, <2>3, <2>4
<1> HIDE DEF c, p
<1>13. ASSUME Within(c, p) PROVE FALSE
  <2>1. PICK n \in 1..(Len(p) - Len(c) + 1) : SubSeq(p, n, n + Len(c) - 1) = c
    BY <1>13 DEF Within
  <2>2. n \in Int /\ l \in Int /\ Len(p) \in Nat /\ Len(c) \in Nat /\ l \in 1..Len(c)
    BY <1>9, <1>10
  <2>3. n + Len(c) - 1 <= Len(p) /\ (n + l) - 1 \in 1..Len(p)
    BY <2>1, <2>2
  <2>4. SubSeq(p, n, n + Len(c) - 1)[l] = p[(n + l) - 1]
    BY <1>10, <2>2, <2>3
  <2> QED
    BY <1>11, <1>12, <2>1, <2>3, <2>4
<1> QED
  BY <1>13, ComparableIs DEF c, p, f, g, h, r

\* u has a letter y wherever t has an x that it is like.
Swaps(u, t, x, y) ==
    /\ u = [i \in 1..Len(t) |-> IF t[i] = x THEN y ELSE t[i]]
    /\ x # "z" /\ y # "z"
    /\ Plain(x) \in White <=> Plain(y) \in White
    /\ Plain(x) \in White \/ casefold(Plain(x)) = casefold(Plain(y))

\* However a text is spelled, it is compared with the same.
LEMMA SpelledCompares ==
    ASSUME NEW V, NEW t \in Seq(V), NEW how \in Spelling
    PROVE  /\ \E W : Spelled(t, how) \in Seq(W)
           /\ Comparable(Spelled(t, how)) = Comparable(t)
<1> DEFINE n == Len(t)
           u == Spelled(t, how)
           W == V \cup {"A", "alpha", "newline", "z"}
<1>1. n \in Nat /\ (\A i \in 1..n : t[i] \in V) /\ Visible(t) \subseteq 1..n
  BY DEF Visible
<1>2. ASSUME NEW x, NEW y \in W, Swaps(u, t, x, y)
      PROVE  u \in Seq(W) /\ Comparable(u) = Comparable(t)
  <2>1. u \in [1..n -> W]
    BY <1>1, <1>2 DEF Swaps
  <2>2. \A i \in 1..n : u[i] = IF t[i] = x THEN y ELSE t[i]
    BY <1>2 DEF Swaps
  <2> HIDE DEF u, W, n
  <2>3. u \in Seq(W) /\ Len(u) = n
    BY <1>1, <2>1
  <2> DEFINE m == [i \in Visible(t) |-> i]
  <2>4. Visible(u) = Visible(t)
    BY <1>2, <2>2, <2>3 DEF Visible, is_invisible, n, Swaps
  <2>5. \A i \in Visible(t) : m[i] = i /\ i \in 1..n /\ i \in Int
    BY <1>1
  <2>6. \A i \in Visible(t) :
          /\ Plain(t[i]) \in White <=> Plain(u[i]) \in White
          /\ Plain(t[i]) \in White \/ casefold(Plain(t[i])) = casefold(Plain(u[i]))
    BY <1>2, <2>2, <2>5 DEF Swaps
  <2>7. {m[i] : i \in Visible(t)} = Visible(u)
    BY <2>4, <2>5
  <2> HIDE DEF m
  <2>8. Spells(u, t, m)
    BY <2>5, <2>6, <2>7 DEF Spells
  <2> QED
    BY <2>3, <2>8, SpellingCompares
<1>3. CASE how = "as shown"
  <2>1. u = t
    BY <1>3 DEF Spelled
  <2> QED
    BY <2>1
<1>4. CASE how = "capitals"
  <2>1. u = [i \in 1..n |-> IF t[i] = "a" THEN "A" ELSE t[i]]
    BY <1>4 DEF Spelled
  <2>2. Swaps(u, t, "a", "A") /\ "A" \in W
    BY <2>1 DEF Swaps, Plain, White, casefold
  <2> QED
    BY <1>2, <2>2
<1>5. CASE how = "lookalikes"
  <2>1. u = [i \in 1..n |-> IF t[i] = "a" THEN "alpha" ELSE t[i]]
    BY <1>5 DEF Spelled
  <2>2. Swaps(u, t, "a", "alpha") /\ "alpha" \in W
    BY <2>1 DEF Swaps, Plain, White, casefold
  <2> QED
    BY <1>2, <2>2
<1>6. CASE how = "wrapped"
  <2>1. u = [i \in 1..n |-> IF t[i] = " " THEN "newline" ELSE t[i]]
    BY <1>6 DEF Spelled
  <2>2. Swaps(u, t, " ", "newline") /\ "newline" \in W
    BY <2>1 DEF Swaps, Plain, White, casefold
  <2> QED
    BY <1>2, <2>2
<1>7. CASE how = "joined"
  <2>1. u = [i \in 1..(2 * n) |-> IF i % 2 = 1 THEN t[(i + 1) \div 2] ELSE "z"]
    BY <1>7 DEF Spelled
  <2>2. \A i \in 1..(2 * n) : i % 2 = 1 =>
          (i + 1) \div 2 \in 1..n /\ i = 2 * ((i + 1) \div 2) - 1
    BY <1>1
  <2>3. u \in [1..(2 * n) -> W]
    BY <1>1, <2>1, <2>2
  <2>4. \A i \in 1..(2 * n) : u[i] = IF i % 2 = 1 THEN t[(i + 1) \div 2] ELSE "z"
    BY <2>1
  <2> HIDE DEF u, W, n
  <2>5. u \in Seq(W) /\ Len(u) = 2 * n
    BY <1>1, <2>3
  <2> DEFINE m == [i \in Visible(t) |-> (2 * i) - 1]
  <2>6. \A i \in Visible(t) : m[i] = (2 * i) - 1 /\ i \in 1..n /\ i \in Int /\ ~is_invisible(t[i])
    BY <1>1 DEF Visible
  <2>7. \A i \in 1..n : (2 * i) - 1 \in 1..(2 * n) /\ ((2 * i) - 1) % 2 = 1 /\ (((2 * i) - 1) + 1) \div 2 = i
    BY <1>1
  <2>8. \A i \in 1..n : u[(2 * i) - 1] = t[i]
    BY <2>4, <2>7
  <2>9. \A i \in Visible(t) : m[i] \in Visible(u)
    BY <2>5, <2>6, <2>7, <2>8 DEF Visible
  <2>10. ASSUME NEW i \in Visible(u) PROVE \E x \in Visible(t) : m[x] = i
    <3>1. i \in 1..(2 * n) /\ ~is_invisible(u[i])
      BY <2>5 DEF Visible
    <3>2. i % 2 = 1
      BY <2>4, <3>1 DEF is_invisible
    <3> DEFINE x == (i + 1) \div 2
    <3>3. x \in 1..n /\ i = 2 * x - 1 /\ u[i] = t[x]
      BY <2>2, <2>4, <3>1, <3>2
    <3> HIDE DEF x
    <3>4. x \in Visible(t)
      BY <3>1, <3>3 DEF Visible, n
    <3> QED
      BY <2>6, <3>3, <3>4
  <2>11. {m[i] : i \in Visible(t)} = Visible(u)
    BY <2>9, <2>10
  <2> HIDE DEF m
  <2>12. \A i \in Visible(t) : m[i] \in Int
    BY <2>6
  <2>13. \A x, y \in Visible(t) : x < y => m[x] < m[y]
    BY <2>6
  <2>14. \A i \in Visible(t) : u[m[i]] = t[i]
    BY <2>6, <2>8
  <2>15. Spells(u, t, m)
    BY <2>11, <2>12, <2>13, <2>14 DEF Spells
  <2> QED
    BY <2>5, <2>15, SpellingCompares DEF u
<1> QED
  BY <1>3, <1>4, <1>5, <1>6, <1>7 DEF Spelling

-----------------------------------------------------------------------------
(* Whose quote is whose.                                                    *)

IsCitation(a, i) == a[i].is = "citation"
Ordered(a) == \A i \in 1..Len(a) : IsCitation(a, i) => i < Len(a) /\ a[i + 1].is = "quote"

\* When every citation is directly followed by a quote, that is the quote it is given.
LEMMA PairsAre ==
    ASSUME NEW a, Len(a) \in Nat, Ordered(a)
    PROVE  Pairs(a) = {<<i, i + 1>> : i \in {j \in 1..Len(a) : IsCitation(a, j)}}
<1> DEFINE n == Len(a)
           Ahead(i) == {j \in i..Len(a) : /\ a[j].is = "quote"
                                          /\ \A k \in i..j : a[k].is # "aside"}
           Goes(g) == g = [i \in 1..(Len(a) + 1) |->
                             CASE i > Len(a) -> {}
                               [] i <= Len(a) /\ (a[i].is # "citation" \/ Ahead(i) = {}) -> g[i + 1]
                               [] OTHER -> {<<i, Min(Ahead(i))>>} \cup g[Min(Ahead(i)) + 1]]
           from == CHOOSE g : Goes(g)
           A == [i \in 1..n |-> IF IsCitation(a, i) THEN {<<i, i + 1>>} ELSE {}]
           to == [i \in 1..n |-> IF IsCitation(a, i) THEN i + 2 ELSE i + 1]
           P(k) == {<<i, i + 1>> : i \in {j \in k..n : IsCitation(a, j)}}
<1>1. Pairs(a) = from[1]
  BY DEF Pairs
<1>2. ASSUME NEW i \in 1..n, IsCitation(a, i)
      PROVE  /\ i + 1 \in 1..n /\ ~IsCitation(a, i + 1)
             /\ Ahead(i) # {} /\ Min(Ahead(i)) = i + 1
  <2>1. i < n /\ a[i + 1].is = "quote" /\ i \in Int /\ i + 1 \in 1..n /\ i + 1 \in i..n
    BY <1>2 DEF Ordered
  <2>2. ~IsCitation(a, i + 1)
    BY <2>1 DEF IsCitation
  <2>0. \A k \in i..(i + 1) : a[k].is # "aside"
    <3>1. \A k \in i..(i + 1) : k = i \/ k = i + 1
      BY <2>1
    <3>2. a[i].is = "citation"
      BY <1>2 DEF IsCitation
    <3> QED
      BY <3>1, <3>2, <2>1
  <2>3. i + 1 \in Ahead(i) /\ i \notin Ahead(i) /\ Ahead(i) \in SUBSET Nat
    BY <1>2, <2>0, <2>1 DEF IsCitation
  <2>4. \A j \in Ahead(i) : i <= j /\ j \in Int
    BY <2>1
  <2>5. Min(Ahead(i)) \in Ahead(i) /\ \A j \in Ahead(i) : Min(Ahead(i)) <= j
    <3> HIDE DEF Ahead
    <3> QED
      BY <2>3, MinIs
  <2> DEFINE x == Min(Ahead(i))
  <2>6. x \in Ahead(i) /\ x <= i + 1
    BY <2>3, <2>5
  <2> HIDE DEF x, Ahead
  <2>7. x = i + 1
    BY <2>1, <2>3, <2>4, <2>6
  <2> QED
    BY <2>1, <2>2, <2>3, <2>7 DEF x
<1>3. \A i \in 1..n : to[i] \in (i + 1)..(n + 1)
  <2> TAKE i \in 1..n
  <2>1. CASE IsCitation(a, i)
    <3>1. i + 1 \in 1..n /\ to[i] = i + 2
      BY <1>2, <2>1
    <3> HIDE DEF to
    <3> QED
      BY <3>1
  <2>2. CASE ~IsCitation(a, i)
    BY <2>2
  <2> QED
    BY <2>1, <2>2
<1>4. PICK g : GoesRight(g, n, A, to)
  <2> HIDE DEF A, to
  <2> QED
    BY <1>3, ChainExists
<1>5. ASSUME NEW i \in 1..(n + 1), NEW f
      PROVE  (IF i > n THEN {} ELSE A[i] \cup f[to[i]])
               = CASE i > n -> {}
                   [] i <= n /\ (a[i].is # "citation" \/ Ahead(i) = {}) -> f[i + 1]
                   [] OTHER -> {<<i, Min(Ahead(i))>>} \cup f[Min(Ahead(i)) + 1]
  <2>1. CASE i > n
    BY <2>1
  <2>2. CASE ~(i > n) /\ IsCitation(a, i)
    <3>1. i \in 1..n /\ i <= n
      BY <2>2
    <3>2. Ahead(i) # {} /\ Min(Ahead(i)) = i + 1
      BY <1>2, <2>2, <3>1
    <3>3. A[i] = {<<i, i + 1>>} /\ to[i] = i + 2 /\ (i + 1) + 1 = i + 2
      BY <2>2, <3>1
    <3> HIDE DEF A, to, Ahead, n
    <3> QED
      BY <2>2, <3>1, <3>2, <3>3 DEF IsCitation
  <2>3. CASE ~(i > n) /\ ~IsCitation(a, i)
    <3>1. i \in 1..n /\ i <= n
      BY <2>3
    <3>2. A[i] = {} /\ to[i] = i + 1
      BY <2>3, <3>1
    <3> HIDE DEF A, to, Ahead, n
    <3> QED
      BY <2>3, <3>1, <3>2 DEF IsCitation
  <2> QED
    BY <2>1, <2>2, <2>3
<1>6. Goes(from)
  <2>1. Goes(g)
    <3> HIDE DEF A, to, Ahead
    <3> QED
      BY <1>4, <1>5 DEF GoesRight
  <2> HIDE DEF Goes
  <2> QED
    BY <2>1, Zenon
<1>7. \A i \in 1..(n + 1) : from[i] = IF i > n THEN {} ELSE A[i] \cup from[to[i]]
  <2> HIDE DEF A, to, Ahead, from
  <2> QED
    BY <1>5, <1>6
<1> DEFINE D == {d \in Nat : d <= n /\ from[(n + 1) - d] # P((n + 1) - d)}
<1>8. D = {}
  <2> SUFFICES ASSUME D # {} PROVE FALSE
    OBVIOUS
  <2>1. PICK d \in D : \A e \in D : d <= e
    <3>1. D \in SUBSET Nat
      OBVIOUS
    <3> HIDE DEF D
    <3> QED
      BY <3>1, LeastNumber
  <2> DEFINE i == (n + 1) - d
  <2> HIDE DEF from, P
  <2>2. d \in Nat /\ d <= n /\ i \in 1..(n + 1) /\ from[i] # P(i) /\ n \in Nat
    OBVIOUS
  <2> HIDE DEF A, to
  <2>3. \A j \in (i + 1)..(n + 1) : from[j] = P(j)
    <3> TAKE j \in (i + 1)..(n + 1)
    <3> DEFINE e == (n + 1) - j
    <3>1. e \in Nat /\ e < d /\ (n + 1) - e = j /\ e <= n
      BY <2>2
    <3>2. e \notin D
      <4> HIDE DEF D
      <4> QED
        BY <2>1, <2>2, <3>1
    <3> HIDE DEF e
    <3> QED
      BY <3>1, <3>2
  <2> HIDE DEF D, i
  <2> USE DEF P
  <2>4. i \in 1..n
    <3>1. ASSUME i = n + 1 PROVE FALSE
      <4>1. from[i] = {}
        <5>1. i > n /\ i \in 1..(n + 1)
          BY <2>2, <3>1
        <5> HIDE DEF n
        <5> QED
          BY <1>7, <5>1
      <4>2. P(i) = {}
        BY <2>2, <3>1
      <4> QED
        BY <2>2, <4>1, <4>2
    <3> QED
      BY <2>2, <3>1
  <2>5. from[i] = A[i] \cup from[to[i]]
    <3>1. ~(i > n)
      BY <2>2, <2>4
    <3> QED
      BY <1>7, <2>2, <3>1
  <2>6. CASE IsCitation(a, i)
    <3>1. A[i] = {<<i, i + 1>>} /\ to[i] = i + 2
      BY <2>4, <2>6 DEF A, to
    <3>2. i + 1 \in 1..n /\ ~IsCitation(a, i + 1)
      BY <1>2, <2>4, <2>6
    <3>3. from[i + 2] = P(i + 2)
      <4>1. i + 2 \in (i + 1)..(n + 1)
        BY <2>2, <2>4, <3>2
      <4> QED
        BY <2>3, <4>1
    <3>4. P(i) = {<<i, i + 1>>} \cup P(i + 2)
      <4>1. \A j \in i..n : j = i \/ j = i + 1 \/ j \in (i + 2)..n
        BY <2>2, <2>4
      <4>2. i \in i..n /\ \A j \in (i + 2)..n : j \in i..n
        BY <2>2, <2>4
      <4> HIDE DEF n
      <4> QED
        BY <2>6, <3>2, <4>1, <4>2
    <3> QED
      BY <2>2, <2>5, <3>1, <3>3, <3>4
  <2>7. CASE ~IsCitation(a, i)
    <3>1. A[i] = {} /\ to[i] = i + 1
      BY <2>4, <2>7 DEF A, to
    <3>2. from[i + 1] = P(i + 1)
      <4>1. i + 1 \in (i + 1)..(n + 1)
        BY <2>2, <2>4
      <4> QED
        BY <2>3, <4>1
    <3>3. P(i) = P(i + 1)
      <4>1. \A j \in i..n : j = i \/ j \in (i + 1)..n
        BY <2>2, <2>4
      <4>2. \A j \in (i + 1)..n : j \in i..n
        BY <2>2, <2>4
      <4> HIDE DEF n
      <4> QED
        BY <2>7, <4>1, <4>2
    <3> QED
      BY <2>2, <2>5, <3>1, <3>2, <3>3
  <2> QED
    BY <2>6, <2>7
<1>9. from[1] = P(1)
  <2>1. n \in Nat /\ (n + 1) - n = 1
    OBVIOUS
  <2> HIDE DEF from, P, n
  <2> QED
    BY <1>8, <2>1
<1> QED
  BY <1>1, <1>9

\* What check_answer makes of an answer whose citations are each followed by a quote.
LEMMA FindingsAre ==
    ASSUME NEW a, Len(a) \in Nat, Ordered(a), NEW c, Len(c) \in Nat, NEW n, n \in Cited(a)
    PROVE  /\ n \notin 1..Len(c) <=> <<"citation_out_of_range", n>> \in check_answer(a, c)
           /\ n \in 1..Len(c) =>
                /\ (\A i \in 1..Len(a) : IsCitation(a, i) /\ a[i].n = n => Supports(c[n], a[i + 1].text))
                     => \A w \in check_answer(a, c) : w[2] # n
                /\ (\E i \in 1..Len(a) : IsCitation(a, i) /\ a[i].n = n /\ ~Supports(c[n], a[i + 1].text))
                     => <<"citation_unsupported", n>> \in check_answer(a, c)
<1> DEFINE P == Pairs(a)
           allowed == 1..Len(c)
           quoted == {a[p[1]].n : p \in P}
           wrong == {p \in P : a[p[1]].n \in allowed /\ ~Supports(c[a[p[1]].n], a[p[2]].text)}
           Out == {<<"citation_out_of_range", m>> : m \in Cited(a) \ allowed}
           Wrong == {<<"citation_unsupported", a[p[1]].n>> : p \in wrong}
           Bare == {<<"citation_unquoted", m>> : m \in (Cited(a) \cap allowed) \ quoted}
<1>1. check_answer(a, c) = Out \cup Wrong \cup Bare
  BY DEF check_answer
<1>2. /\ \A p \in P : \E i \in 1..Len(a) : IsCitation(a, i) /\ p = <<i, i + 1>>
      /\ \A i \in 1..Len(a) : IsCitation(a, i) => <<i, i + 1>> \in P
  BY PairsAre
<1>3. PICK k \in 1..Len(a) : IsCitation(a, k) /\ a[k].n = n
  BY DEF Cited, IsCitation
<1> HIDE DEF P
<1>4. n \in quoted
  <2>1. <<k, k + 1>> \in P /\ a[<<k, k + 1>>[1]].n = n
    BY <1>2, <1>3
  <2> QED
    BY <2>1
<1>5. \A w \in Out : w[1] = "citation_out_of_range" /\ w[2] \notin allowed
  OBVIOUS
<1>6. \A w \in Wrong : w[1] = "citation_unsupported"
  OBVIOUS
<1>7. \A w \in Bare : w[1] = "citation_unquoted" /\ w[2] \notin quoted
  OBVIOUS
<1>8. \A w \in Wrong : \E i \in 1..Len(a) :
        /\ IsCitation(a, i) /\ a[i].n = w[2]
        /\ w[2] \in allowed /\ ~Supports(c[w[2]], a[i + 1].text)
  <2> TAKE w \in Wrong
  <2>1. PICK p \in wrong : w = <<"citation_unsupported", a[p[1]].n>>
    OBVIOUS
  <2>2. PICK i \in 1..Len(a) : IsCitation(a, i) /\ p = <<i, i + 1>>
    BY <1>2
  <2>3. p[1] = i /\ p[2] = i + 1 /\ w[2] = a[i].n
    BY <2>1, <2>2
  <2> QED
    BY <2>2, <2>3
<1>9. n \notin allowed <=> <<"citation_out_of_range", n>> \in Out
  OBVIOUS
<1>10. ASSUME NEW i \in 1..Len(a), IsCitation(a, i), a[i].n = n, n \in allowed,
              ~Supports(c[n], a[i + 1].text)
       PROVE  <<"citation_unsupported", n>> \in Wrong
  <2> DEFINE p == <<i, i + 1>>
  <2>1. p \in P /\ p[1] = i /\ p[2] = i + 1
    BY <1>2, <1>10
  <2> HIDE DEF p
  <2>2. p \in wrong /\ a[p[1]].n = n
    BY <1>10, <2>1
  <2> QED
    BY <2>2
<1> HIDE DEF Out, Wrong, Bare, quoted
<1>11. n \notin 1..Len(c) <=> <<"citation_out_of_range", n>> \in check_answer(a, c)
  <2>1. <<"citation_out_of_range", n>>[1] = "citation_out_of_range"
    OBVIOUS
  <2>2. "citation_out_of_range" # "citation_unsupported" /\ "citation_out_of_range" # "citation_unquoted"
    OBVIOUS
  <2> QED
    BY <1>1, <1>6, <1>7, <1>9, <2>1, <2>2
<1>12. ASSUME n \in 1..Len(c),
              \A i \in 1..Len(a) : IsCitation(a, i) /\ a[i].n = n => Supports(c[n], a[i + 1].text),
              NEW w \in check_answer(a, c)
       PROVE  w[2] # n
  BY <1>1, <1>4, <1>5, <1>7, <1>8, <1>12
<1>13. ASSUME n \in 1..Len(c),
              \E i \in 1..Len(a) : IsCitation(a, i) /\ a[i].n = n /\ ~Supports(c[n], a[i + 1].text)
       PROVE  <<"citation_unsupported", n>> \in check_answer(a, c)
  BY <1>1, <1>10, <1>13
<1> QED
  BY <1>11, <1>12, <1>13

\* Each of its findings is about a number that is cited.
LEMMA FindingsAreCited ==
    ASSUME NEW a, Len(a) \in Nat, Ordered(a), NEW c, NEW w \in check_answer(a, c)
    PROVE  w[2] \in Cited(a)
<1> DEFINE P == Pairs(a)
           allowed == 1..Len(c)
           quoted == {a[p[1]].n : p \in P}
           wrong == {p \in P : a[p[1]].n \in allowed /\ ~Supports(c[a[p[1]].n], a[p[2]].text)}
<1>1. \/ \E m \in Cited(a) \ allowed : w = <<"citation_out_of_range", m>>
      \/ \E p \in wrong : w = <<"citation_unsupported", a[p[1]].n>>
      \/ \E m \in (Cited(a) \cap allowed) \ quoted : w = <<"citation_unquoted", m>>
  BY DEF check_answer
<1>2. \A p \in P : \E i \in 1..Len(a) : IsCitation(a, i) /\ p = <<i, i + 1>>
  BY PairsAre
<1> HIDE DEF P, allowed, quoted
<1>3. ASSUME NEW p \in wrong, w = <<"citation_unsupported", a[p[1]].n>>
      PROVE  w[2] \in Cited(a)
  <2>1. PICK i \in 1..Len(a) : IsCitation(a, i) /\ p = <<i, i + 1>>
    BY <1>2
  <2>2. w[2] = a[i].n
    BY <1>3, <2>1
  <2> QED
    BY <2>1, <2>2 DEF Cited, IsCitation
<1> QED
  BY <1>1, <1>3

-----------------------------------------------------------------------------
(* The reply, which all of it is part of.                                   *)

LEMMA ReplyChunks == Spec => ChunkSpec
<1>1. Init => ChunkInit
  BY DEF Init
<1>2. [Next]_vars => [Chunk]_chunkVars
  <2>1. Next => Chunk \/ UNCHANGED chunkVars
    BY DEF Next, Store, Ask, Block, Search, Sources, Write, Usage, Raise, Leave, Conclude
  <2> QED
    BY <2>1 DEF vars
<1> QED
  BY <1>1, <1>2, PTL DEF Spec, ChunkSpec

LEMMA ReplyTraces == Spec => []TraceOK
<1>1. Init => TraceOK
  BY DEF Init, TraceInit, TraceOK, FinishedTraceIsClosed
<1>2. TraceOK /\ [Next]_vars => TraceOK'
  <2> SUFFICES ASSUME TraceOK, [Next]_vars PROVE TraceOK'
    OBVIOUS
  <2>1. CASE UNCHANGED <<trace, spans, held>> /\ (stage' # "stored" \/ stage' = stage)
    BY <2>1 DEF TraceOK, FinishedTraceIsClosed
  <2>2. CASE Ask
    <3>1. TraceStart /\ stage = "stored" /\ stage' # "stored"
      BY <2>2 DEF Ask
    <3> QED
      BY <3>1, TraceStarts
  <2>3. CASE Sources
    <3>1. TraceSources /\ stage' # "stored"
      BY <2>3 DEF Sources
    <3> QED
      BY <3>1, TraceGoesOn
  <2>4. CASE Conclude
    <3>1. stage' # "stored" /\ (TraceFinish(error) \/ UNCHANGED traceVars)
      BY <2>4 DEF Conclude
    <3> QED
      BY <2>1, <3>1, TraceFinishes DEF traceVars
  <2>5. CASE Search
    BY <2>1, <2>5 DEF Search, traceVars
  <2>6. CASE \/ Store \/ Block \/ Write
             \/ Usage \/ Raise \/ Leave
    BY <2>1, <2>6 DEF Store, Block, Write, Usage,
           Raise, Leave, traceVars, replyVars
  <2> QED
    BY <2>1, <2>2, <2>3, <2>4, <2>5, <2>6
       DEF Next, vars, traceVars, replyVars
<1> QED
  BY <1>1, <1>2, PTL DEF Spec

LEMMA ReplyChunksOK == Spec => []ChunksOK
BY ReplyChunks, ChunksStart, ChunksStep, PTL DEF ChunkSpec

\* A passage that is shown is a text, in letters that have the markers among them.
LEMMA PassageIs ==
    ASSUME ChunksOK, NEW i \in 1..Len(chunks)
    PROVE  IsText(Passage(i))
<1> DEFINE a == Min(chunks[i])
           b == Max(chunks[i])
           L == {text[k] : k \in DOMAIN text}
<1>1. text \in Seq(L) /\ Len(text) \in Nat
  BY DEF ChunksOK, IsText
<1>2. chunks[i] # {} /\ chunks[i] \in SUBSET (1..Len(text)) /\ chunks[i] \in SUBSET Nat
  BY DEF ChunksOK
<1>3. a \in 1..Len(text) /\ b \in 1..Len(text)
  BY <1>1, <1>2, MinIs, MaxIs
<1>4. Passage(i) = SubSeq(text, a, b)
  BY DEF Passage
<1> HIDE DEF a, b, L
<1>5. SubSeq(text, a, b) \in Seq(L)
  BY <1>1, <1>3
<1> QED
  BY <1>4, <1>5, TextIs

Markers == {Marker(p) : p \in Patterns}

LEMMA ShownIs ==
    ASSUME NEW t, IsText(t)
    PROVE  /\ IsText(Shown(t))
           /\ \A p \in Patterns : Spans(p, Shown(t)) = {}
           /\ Clean(t) => Shown(t) = t
<1> DEFINE L == {t[i] : i \in DOMAIN t}
           V == L \cup Markers
<1>1. t \in Seq(L)
  BY DEF IsText
<1> HIDE DEF L
<1>2. t \in Seq(V) /\ \A p \in Patterns : Marker(p) \in V
  BY <1>1 DEF Markers
<1> HIDE DEF V
<1>3. /\ Shown(t) \in Seq(V) /\ \A p \in Patterns : Spans(p, Shown(t)) = {}
      /\ Clean(t) => Shown(t) = t
  BY <1>2, DefuseCleans
<1> QED
  BY <1>3, TextIs

\* What has been retrieved is texts, and what has been streamed is citations, prose and
\* quotes of texts.
IsPart(x) ==
    \/ x.is = "citation" /\ x = Cite(x.n)
    \/ x.is = "quote" /\ IsText(x.text)
    \/ x.is \in {"prose", "aside"}

AreTexts(c) == Len(c) \in Nat /\ \A i \in 1..Len(c) : IsText(c[i])
AreParts(a) == IsText(a) /\ \A i \in 1..Len(a) : IsPart(a[i])

AnswerOK ==
    /\ AreTexts(contexts)
    /\ AreParts(answer)
    /\ billed => stage \notin {"stored", "asked", "found", "streaming"}
    /\ billed => warnings = check_answer(answer, contexts)
    /\ stage = "stored" => answer = << >>

LEMMA QuotesAre ==
    ASSUME AnswerOK, NEW q \in Quotes
    PROVE  IsText(q)
<1>1. CASE q = <<"own">>
  <2>1. q \in Seq({"own"})
    BY <1>1
  <2> QED
    BY <2>1, TextIs
<1>2. ASSUME NEW i \in 1..Len(contexts),
             NEW t \in Excerpts(Shown(contexts[i])), NEW how \in Spelling,
             q = Spelled(t, how)
      PROVE  IsText(q)
  <2> DEFINE s == Shown(contexts[i])
  <2>1. IsText(s)
    BY ShownIs DEF AnswerOK, AreTexts
  <2> DEFINE L == {s[k] : k \in DOMAIN s}
  <2>2. s \in Seq(L)
    BY <2>1 DEF IsText
  <2>3. t \in Excerpts(s)
    OBVIOUS
  <2> HIDE DEF s, L
  <2>4. PICK a, b \in 1..Len(s) : t = SubSeq(s, a, b)
    BY <2>3 DEF Excerpts
  <2>5. t \in Seq(L)
    BY <2>2, <2>4, ExcerptCompares
  <2>6. PICK W : Spelled(t, how) \in Seq(W)
    BY <2>5, SpelledCompares
  <2> QED
    BY <1>2, <2>6, TextIs
<1> QED
  BY <1>1, <1>2 DEF Quotes

LEMMA ReplyAnswers == Spec => []AnswerOK
<1>1. Init => AnswerOK
  <2> SUFFICES ASSUME Init PROVE AnswerOK
    OBVIOUS
  <2>1. Len(<< >>) = 0 /\ << >> \in Seq({})
    OBVIOUS
  <2>2. IsText(<< >>)
    BY <2>1, TextIs
  <2> QED
    BY <2>1, <2>2 DEF Init, AnswerOK, AreTexts, AreParts
<1>2. ChunksOK /\ AnswerOK /\ [Next]_vars => AnswerOK'
  <2> SUFFICES ASSUME ChunksOK, AnswerOK, [Next]_vars PROVE AnswerOK'
    OBVIOUS
  <2>1. CASE /\ UNCHANGED <<contexts, answer, billed, warnings>>
             /\ billed => stage' = stage \/ stage' \in {"ending", "over"}
             /\ stage' = "stored" => stage = "stored"
    BY <2>1 DEF AnswerOK
  <2>2. CASE Search
    <3>1. PICK n \in 0..K : \E found \in [1..n -> 1..Len(chunks)] :
            contexts' = [i \in 1..n |-> Passage(found[i])]
      BY <2>2 DEF Search
    <3>2. PICK found \in [1..n -> 1..Len(chunks)] :
            contexts' = [i \in 1..n |-> Passage(found[i])]
      BY <3>1
    <3>3. n \in Nat
      OBVIOUS
    <3>4. Len(contexts') = n
      BY <3>2, <3>3
    <3>5. \A i \in 1..n : contexts'[i] = Passage(found[i]) /\ found[i] \in 1..Len(chunks)
      BY <3>2
    <3>6. \A i \in 1..n : IsText(contexts'[i])
      BY <3>5, PassageIs
    <3>7. ~billed /\ UNCHANGED <<answer, billed, warnings>> /\ stage' # "stored"
      BY <2>2 DEF Search, AnswerOK
    <3>8. AreTexts(contexts')
      BY <3>3, <3>4, <3>6 DEF AreTexts
    <3> QED
      BY <3>7, <3>8 DEF AnswerOK
  <2>3. CASE Write
    <3>1. PICK part \in {Cite(n) : n \in Cites}
                        \cup {Quote(q) : q \in Quotes} \cup {Prose, Aside} :
            answer' = Append(answer, part)
      BY <2>3 DEF Write
    <3>2. IsPart(part)
      BY QuotesAre DEF IsPart, Cite, Quote, Prose, Aside
    <3>3. ~billed /\ UNCHANGED <<contexts, billed, warnings, stage>> /\ stage # "stored"
      BY <2>3 DEF Write, AnswerOK
    <3> DEFINE L == {answer[i] : i \in DOMAIN answer}
    <3>4. answer \in Seq(L)
      BY DEF AnswerOK, AreParts, IsText
    <3> HIDE DEF L
    <3>5. /\ answer' \in Seq(L \cup {part})
          /\ \A i \in 1..Len(answer') : answer'[i] = part \/ (i \in 1..Len(answer) /\ answer'[i] = answer[i])
      BY <3>1, <3>4
    <3>6. IsText(answer')
      BY <3>5, TextIs
    <3>7. \A i \in 1..Len(answer') : IsPart(answer'[i])
      BY <3>2, <3>5 DEF AnswerOK, AreParts
    <3>8. AreParts(answer')
      BY <3>6, <3>7 DEF AreParts
    <3> QED
      BY <3>3, <3>8 DEF AnswerOK
  <2>4. CASE Usage
    BY <2>4 DEF Usage, AnswerOK
  <2>5. CASE \/ Store \/ Ask \/ Block \/ Sources
             \/ Raise \/ Leave \/ Conclude
    BY <2>1, <2>5 DEF Store, Ask, Block, Sources,
           Raise, Leave, Conclude, replyVars, AnswerOK
  <2>6. CASE UNCHANGED vars
    BY <2>1, <2>6 DEF vars, replyVars
  <2> QED
    BY <2>2, <2>3, <2>4, <2>5, <2>6 DEF Next
<1> QED
  BY <1>1, <1>2, ReplyChunksOK, PTL DEF Spec

\* chunk_text keeps every phrase of Overlap+1 letters in one piece, for every text,
\* window and overlap that it accepts, and nothing after it takes one apart.
THEOREM PhrasesWhole == Spec => []PhrasesAreWhole
<1>1. ChunksOK => PhrasesAreWhole
  BY DEF ChunksOK, WholeUpTo, Reached, PhrasesAreWhole
<1> QED
  BY ReplyChunksOK, <1>1, PTL

\* A trace that was finished leaves no span open at the service, whatever failed on
\* the way, for any texts, passages and answers.
THEOREM FinishedTracesAreClosed == Spec => []FinishedTraceIsClosed
<1>1. TraceOK => FinishedTraceIsClosed
  BY DEF TraceOK
<1> QED
  BY ReplyTraces, <1>1, PTL

\* _defuse settles in one pass per pattern: for every text that is stored, nothing of a
\* passage as it is shown to the model matches a pattern of the grammar, whatever its
\* invisible letters and the replacements leave side by side.
THEOREM DefusingSettles == Spec => []DefusedIsClean
<1>1. ChunksOK => DefusedIsClean
  <2> SUFFICES ASSUME ChunksOK, NEW i \in 1..Len(chunks), NEW p \in Range(Grammar)
               PROVE  Spans(p, Shown(Passage(i))) = {}
    BY DEF DefusedIsClean
  <2>1. p \in Patterns
    BY DEF Range, Grammar, Patterns
  <2> QED
    BY <2>1, PassageIs, ShownIs
<1> QED
  BY ReplyChunksOK, <1>1, PTL

\* replace_folded cuts out the matches and nothing else: every letter outside them
\* stays, in its order, and each leaves one marker, however they lie.
THEOREM RewritingIsExact == Spec => []RewritesOnlyTheSpans
<1>1. ChunksOK => RewritesOnlyTheSpans
  <2> SUFFICES ASSUME ChunksOK, NEW i \in 1..Len(chunks), NEW p \in Range(Grammar)
               PROVE  LET t == Passage(i)
                          cut == Spans(p, t)
                          left == InOrder({k \in 1..Len(t) :
                                    \A s \in cut : k \notin (s[1] + 1)..s[2]})
                      IN  replace_folded(t, cut, Marker(p)) =
                            [k \in 1..Len(left) |->
                              IF \E s \in cut : left[k] = s[1] THEN Marker(p) ELSE t[left[k]]]
    BY DEF RewritesOnlyTheSpans
  <2> DEFINE t == Passage(i)
             cut == Spans(p, t)
             left == InOrder(Kept(cut, Len(t)))
             L == {t[k] : k \in DOMAIN t}
             V == L \cup {Marker(p)}
  <2>1. t \in Seq(L)
    BY PassageIs DEF IsText
  <2> HIDE DEF t, L
  <2>2. t \in Seq(V) /\ Marker(p) \in V
    BY <2>1
  <2> HIDE DEF V
  <2>3. Spaced(cut, Len(t))
    BY <2>2, SpansAre
  <2> HIDE DEF cut
  <2>4. replace_folded(t, cut, Marker(p)) = Through(t, cut, Marker(p), left)
    BY <2>2, <2>3, ReplaceIs
  <2> QED
    BY <2>4, Zenon DEF Through, Begins, Kept, left, cut, t
<1> QED
  BY ReplyChunksOK, <1>1, PTL

\* The findings of an answer that cites as the system prompt asks are right: none about
\* a passage that is only reproduced, in whatever spelling, one about a quote with a
\* word the passage lacks, and one about each number that no passage has.
THEOREM FindingsAreSound == Spec => []FindingsAreRight
<1>1. AnswerOK => FindingsAreRight
  <2> SUFFICES ASSUME AnswerOK, billed, Compliant, NEW n \in Cited(answer)
               PROVE  /\ n \notin 1..Len(contexts) <=> <<"citation_out_of_range", n>> \in warnings
                      /\ n \in 1..Len(contexts) =>
                           /\ (\A q \in QuotesOf(n) : Reproduces(q, contexts[n])) =>
                                 \A w \in warnings : w[2] # n
                           /\ (\E q \in QuotesOf(n) : IsForeign(q, contexts[n])) =>
                                 <<"citation_unsupported", n>> \in warnings
    BY DEF FindingsAreRight
  <2>1. /\ Len(answer) \in Nat /\ Len(contexts) \in Nat
        /\ Ordered(answer) /\ n \in Cited(answer)
        /\ warnings = check_answer(answer, contexts)
    BY DEF AnswerOK, AreTexts, AreParts, IsText, Compliant, Ordered, IsCitation
  <2>2. \A i \in 1..Len(answer) : IsCitation(answer, i) =>
          /\ answer[i] = Cite(answer[i].n)
          /\ i \in 1..(Len(answer) - 1) /\ i + 1 \in 1..Len(answer)
          /\ answer[i + 1].is = "quote" /\ IsText(answer[i + 1].text)
    <3> SUFFICES ASSUME NEW i \in 1..Len(answer), IsCitation(answer, i)
                 PROVE  /\ answer[i] = Cite(answer[i].n)
                        /\ i \in 1..(Len(answer) - 1) /\ i + 1 \in 1..Len(answer)
                        /\ answer[i + 1].is = "quote" /\ IsText(answer[i + 1].text)
      OBVIOUS
    <3>1. IsPart(answer[i]) /\ answer[i].is = "citation"
      BY DEF AnswerOK, AreParts, IsCitation
    <3>2. i \in 1..(Len(answer) - 1) /\ i + 1 \in 1..Len(answer) /\ answer[i + 1].is = "quote"
      BY <2>1 DEF Ordered
    <3>3. IsPart(answer[i + 1])
      BY <3>2 DEF AnswerOK, AreParts
    <3> QED
      BY <3>1, <3>2, <3>3 DEF IsPart
  <2>3. \A i \in 1..Len(answer) : IsCitation(answer, i) /\ answer[i].n = n =>
          answer[i + 1].text \in QuotesOf(n)
    BY <2>2 DEF QuotesOf
  <2>4. ASSUME NEW q \in QuotesOf(n)
        PROVE  \E i \in 1..Len(answer) :
                 IsCitation(answer, i) /\ answer[i].n = n /\ q = answer[i + 1].text
    <3>1. PICK i \in 1..(Len(answer) - 1) : answer[i] = Cite(n) /\ q = answer[i + 1].text
      BY DEF QuotesOf
    <3>2. i \in 1..Len(answer)
      BY <2>1
    <3>3. answer[i].is = "citation" /\ answer[i].n = n
      BY <3>1 DEF Cite
    <3> QED
      BY <3>1, <3>2, <3>3 DEF IsCitation
  <2>5. ASSUME n \in 1..Len(contexts), NEW q, Reproduces(q, contexts[n])
        PROVE  Supports(contexts[n], q)
    <3> DEFINE t == contexts[n]
               L == {t[k] : k \in DOMAIN t}
    <3>1. t \in Seq(L) /\ Reproduces(q, t)
      BY <2>5 DEF AnswerOK, AreTexts, IsText
    <3> HIDE DEF t, L
    <3>2. PICK a, b \in 1..Len(t) : \E how \in Spelling :
            q = Spelled(SubSeq(t, a, b), how)
      BY <3>1 DEF Reproduces
    <3>3. PICK how \in Spelling : q = Spelled(SubSeq(t, a, b), how)
      BY <3>2
    <3> DEFINE u == SubSeq(t, a, b)
    <3>4. u \in Seq(L) /\ Within(Comparable(u), Comparable(t))
      BY <3>1, ExcerptCompares
    <3> HIDE DEF u
    <3>5. Comparable(Spelled(u, how)) = Comparable(u)
      BY <3>4, SpelledCompares
    <3> QED
      BY <3>3, <3>4, <3>5 DEF Supports, t, u
  <2>6. ASSUME n \in 1..Len(contexts), NEW q, IsText(q), IsForeign(q, contexts[n])
        PROVE  ~Supports(contexts[n], q)
    <3> DEFINE t == contexts[n]
               L == {t[k] : k \in DOMAIN t}
               W == {q[k] : k \in DOMAIN q}
    <3>1. t \in Seq(L) /\ q \in Seq(W) /\ IsForeign(q, t)
      BY <2>6 DEF AnswerOK, AreTexts, IsText
    <3> HIDE DEF t, L, W
    <3>2. DOMAIN t = 1..Len(t) /\ DOMAIN q = 1..Len(q)
      BY <3>1
    <3>3. PICK x \in Range(q) :
            /\ x \notin White /\ ~is_invisible(x)
            /\ casefold(Plain(x)) \notin {casefold(Plain(y)) : y \in Range(t)}
      BY <3>1 DEF IsForeign
    <3>4. PICK i \in 1..Len(q) : q[i] = x
      BY <3>2 DEF Range
    <3>5. \A j \in 1..Len(t) : casefold(Plain(q[i])) # casefold(Plain(t[j]))
      BY <3>2, <3>3, <3>4 DEF Range
    <3>6. ~Within(Comparable(q), Comparable(t))
      BY <3>1, <3>3, <3>4, <3>5, ForeignIsMissed
    <3> QED
      BY <3>6 DEF Supports, t
  <2>7. n \notin 1..Len(contexts) <=> <<"citation_out_of_range", n>> \in warnings
    BY <2>1, FindingsAre
  <2>8. ASSUME n \in 1..Len(contexts),
               \A q \in QuotesOf(n) : Reproduces(q, contexts[n])
        PROVE  \A w \in warnings : w[2] # n
    <3>1. \A i \in 1..Len(answer) : IsCitation(answer, i) /\ answer[i].n = n =>
            Supports(contexts[n], answer[i + 1].text)
      BY <2>3, <2>5, <2>8
    <3> QED
      BY <2>1, <2>8, <3>1, FindingsAre
  <2>9. ASSUME n \in 1..Len(contexts),
               \E q \in QuotesOf(n) : IsForeign(q, contexts[n])
        PROVE  <<"citation_unsupported", n>> \in warnings
    <3>1. PICK q \in QuotesOf(n) : IsForeign(q, contexts[n])
      BY <2>9
    <3>2. PICK i \in 1..Len(answer) :
            IsCitation(answer, i) /\ answer[i].n = n /\ q = answer[i + 1].text
      BY <2>4
    <3>3. ~Supports(contexts[n], answer[i + 1].text)
      BY <2>2, <2>6, <2>9, <3>1, <3>2
    <3> QED
      BY <2>1, <2>9, <3>2, <3>3, FindingsAre
  <2> QED
    BY <2>7, <2>8, <2>9
<1> QED
  BY ReplyAnswers, <1>1, PTL

\* Nothing in the passages was replaced for the model.
NothingDefused ==
    \A i \in 1..Len(contexts) : \A p \in Range(Grammar) :
      Spans(p, contexts[i]) = {}

\* The quotes are looked up in the passages as they are stored, not as the model saw
\* them.  That is the only way an honest answer is found fault with: where nothing was
\* defused, quotes that are true to what was shown leave no finding at all.
THEOREM HonestUnlessDefused ==
    Spec => [](NothingDefused => HonestAnswersPass)
<1>1. AnswerOK /\ FindingsAreRight => (NothingDefused => HonestAnswersPass)
  <2> SUFFICES ASSUME AnswerOK, FindingsAreRight, NothingDefused, billed, Compliant,
                      \A n \in Cited(answer) :
                        /\ n \in 1..Len(contexts)
                        /\ \A q \in QuotesOf(n) :
                             Reproduces(q, Shown(contexts[n])),
                      NEW w \in warnings
               PROVE  FALSE
    BY DEF HonestAnswersPass
  <2> DEFINE n == w[2]
  <2>1. /\ Len(answer) \in Nat /\ Ordered(answer)
        /\ w \in check_answer(answer, contexts)
    BY DEF AnswerOK, AreTexts, AreParts, IsText, Compliant, Ordered, IsCitation
  <2>2. n \in Cited(answer)
    BY <2>1, FindingsAreCited
  <2> HIDE DEF n
  <2>3. n \in 1..Len(contexts) /\ IsText(contexts[n])
    BY <2>2 DEF AnswerOK, AreTexts
  <2>4. Clean(contexts[n])
    <3> SUFFICES ASSUME NEW p \in Patterns PROVE Found(p, Folded(contexts[n])) = {}
      BY DEF Clean
    <3>1. p \in Range(Grammar)
      BY DEF Range, Grammar, Patterns
    <3>2. Spans(p, contexts[n]) = {}
      BY <2>3, <3>1 DEF NothingDefused
    <3> QED
      BY <3>2 DEF Spans
  <2>5. Shown(contexts[n]) = contexts[n]
    BY <2>3, <2>4, ShownIs
  <2>6. \A q \in QuotesOf(n) : Reproduces(q, contexts[n])
    BY <2>2, <2>5
  <2>7. w[2] # n
    BY <2>2, <2>3, <2>6 DEF FindingsAreRight
  <2> QED
    BY <2>7 DEF n
<1> QED
  BY ReplyAnswers, FindingsAreSound, <1>1, PTL
=============================================================================
