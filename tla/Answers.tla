------------------------------ MODULE Answers -------------------------------
(***************************************************************************)
(* POST /ask: assistant.answer_stream for any number of concurrent streams, *)
(* the limits it checks before a model call, the frames it sends, and the   *)
(* two ledgers it books in: the answers rows of each org, and the one row a *)
(* day of platform_spend.                                                   *)
(*                                                                          *)
(* Every `with connect(...)` block is one action.  A generator is suspended *)
(* at its yields, and that is where a client that walks away ends it.       *)
(* Money is counted in units, time in ticks, and all ticks are of one month.*)
(***************************************************************************)
EXTENDS Naturals, FiniteSets, Functions

CONSTANTS
    Stream,         \* what can be streamed at the same time
    User, Org,
    OrgOf,          \* the org of each user
    OrgBudget,      \* settings.daily_budget_usd
    PlatformBudget, \* settings.platform_daily_budget_usd
    QuestionCap,    \* settings.monthly_question_cap
    MaxCost,        \* the most that one answer costs
    TicksPerDay,
    MaxTick,        \* bound: the last tick
    MaxQuestions    \* bound: questions asked by one user

ASSUME OrgOfAssumption == OrgOf \in [User -> Org]
ASSUME LimitsAssumption == {OrgBudget, PlatformBudget, QuestionCap} \subseteq Nat \ {0}
ASSUME BoundsAssumption == {MaxCost, MaxTick, MaxQuestions} \subseteq Nat
ASSUME FiniteAssumption == IsFiniteSet(User) /\ IsFiniteSet(Stream)
ASSUME TicksPerDayAssumption == TicksPerDay \in Nat \ {0}

VARIABLES
    now,
    present,        \* the users that have not been removed
    cost,           \* sum of cost_usd of the answers of a user, by created_at
    asked,          \* how many answers rows a user has
    platform,       \* platform_spend, by day
    stream,         \* where each stream stands
    erased          \* history: the cost of answers whose row is gone

vars == <<now, present, cost, asked, platform, stream, erased>>

Tick == 0..MaxTick
DayOf(t) == t \div TicksPerDay

\* The last frame a stream has sent.
Frame == {"none", "meta", "sources", "token", "done", "error"}

\* Up to a limit check, in a block of the limit path, ahead of a record, ...
Running ==
    {"spend", "questions", "platform", "blocking", "marking", "search", "asked", "booked"}
\* ... suspended at a yield ...
Suspended == {"limit", "refusing", "meta", "streaming", "done", "told"}
\* ... or over, through its finally block.
Over == {"closed"}

Idle == [at |-> "idle", frame |-> "none"]

\* `created` is the answer row's created_at, `streamed` and `billed` are the
\* function's variables, `bills` counts the calls of finalize_answer, and `paid`
\* is the cost_usd that the last of them gave the row.
Asking ==
    [at : Running \cup Suspended \cup Over, frame : Frame, user : User,
     created : Tick, streamed : BOOLEAN, billed : BOOLEAN,
     bills : Nat, paid : Nat]

Users(o) == {u \in present : OrgOf[u] = o}
Sum(f, S) == SumFunctionOnSet(f, S)

-----------------------------------------------------------------------------
(* What the limits look at.                                                 *)

\* spend_last_24h: by the time of the question, not of the payment.
Recent == {t \in Tick : t <= now /\ t + TicksPerDay > now}

UserSpend(u) == Sum(cost[u], Recent)

SpendLast24h(o) == Sum([u \in Users(o) |-> UserSpend(u)], Users(o))

\* questions_this_month: refused and blocked ones too.
QuestionsThisMonth(o) == Sum(asked, Users(o))

\* Mutant: today's spend is summed from the answers that are still there.
SpendOfAnswersToday ==
    Sum([u \in present |-> Sum(cost[u], {t \in Tick : DayOf(t) = DayOf(now)})], present)

PlatformSpendToday == platform[DayOf(now)]

-----------------------------------------------------------------------------
Init ==
    /\ now = 0
    /\ present = User
    /\ cost = [u \in User |-> [t \in Tick |-> 0]]
    /\ asked = [u \in User |-> 0]
    /\ platform = [d \in 0..DayOf(MaxTick) |-> 0]
    /\ stream = [s \in Stream |-> Idle]
    /\ erased = 0

\* The stream's next place and frame.
Goes(s, at, frame) ==
    stream' = [stream EXCEPT ![s].at = at, ![s].frame = frame]

\* main.ask, past the rate limit: the generator starts.
Arrive(s, u) ==
    /\ stream[s].at = "idle"
    /\ u \in present
    /\ asked[u] < MaxQuestions
    /\ stream' = [stream EXCEPT ![s] =
         [at |-> "spend", frame |-> "none", user |-> u, created |-> 0,
          streamed |-> FALSE, billed |-> FALSE, bills |-> 0, paid |-> 0]]
    /\ UNCHANGED <<now, present, cost, asked, platform, erased>>

\* Mutant: the budget may be exceeded before anything is refused.
CheckSpendLate(s) ==
    /\ stream[s].at = "spend"
    /\ stream' = [stream EXCEPT ![s].at =
         IF SpendLast24h(OrgOf[stream[s].user]) > OrgBudget
           THEN "blocking" ELSE "questions"]
    /\ UNCHANGED <<now, present, cost, asked, platform, erased>>

\* _limit_block reads the three totals in three transactions.
CheckSpend(s) ==
    /\ stream[s].at = "spend"
    /\ stream' = [stream EXCEPT ![s].at =
         IF SpendLast24h(OrgOf[stream[s].user]) >= OrgBudget
           THEN "blocking" ELSE "questions"]
    /\ UNCHANGED <<now, present, cost, asked, platform, erased>>

CheckQuestions(s) ==
    /\ stream[s].at = "questions"
    /\ stream' = [stream EXCEPT ![s].at =
         IF QuestionsThisMonth(OrgOf[stream[s].user]) >= QuestionCap
           THEN "blocking" ELSE "platform"]
    /\ UNCHANGED <<now, present, cost, asked, platform, erased>>

CheckPlatform(s) ==
    /\ stream[s].at = "platform"
    /\ stream' = [stream EXCEPT ![s].at =
         IF PlatformSpendToday >= PlatformBudget THEN "blocking" ELSE "search"]
    /\ UNCHANGED <<now, present, cost, asked, platform, erased>>

\* record_answer; the foreign key refuses the row of a user who is gone.
RecordAnswer(s) ==
    /\ stream[s].user \in present
    /\ asked' = [asked EXCEPT ![stream[s].user] = @ + 1]

\* A blocked question is recorded, ...
RecordBlocked(s) ==
    /\ stream[s].at = "blocking"
    /\ RecordAnswer(s)
    /\ stream' = [stream EXCEPT ![s].at = "marking", ![s].created = now]
    /\ UNCHANGED <<now, present, cost, platform, erased>>

\* ... then marked, and the caller is told.
MarkBlocked(s) ==
    /\ stream[s].at = "marking"
    /\ Goes(s, "limit", "meta")
    /\ UNCHANGED <<now, present, cost, asked, platform, erased>>

TellLimit(s) ==
    /\ stream[s].at = "limit"
    /\ Goes(s, "told", "error")
    /\ UNCHANGED <<now, present, cost, asked, platform, erased>>

\* The search is done and the question recorded; the audit entries follow ...
RecordAsked(s) ==
    /\ stream[s].at = "search"
    /\ RecordAnswer(s)
    /\ stream' = [stream EXCEPT ![s].at = "asked", ![s].created = now]
    /\ UNCHANGED <<now, present, cost, platform, erased>>

\* ... and the meta frame.  The search found what the caller may read, or nothing.
SendMeta(s) ==
    /\ stream[s].at = "asked"
    /\ \E at \in {"meta", "refusing"} : Goes(s, at, "meta")
    /\ UNCHANGED <<now, present, cost, asked, platform, erased>>

\* Nothing to cite: the refusal's words and the done frame, from no model.
Refuse(s) ==
    /\ stream[s].at = "refusing"
    /\ \/ Goes(s, "refusing", "token")
       \/ stream[s].frame = "token" /\ Goes(s, "told", "done")
    /\ UNCHANGED <<now, present, cost, asked, platform, erased>>

SendSources(s) ==
    /\ stream[s].at = "meta"
    /\ Goes(s, "streaming", "sources")
    /\ UNCHANGED <<now, present, cost, asked, platform, erased>>

\* A token of the model.
SendToken(s) ==
    /\ stream[s].at = "streaming"
    /\ stream' = [stream EXCEPT ![s].frame = "token", ![s].streamed = TRUE]
    /\ UNCHANGED <<now, present, cost, asked, platform, erased>>

\* finalize_answer, in one transaction: the row's cost is set, by its id, to c,
\* if the row is still there, and c is added to the day's total.  The row keeps the
\* question's time; the total is today's.
FinalizeAnswer(s, c) ==
    LET u == stream[s].user
        t == stream[s].created
        Set(total) == total - stream[s].paid + c
    IN  /\ IF u \in present
             THEN cost' = [cost EXCEPT ![u][t] = Set(@)] /\ erased' = erased
             ELSE cost' = cost /\ erased' = Set(erased)
        /\ platform' = [platform EXCEPT ![DayOf(now)] = @ + c]

\* A booking of c, and what the stream remembers of it.
BookAnswer(s, c, at, billed) ==
    /\ FinalizeAnswer(s, c)
    /\ stream' = [stream EXCEPT ![s].at = at, ![s].billed = billed,
                                ![s].bills = @ + 1, ![s].paid = c]

\* Mutant: the usage is booked and the finally block is not told.
ReportUnbilled(s, c) ==
    /\ stream[s].at = "streaming"
    /\ BookAnswer(s, c, "booked", FALSE)
    /\ UNCHANGED <<now, present, asked>>

\* The model reports its usage: book it, ...
ReportUsage(s, c) ==
    /\ stream[s].at = "streaming"
    /\ BookAnswer(s, c, "booked", TRUE)
    /\ UNCHANGED <<now, present, asked>>

\* Mutant: the done frame is sent and the model goes on.
SendDoneEarly(s) ==
    /\ stream[s].at = "booked"
    /\ Goes(s, "streaming", "done")
    /\ UNCHANGED <<now, present, cost, asked, platform, erased>>

\* ... look at the answer, and send the done frame.
SendDone(s) ==
    /\ stream[s].at = "booked"
    /\ Goes(s, "done", "done")
    /\ UNCHANGED <<now, present, cost, asked, platform, erased>>

\* Something raises: a query, the search, the provider, or, when the done frame
\* is out, the provider that was declined (AnswerRefused).
RaiseError(s) ==
    /\ stream[s].at \in Running \cup {"meta", "streaming", "done"}
    /\ Goes(s, "told", "error")
    /\ UNCHANGED <<now, present, cost, asked, platform, erased>>

\* Mutant: the finally block books whatever was streamed.
CloseAndBook(s) ==
    /\ stream[s].at \in Suspended
    /\ IF stream[s].streamed
         THEN \E c \in 0..MaxCost : BookAnswer(s, c, "closed", stream[s].billed)
         ELSE /\ stream' = [stream EXCEPT ![s].at = "closed"]
              /\ UNCHANGED <<cost, platform, erased>>
    /\ UNCHANGED <<now, present, asked>>

\* The generator ends, by itself or because its caller closes it at a yield; its
\* finally block books an estimate of what was streamed and not yet booked.
Close(s) ==
    /\ stream[s].at \in Suspended
    /\ IF stream[s].streamed /\ ~stream[s].billed
         THEN \E c \in 0..MaxCost : BookAnswer(s, c, "closed", stream[s].billed)
         ELSE /\ stream' = [stream EXCEPT ![s].at = "closed"]
              /\ UNCHANGED <<cost, platform, erased>>
    /\ UNCHANGED <<now, present, asked>>

\* The process dies, or the database refuses what the finally block books.
Lose(s) ==
    /\ stream[s].at \in Running \cup Suspended
    /\ stream' = [stream EXCEPT ![s] = Idle]
    /\ UNCHANGED <<now, present, cost, asked, platform, erased>>

\* The generator that ended is gone.
Forget(s) ==
    /\ stream[s].at \in Over
    /\ stream' = [stream EXCEPT ![s] = Idle]
    /\ UNCHANGED <<now, present, cost, asked, platform, erased>>

\* remove_member deletes the user, and answers.user_id cascades.
RemoveUser(u) ==
    /\ u \in present
    /\ present' = present \ {u}
    /\ cost' = [cost EXCEPT ![u] = [t \in Tick |-> 0]]
    /\ asked' = [asked EXCEPT ![u] = 0]
    /\ erased' = erased + Sum(cost[u], Tick)
    /\ UNCHANGED <<now, platform, stream>>

TimePasses ==
    /\ now < MaxTick
    /\ now' = now + 1
    /\ UNCHANGED <<present, cost, asked, platform, stream, erased>>

-----------------------------------------------------------------------------
StreamStep(s) ==
    \/ CheckSpend(s) \/ CheckQuestions(s) \/ CheckPlatform(s)
    \/ RecordBlocked(s) \/ MarkBlocked(s) \/ TellLimit(s)
    \/ RecordAsked(s) \/ SendMeta(s) \/ Refuse(s) \/ SendSources(s) \/ SendToken(s)
    \/ (\E c \in 0..MaxCost : ReportUsage(s, c)) \/ SendDone(s)
    \/ RaiseError(s) \/ Close(s) \/ Lose(s) \/ Forget(s)

Next ==
    \/ \E s \in Stream : StreamStep(s) \/ \E u \in User : Arrive(s, u)
    \/ \E u \in User : RemoveUser(u)
    \/ TimePasses

Spec == Init /\ [][Next]_vars

-----------------------------------------------------------------------------
(* Properties.                                                              *)

\* The ledgers and the streams are well formed.
TypeOK ==
    /\ now \in Tick
    /\ present \subseteq User
    /\ cost \in [User -> [Tick -> Nat]]
    /\ asked \in [User -> Nat]
    /\ platform \in [0..DayOf(MaxTick) -> Nat]
    /\ stream \in [Stream -> Asking \cup {Idle}]
    /\ erased \in Nat

Overshoot(limit) == limit - 1 + Cardinality(Stream) * MaxCost

\* _limit_block: "checked before any model call so spend and volume are
\* hard-capped".  What an org has spent in 24 hours exceeds its budget by less
\* than what its concurrent streams can cost, however their checks, payments
\* and the hours interleave.
OrgSpendIsCapped == \A o \in Org : SpendLast24h(o) <= Overshoot(OrgBudget)

\* "The number that actually caps what the deployment can spend in a day": the
\* same of a calendar day of the whole platform, whoever was removed since.
PlatformSpendIsCapped ==
    \A d \in DOMAIN platform : platform[d] <= Overshoot(PlatformBudget)

\* finalize_answer: "the two can never disagree about whether an answer was paid
\* for".  It sets the one and adds to the other, so they agree only as long as no
\* answer is booked a second time: not after an error, not when a client leaves
\* at the done frame.  What the org's rows and the platform's days differ by is
\* what the answers of removed members cost, booked before or after the removal.
LedgersAgree ==
    Sum([u \in User |-> Sum(cost[u], Tick)], User) + erased
        = Sum(platform, DOMAIN platform)

\* answer_stream's finally block: a stream that ended through it was booked once
\* if the model said anything or reported its usage, and else not at all.  A
\* process that dies, or a booking the database refuses, books nothing more.
BilledOnce ==
    \A s \in Stream :
        stream[s].at = "closed" =>
            stream[s].bills = IF stream[s].streamed \/ stream[s].billed THEN 1 ELSE 0

\* What may follow a frame.
Follows(frame) ==
    CASE frame = "none"    -> {"meta", "error"}
      [] frame = "meta"    -> {"sources", "token", "error"}
      [] frame = "sources" -> {"token", "done", "error"}
      [] frame = "token"   -> {"done", "error"}
      [] frame = "done"    -> {"error"}
      [] frame = "error"   -> {}

FrameFollows(s) ==
    stream'[s].frame # stream[s].frame /\ stream'[s].at # "idle" =>
        stream'[s].frame \in Follows(stream[s].frame)

\* WALKTHROUGH.md: meta, sources, tokens, done "arrive in a fixed order", and an
\* error may come at any point; nothing follows it.
FramesInOrder == [][\A s \in Stream : FrameFollows(s)]_vars

-----------------------------------------------------------------------------
(* What the documentation says and the code does not keep.                  *)

\* WALKTHROUGH.md: "an `error` frame can replace `done`", not follow it.
OneLastFrame ==
    [][\A s \in Stream :
         stream[s].frame = "done" => stream'[s].frame \in {"done", "none"}]_vars
=============================================================================
