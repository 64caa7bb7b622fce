------------------------------ MODULE JobQueue ------------------------------
(***************************************************************************)
(* The Postgres job queue of jobs.py and the loop that drains it            *)
(* (worker.drain, ingest.run_pending).  Every function of jobs.py is a      *)
(* transaction of its own.  Those of one statement are one action;          *)
(* mark_failed reads the row and updates it later, without a lock in        *)
(* between, and is two.  What a drain does between them (its handler) can   *)
(* take any time, raise, or end with its process.  A drain runs because     *)
(* somebody kicked, stops when no job waits, and when it dies nothing but   *)
(* another kick brings one back (module Worker shows how).                  *)
(*                                                                          *)
(* A row of the jobs table is named by its idempotency key, which the       *)
(* schema declares unique.  Time is abstracted to one flag per row: `due`   *)
(* is "run_after <= now()" of a queued row and "updated_at is older than    *)
(* job_stale_after_seconds" of a running one.                               *)
(***************************************************************************)
EXTENDS Naturals, Sequences

CONSTANTS
    Key,            \* idempotency keys
    NoJob,          \* what a drain holds between two claims
    Drain,          \* the threads and processes that run run_pending
    MaxAttempts,    \* settings.job_max_attempts
    AttemptCap,     \* bound: attempts from which a claim is no longer lost
    SlowHandlers    \* may a handler outlive job_stale_after_seconds?

ASSUME NoJobAssumption == NoJob \notin Key
ASSUME MaxAttemptsAssumption == MaxAttempts \in Nat \ {0}
ASSUME AttemptCapAssumption == AttemptCap \in Nat
ASSUME SlowHandlersAssumption == SlowHandlers \in BOOLEAN

VARIABLES
    jobs,       \* the jobs table: a row for every key ever enqueued
    order,      \* the keys by created_at
    orgLive,    \* does the org the jobs belong to still exist?
    pc,         \* where each drain stands: off, or in run_pending's loop
    claim,      \* the job each drain has in hand
    unkicked    \* kept for the properties: nobody has kicked since the last
                \* enqueue, or since a drain last died

queueVars == <<jobs, order, orgLive, pc, claim, unkicked>>

Status == {"none", "queued", "running", "succeeded", "dead"}
NoRow  == [status |-> "none", attempts |-> 0, due |-> FALSE]

JobRow == [status : Status, attempts : Nat, due : BOOLEAN]

-----------------------------------------------------------------------------
(* What the code can ask of the table.                                      *)

Terminal(k) == jobs[k].status \in {"succeeded", "dead"}
Waiting(k)  == jobs[k].status \in {"queued", "running"}

\* claim_one's WHERE: queued and its time has come, or running and stale.
Due(k) == Waiting(k) /\ jobs[k].due

\* The drain's thread is alive.
Up(d) == pc[d] # "off"

\* Mutant: seconds_until_due without its second branch, the running rows.
NothingQueued == \A k \in Key : jobs[k].status # "queued"

\* No job will become due without a new enqueue (jobs.seconds_until_due).
NothingWaits == \A k \in Key : ~Waiting(k)

\* run_pending is between its claim and the end of its mark.
Working(d) == pc[d] \in {"running", "handled", "failing", "requeueing", "burying"}

\* SKIP LOCKED: a claim passes over a row another drain is just updating.
LockedByOther(k, d) ==
    \E e \in Drain \ {d} :
        claim[e] = k /\ pc[e] \in {"handled", "requeueing", "burying"}

\* An update by id, which finds nothing of an org that is gone.
Marked(k, s) ==
    IF jobs[k].status = "none" THEN jobs
    ELSE [jobs EXCEPT ![k].status = s, ![k].due = FALSE]

-----------------------------------------------------------------------------
Init ==
    /\ jobs = [k \in Key |-> NoRow]
    /\ order = <<>>
    /\ orgLive = TRUE
    /\ pc = [d \in Drain |-> "off"]
    /\ claim = [d \in Drain |-> NoJob]
    /\ unkicked = FALSE

\* Mutant: the conflict gives a dead letter another life.
EnqueueRevives(k) ==
    /\ orgLive
    /\ jobs' = IF jobs[k].status \in {"none", "dead"}
                 THEN [jobs EXCEPT ![k] = [status |-> "queued", attempts |-> 0, due |-> TRUE]]
                 ELSE jobs
    /\ order' = IF jobs[k].status = "none" THEN Append(order, k) ELSE order
    /\ unkicked' = TRUE
    /\ UNCHANGED <<orgLive, pc, claim>>

\* jobs.enqueue: a second insert of a key does nothing, and an insert for an
\* org that is gone violates the foreign key.
Enqueue(k) ==
    /\ orgLive
    /\ IF jobs[k].status = "none"
         THEN /\ jobs' = [jobs EXCEPT ![k] =
                    [status |-> "queued", attempts |-> 0, due |-> TRUE]]
              /\ order' = Append(order, k)
              /\ unkicked' = TRUE
         ELSE UNCHANGED <<jobs, order, unkicked>>
    /\ UNCHANGED <<orgLive, pc, claim>>

\* worker.kick, after an enqueue, at a start of the service, or the worker
\* started by hand: a drain that is off starts, one that runs looks again.
Kick(d) ==
    /\ pc' = [pc EXCEPT ![d] = IF Up(d) THEN @ ELSE "idle"]
    /\ unkicked' = FALSE
    /\ UNCHANGED <<jobs, order, orgLive, claim>>

\* worker.drain, between two rounds: it returns when no job can become due.
Stop(d) ==
    /\ pc[d] = "idle"
    /\ NothingWaits
    /\ pc' = [pc EXCEPT ![d] = "off"]
    /\ UNCHANGED <<jobs, order, orgLive, claim, unkicked>>

\* jobs.claim_one: the oldest due row that is not locked.
Claim(d) ==
    /\ pc[d] = "idle"
    /\ \E i \in DOMAIN order :
         LET k == order[i] IN
         /\ Due(k)
         /\ \A j \in 1..(i - 1) : Due(order[j]) => LockedByOther(order[j], d)
         /\ jobs' = [jobs EXCEPT ![k] = [status   |-> "running",
                                         attempts |-> @.attempts + 1,
                                         due      |-> FALSE]]
         /\ claim' = [claim EXCEPT ![d] = k]
    /\ pc' = [pc EXCEPT ![d] = "running"]
    /\ UNCHANGED <<order, orgLive, unkicked>>

\* The handler returned.
HandlerReturns(d) ==
    /\ pc[d] = "running"
    /\ pc' = [pc EXCEPT ![d] = "handled"]
    /\ UNCHANGED <<jobs, order, orgLive, claim, unkicked>>

\* The handler, or the mark_succeeded inside the same try block, raised.
Raise(d) ==
    /\ pc[d] \in {"running", "handled"}
    /\ pc' = [pc EXCEPT ![d] = "failing"]
    /\ UNCHANGED <<jobs, order, orgLive, claim, unkicked>>

\* The drain is done with its job and goes round run_pending's loop.
PutDown(d) ==
    /\ pc' = [pc EXCEPT ![d] = "idle"]
    /\ claim' = [claim EXCEPT ![d] = NoJob]

\* jobs.mark_succeeded.
MarkSucceeded(d) ==
    /\ pc[d] = "handled"
    /\ jobs' = Marked(claim[d], "succeeded")
    /\ PutDown(d)
    /\ UNCHANGED <<order, orgLive, unkicked>>

\* Mutant: one attempt too many.
ReadAttemptsOffByOne(d) ==
    LET row == jobs[claim[d]] IN
    /\ pc[d] = "failing"
    /\ pc' = [pc EXCEPT ![d] = CASE row.status = "none" -> "buried"
                                 [] row.status # "none" /\ row.attempts <= MaxAttempts -> "requeueing"
                                 [] OTHER -> "burying"]
    /\ UNCHANGED <<jobs, order, orgLive, claim, unkicked>>

\* jobs.mark_failed compares the row's attempts with the budget.  A row that is
\* gone counts as dead.
ReadAttempts(d) ==
    LET row == jobs[claim[d]] IN
    /\ pc[d] = "failing"
    /\ pc' = [pc EXCEPT ![d] = CASE row.status = "none" -> "buried"
                                 [] row.status # "none" /\ row.attempts < MaxAttempts -> "requeueing"
                                 [] OTHER -> "burying"]
    /\ UNCHANGED <<jobs, order, orgLive, claim, unkicked>>

\* Back to the queue, with a delay.
Requeue(d) ==
    /\ pc[d] = "requeueing"
    /\ jobs' = Marked(claim[d], "queued")
    /\ PutDown(d)
    /\ UNCHANGED <<order, orgLive, unkicked>>

\* To the dead letters; run_pending still has to tell the document.
Bury(d) ==
    /\ pc[d] = "burying"
    /\ jobs' = Marked(claim[d], "dead")
    /\ pc' = [pc EXCEPT ![d] = "buried"]
    /\ UNCHANGED <<order, orgLive, claim, unkicked>>

\* run_pending has told the job's document.
BuriedAway(d) ==
    /\ pc[d] = "buried"
    /\ PutDown(d)
    /\ UNCHANGED <<jobs, order, orgLive, unkicked>>

\* The drain's thread is gone, with what it knew.
Die(d) ==
    /\ pc' = [pc EXCEPT ![d] = "off"]
    /\ claim' = [claim EXCEPT ![d] = NoJob]
    /\ unkicked' = TRUE

\* Mutant: the drain that comes up in its place takes every running row for an
\* orphan and queues it.
CrashRequeuesAll(d) ==
    /\ Up(d)
    /\ pc[d] # "idle" => jobs[claim[d]].attempts < AttemptCap
    /\ jobs' = [k \in Key |-> IF jobs[k].status = "running"
                                THEN [jobs[k] EXCEPT !.status = "queued", !.due = TRUE]
                                ELSE jobs[k]]
    /\ Die(d)
    /\ UNCHANGED <<order, orgLive>>

\* The process of a drain dies, or one of its database calls outside the try
\* block raises (claim_one, mark_failed, seconds_until_due): nothing is written,
\* and "jobs left queued here wait for the next kick" (worker._run).
Crash(d) ==
    /\ Up(d)
    /\ pc[d] # "idle" => jobs[claim[d]].attempts < AttemptCap
    /\ Die(d)
    /\ UNCHANGED <<jobs, order, orgLive>>

\* run_after passes.
BackoffElapses(k) ==
    /\ jobs[k].status = "queued"
    /\ ~jobs[k].due
    /\ jobs' = [jobs EXCEPT ![k].due = TRUE]
    /\ UNCHANGED <<order, orgLive, pc, claim, unkicked>>

\* Mutant: a stale limit that a job at work can exceed.
GoesStaleEarly(k) ==
    /\ jobs[k].status = "running"
    /\ ~jobs[k].due
    /\ jobs[k].attempts < AttemptCap
    /\ jobs' = [jobs EXCEPT ![k].due = TRUE]
    /\ UNCHANGED <<order, orgLive, pc, claim, unkicked>>

\* job_stale_after_seconds pass since the claim.  Unless handlers are slow, the
\* claimer of such a row is dead ("ten minutes cannot catch a job that is
\* merely slow", config.py).
GoesStale(k) ==
    /\ jobs[k].status = "running"
    /\ ~jobs[k].due
    /\ \/ ~\E d \in Drain : Working(d) /\ claim[d] = k
       \/ SlowHandlers /\ jobs[k].attempts < AttemptCap
    /\ jobs' = [jobs EXCEPT ![k].due = TRUE]
    /\ UNCHANGED <<order, orgLive, pc, claim, unkicked>>

\* accounts.delete_org: jobs.org_id cascades.
DeleteOrg ==
    /\ orgLive
    /\ orgLive' = FALSE
    /\ jobs' = [k \in Key |-> NoRow]
    /\ order' = <<>>
    /\ UNCHANGED <<pc, claim, unkicked>>

-----------------------------------------------------------------------------
\* What one drain does while its thread is alive.
DrainStep(d) ==
    \/ Stop(d) \/ Claim(d) \/ HandlerReturns(d) \/ Raise(d) \/ MarkSucceeded(d)
    \/ ReadAttempts(d) \/ Requeue(d) \/ Bury(d) \/ BuriedAway(d)

Next ==
    \/ \E k \in Key : Enqueue(k) \/ BackoffElapses(k) \/ GoesStale(k)
    \/ \E d \in Drain : Kick(d) \/ DrainStep(d) \/ Crash(d)
    \/ DeleteOrg

\* Time passes, and a thread that is alive goes on.  Nothing makes anybody kick.
\* Drains that are kicked and die before their first claim do not go on so for
\* ever (AttemptCap says the same of those that die later).
Fairness ==
    /\ \A d \in Drain : WF_queueVars(DrainStep(d)) /\ SF_queueVars(Claim(d))
    /\ \A k \in Key : WF_queueVars(BackoffElapses(k)) /\ WF_queueVars(GoesStale(k))

Spec == Init /\ [][Next]_queueVars
FairSpec == Spec /\ Fairness

-----------------------------------------------------------------------------
(* Properties.                                                              *)

\* The state of the module is well formed, and a drain holds a job exactly
\* while it is inside the body of run_pending's loop.
TypeOK ==
    /\ jobs \in [Key -> JobRow]
    /\ order \in Seq(Key)
    /\ orgLive \in BOOLEAN
    /\ pc \in [Drain -> {"off", "idle", "running", "handled", "failing", "requeueing",
                      "burying", "buried"}]
    /\ claim \in [Drain -> Key \cup {NoJob}]
    /\ unkicked \in BOOLEAN
    /\ \A d \in Drain : pc[d] \in {"off", "idle"} <=> claim[d] = NoJob

\* "Concurrent workers skip each other's locked rows" (claim_one), and no
\* handler outlives the stale limit: no job is ever in two drains' hands, in
\* spite of crashes, reclaims and retries.
ExclusiveClaim ==
    ~SlowHandlers =>
        \A d, e \in Drain :
            Working(d) /\ Working(e) /\ claim[d] = claim[e] => d = e

\* mark_failed spends the budget exactly: no job is dead-lettered before its
\* last attempt, and one that goes back to the queue has an attempt left.  The
\* second part needs the exclusive claim: a slow handler's late mark_failed may
\* requeue what another drain has claimed since it read the attempts.
RetryBudget ==
    \A k \in Key :
        /\ jobs[k].status = "dead" => jobs[k].attempts >= MaxAttempts
        /\ jobs[k].status = "queued" /\ ~SlowHandlers => jobs[k].attempts < MaxAttempts

\* The foreign key of jobs.org_id cascades and is checked on insert: once the
\* org is deleted, no late enqueue, mark or requeue leaves a row behind.
DeletedOrgHasNoJobs == ~orgLive => \A k \in Key : jobs[k].status = "none"

\* mark_succeeded and mark_failed are unguarded updates by id; with handlers
\* that end before the stale limit, no mark of a drain that lost its claim can
\* reopen or rewrite a job that is over.
TerminalIsFinal ==
    [][ ~SlowHandlers => \A k \in Key :
            Terminal(k) /\ orgLive' => jobs'[k] = jobs[k] ]_queueVars

\* Nobody drains the queue, and a kick is due: "jobs left queued here wait for
\* the next kick: an upload or a restart" (worker._run).
LeftToAKick == unkicked /\ \A d \in Drain : ~Up(d)

\* "After three attempts dead-letters" and "the next drain picks it up again":
\* a kick is enough for every job that waits then, the ones a dead drain left
\* running among them, to end, unless every drain dies again (or the org goes).
EveryJobEnds == \A k \in Key : Waiting(k) ~> (Terminal(k) \/ ~orgLive \/ LeftToAKick)

\* WALKTHROUGH.md, "after three attempts dead-letters to status failed ... A
\* poison file cannot wedge the queue": no job is started more often than that.
AttemptsWithinBudget == \A k \in Key : jobs[k].attempts <= MaxAttempts

-----------------------------------------------------------------------------
(* What the queue promises, and how its state shows it.                     *)

HeldBy(k) == {d \in Drain : Working(d) /\ claim[d] = k /\ jobs[k].status = "running"}

Promise == INSTANCE AtLeastOnce
             WITH Job     <- Key,
                  Worker  <- Drain,
                  open    <- orgLive,
                  stage   <- [k \in Key |-> jobs[k].status],
                  holders <- [k \in Key |-> HeldBy(k)]

\* The queue of jobs.py delivers as AtLeastOnce says: through crashes, reclaims
\* and retries a job has one holder at a time and is settled only by it.
KeepsPromise == Promise!Spec
=============================================================================
