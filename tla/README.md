# Knowledge Desk in TLA+

A specification of [Knowledge Desk](../src/README.md): a multi-tenant
question-answering service over Postgres, with a document pipeline, a job queue
in the database, a streaming assistant under spending limits, members, groups
and sessions, a rate limiter, and processes that migrate, serve and die. The
modules follow the code under `src/knowledge_desk/` statement by statement where
two requests, threads or processes can meet, and leave the data (texts, vectors,
prices, hashes) as small sets. Only where a property is about text (`Chunking`,
`Prompt`, `Reply`) is a text a sequence, of the few letters the code tells
apart.

Contents: [inventory](#inventory) · [modules](#modules-and-the-code) ·
[runs](#runs) · [disagreements](#where-the-code-and-its-documents-disagree) ·
[fairness](#fairness) · [proofs](#proofs) · [not modelled](#what-is-not-modelled) ·
[plan](#plan)

## Inventory

| Component | State | Operations | Meets | Correct when |
|---|---|---|---|---|
| **Job queue** `jobs.py`, `ingest.run_pending` | table `jobs` (status, attempts, run_after, updated_at, unique idempotency key) | `enqueue`, `claim_one` (`FOR UPDATE SKIP LOCKED`, queued-and-due or stale-running), `mark_succeeded`, `mark_failed` | drain threads of several processes; tenant deletion by cascade | a job has one holder at a time, is settled once, by its holder, within its budget; everything enqueued ends |
| **Ingestion** `ingest.py`, `tenancy.sync_source` | `documents` (status, hash, revision, ACL), `chunks` (a copy of the ACL) | upload (diff, cap, tombstones, then enqueue *after* the commit), handler (read, embed, replace chunks), failure mark, document delete, ACL edit | the queue; uploads, admins and drains at once | settled documents are indexed with their current text and ACL; nothing waits for ever; caps hold; the dead stay dead |
| **Drain thread** `worker.py` | `_thread`, `_wake`, `_lock` | `kick`, `drain`, `_run` | request threads, the event loop's start, other machines | one drain per process, no kick lost, an idle deployment stops querying |
| **Assistant** `assistant.py` | `answers` rows, `platform_spend` by day | `answer_stream`: three limits, retrieval, record, stream, finalize | clients that disconnect, providers that fail, other streams | caps overshoot only by what runs at once, each answer is billed once, both ledgers agree, frames are ordered |
| **Members and groups** `accounts.py`, `tenancy.py` | `orgs`, `users`, `memberships`, `groups`, `group_members` | signup, add, change role, remove, group edits, delete org | concurrent admins with roles read at arrival | at least one owner, ranks are granted by who holds them, groups hold members, nothing is left behind |
| **Sessions** `accounts.py`, `deps.py` | `sessions`, `users.password_hash` | login, logout, resolve, change password, purge | concurrent logins, changes and removals | a revoked or expired session opens nothing; a removed account has none |
| **Retrieval** `retrieval.py`, `tenancy.search` | none; reads `group_members`, `chunks.acl` | principals, search, get document, counts | ACL edits, group edits, ingestion, removals | a request shows only what its asker may read |
| **Rate limiter** `ratelimit.py` | a dict of buckets per process | `check`, eviction | handler threads, no lock | no more than burst + rate·t calls pass; the 429's delay is enough |
| **Text pipeline** `chunking.py`, `normalize.py`, `providers._defuse`, `outputchecks.py`, `pii.py` | none | cut, fold and map back, defuse, check an answer | each other: the same letters are stored, shown, quoted and compared | a phrase is whole in some chunk; nothing of the prompt's grammar is left; findings are right |
| **Tracing** `tracing.py` | what the tracer still has to end | start, sources, token, done, finish | a service that fails | a finished trace leaves nothing open, and no failure reaches the answer |
| **Pool and row-level security** `db.py`, `0007`, `0008` | `_pool`, the tenant setting of a connection | `get_pool`, `connect`, policies | reuse of connections, threads that find no pool | a connection sees its tenant's rows, without a tenant none |
| **Migrations** `migrate.py`, `entrypoint.sh` | `schema_migrations` | ensure the role, apply what is pending, then serve | machines that start at once, deaths | each file takes effect once, in order; only a current database is served |
| **Request edge** `bodylimit.py`, `securityheaders.py` | bytes counted | cut a body off | chunked bodies | nothing longer is buffered |
| **Audit, feedback, export, frontend, seed, evals** | append-only or read-only | – | – | nothing reads them back into a decision |

How they interact: a route in `main.py` resolves the session (`deps.py`), builds
a `TenantScope` and calls one component; an upload commits documents, enqueues
jobs, then *kicks* the drain thread; the drain calls `run_pending`, which claims
a job, runs the handler over the documents, and marks the job; a question reads
chunks, calls the provider and books in two ledgers. Components share only the
database, and the drain thread's three module variables.

What is hard here: every function opens several transactions, each committed
on its own, under READ COMMITTED; state is read in one and used in the next
(the handler's document, the owner count, the spending check, the session's
role); a generator can end at any `yield`; a process can stop at any point
(`fly.toml` stops machines), and its claimed jobs go stale. `PROJECT.json`
lists these hazards one by one with their lines.

## Modules and the code

| Module | Models | State ↔ code |
|---|---|---|
| `AtLeastOnce` | the abstract queue: who holds a job, where it stands | – |
| `JobQueue` | `jobs.py` and the loop of `ingest.run_pending` | `jobs`, `order` are the table by key and by `created_at`; `pc`, `claim` where each drain is in the loop body. `due` folds `run_after <= now()` and the stale limit into one flag per row. A drain is `"off"` until somebody kicks it and again once it has ended or died; `unkicked` is a history variable: nobody has kicked since the last enqueue or death |
| `Ingestion` | `sync_documents`, `process_ingest_document`, `mark_document_failed`, `delete_document`, `update_document_acl`, `delete_org`; **composes** `JobQueue` by `INSTANCE` | `docs`, `chunks` are the tables, `uploads` the enqueues an upload has still to make, `snap` the row a drain read before it embeds. Two histories: `reused`, the documents that were edited back to bytes that had a job, and `crossed`, those whose own job has read them and that another drain has had in hand as they were before |
| `Worker` | `worker.py` | `lock`, `wake`, `thread` are `_lock`, `_wake`, `_thread`; `drain`, `request` are program counters; `due`, `later` count jobs, `ran` those of a pass (`run_pending` stops at its limit). A thread that could not be started is `"unstarted"`. `owed` is a history variable: a kick nobody has looked at jobs since |
| `Answers` | `assistant.answer_stream`, `tenancy`'s limits and ledgers, the providers' contract | `stream[s].at` is the next block of the generator, `frame` its last frame, `streamed`/`billed` its variables; `cost` is what the answers of a user sum to by `created_at`, `platform` is `platform_spend`, and the history `erased` what the answers cost whose rows are gone |
| `Members` | `accounts.py`, the membership half of `tenancy.py`, `auth.role_at_least` | the five tables of one org, and where each request is between authorisation and its write |
| `Sessions` | `accounts.py`'s logins, sessions and passwords, `deps.current_ctx` | `session` is the table, `password` counts the changes, `call` is where each request is between its transactions. Histories: `kept`, the session that asked for the last change; `late`, those a login inserted between that change's delete and its commit; in a row of `session`, the password it was verified by and the one it was `born` under |
| `Access` | `principals`, `search`, `get_document`, `retrieval_stats`, with the edits that decide them; **extends** `Sessions` | `acl`, `copy`, `doc` are the document and its chunks, `mine` the account's groups, `reading` what a request has read; `held` is a history: which principals the account has held while it was served |
| `TokenBucket` | the abstract limiter: one bucket a key, never forgotten | – |
| `RateLimit` | `ratelimit.py`, `deps.client_key` and the answer's delay | `buckets` is the dict, `call` where each thread is in `check`; `promise` is when a refused key was told to come back. Tokens are exact sixtieths |
| `Migrations` | `migrate.py` by several processes, and the entrypoint with `RUN_MIGRATIONS` (`Start`) and without (`Serve`) | `schema` is what has taken effect, `rows` the table of versions, `boot[b].mine` what an open transaction has done, `released` whether a run of these files has ended well |
| `Pool` | `db.py` and the policies | `pools` counts what `get_pool` made, `conn[k].guc` is `app.current_org`, `caller[c].saw` the tenants whose rows a thread has seen |
| `Deployment` | **composes** `Migrations` and `Pool`: the process that serves has migrated or was started after a release, and the policies come with a file | – |
| `Chunking` | `chunk_text`, one action a round of its loop | a chunk is the set of the text's positions it holds |
| `Prompt` | `normalize.fold` and its offset map, `_defuse`, `check_answer` as operators | letters: plain, capital, lookalike, invisible, blank, line end, and the three shapes of the prompt's grammar |
| `Tracing` | `AskTracer` and the spans at the service | `held` is what the tracer will still end, `sent` what kind of text has left |
| `Reply` | a question's way through `Chunking`, `Prompt` and `Tracing`, which it **composes** | `stage` follows `answer_stream`; `answer` is the stream as citations, quotes, a few words of prose, and asides that are longer than the forty letters a quote may stand away from its citation (`_CITED_QUOTE`); no quote is longer than its limit of 300 |
| `MC*` | constants and symmetry for TLC (`Deployment` is its own) | – |
| `*_proofs` | theorems (see below) | – |

An action is one transaction, or one statement where a function does several
without a lock that covers them. Two statements share an action only where the
interleavings between them come to the same:

- `sync_documents` holds the org row `FOR UPDATE` from `check_caps` to its
  commit, which conflicts with the `FOR KEY SHARE` that every insert of a chunk
  or a job takes through its foreign key. So it is one step against the handler's
  write, against other uploads and against `enqueue`.
- the handler's second transaction and an ACL edit each touch a document and its
  chunks. They serialise on the rows they share, or deadlock; Postgres breaks a
  deadlock by an error, and an error in the handler is `HandlerRaises`.
- `mark_failed` selects and then updates without a lock: two actions
  (`ReadAttempts`, then `Requeue` or `Bury`). `set_member_role` and
  `remove_member` read the target, count the owners and write: three.
- `delete_org` waits for the org row, so it is one step but for the list of
  members it reads first.
- `change_password` reads the hash, then updates it and revokes, in one
  transaction: each statement sees what was committed when it began, and the
  update waits for another change of the same user. Three actions
  (`VerifyCurrent`, `ReplaceAndRevoke`, `CommitChange`), since a login may commit
  between any two.
- `apply_pending` runs its files in one transaction: `_applied`'s `select` has
  opened it, so each file's `conn.transaction()` is a savepoint and all of them
  commit at the end (see [the disagreements](#where-the-code-and-its-documents-disagree)).
- `check` of the limiter takes no lock: reading the clock, listing the idle,
  each deletion, reading the bucket and writing it are actions of their own.

Each definition that models code is tied to its lines by `map` in
`PROJECT.json`; each property has a mutant there, a plausible bug in one of
those definitions that makes TLC refute it (the definitions headed `Mutant:`).

Left out on purpose: a commit whose acknowledgement is lost (so an answer is
booked by one transaction that is known to have succeeded or failed), a `finally`
that a killed process never runs other than as a stream that is just gone (`Lose`), the same path twice
in one upload, blank texts (no chunks), the byte cap (same shape as the document
cap), the texts of audit entries (a failing one is an error path of `Answers`).
In `Answers` money and time come in units and all ticks lie in one month; in
`Members` a user belongs to this org or to none, which is what the API allows.

## Runs

`tlc -workers 2 -config X.cfg M` in this directory.

| Run | Instance | Question, and what the answer shows |
|---|---|---|
| `queue` | 2 jobs, 3 drains, budget 2, deaths up to attempt 3, nobody obliged to kick | Claims are exclusive, the budget is spent exactly, terminal is final; after a kick everything that waits ends unless every drain dies again; and the queue refines `AtLeastOnce`. 29,281 states |
| `ingestion` | 1 document, 1 text, 2 ACLs, 2 drains, 2 attempts, deletion and return by sync, by hand and with the org, uploads that die before they enqueue | No waiting document's job has already succeeded; what is gone holds nothing and stays gone; every pending document with a job to come is ingested, fails or goes, unless a drain died and nobody kicks (liveness). 57,640 states |
| `ingestion_drains` | 1 document, 2 texts, 2 ACLs, 2 drains, 2 attempts and one more after a death | Once the job of the present bytes is done the chunks are the present text under the present ACL, unless a drain still had an older state in hand; *failed* means dead-lettered. 210,227 states |
| `ingestion_caps` | 2 sources × 2 paths, 2 uploads at once, cap 2 | Concurrent uploads never store more than the cap; every step of the composition is a step of the queue. 765,948 states |
| `worker` | 2 requests, 2 threads, 2 jobs, 1 job a pass, exceptions, threads that cannot be started, process stops | No deadlock on `_lock`; one drain; no kick lost or waited out; idle drains end. 29,838 states |
| `answers` | 2 streams, 2 users of 2 orgs, 2 days, budgets 1 and 2 | Overshoot is bounded by what streams at once; the ledgers agree, on what removed users' answers cost too; each answer is billed once; frames in order. 4,519,922 states |
| `members` | 3 users, 1 group, 2 requests | Groups hold members, the removed are erased, ranks come from those who hold them. 160,231 states |
| `access` | 2 requests, 2 sessions, 2 password changes, 1 document, 1 group, ACLs of each kind | After a change of password no older session is live but the caller's and those a login inserted while the change was committing, whichever changes overlapped; a removed account has none; a request shows only what was open to a principal it has held since it was let in. 3,216,159 states |
| `limiter` | 2 threads, 2 keys (an address by header, and none), 6 seconds, burst 1 at 35/min, sweeps above 1 key | Who waits as long as told is served, whatever overlaps and is swept; and calls of a key that do not overlap see a bucket that never forgets (refinement of `TokenBucket`). 348,820 states |
| `boot` | 2 processes that migrate and 1 that serves after a release, 3 starts in all, 3 files, the policies in the second, 2 threads, 2 connections, a pool of 1 | Files take effect once and in order; only a current database is served; a statement sees its own tenant's rows; each start ends in a server or an exit (liveness). 197,624 states |
| `reply` | every text of up to 5 of 8 letters, windows of 4 that overlap by 1, answers of up to 4 parts to 2 texts | Phrases are whole in some chunk; defusing leaves nothing of the grammar and moves nothing else; findings about answers in the prompt's form are right; finished traces are closed. 8,749,811 states |
| `members_lastowner` | as `members`, the property a document states | TLC refutes it: see the next section |

Why these bounds. Every race in this code is between two parties over one row
(two drains, an upload and a drain, two uploads, two owners), and the state of a
party is where it stands in one function: two drains, two uploads, two requests
and two streams reach every pair of positions. A second job lets `claim_one` pass
over a locked row and take the next, and a third drain claims while two are at
work; a third attempt lets a job be lost once more after its budget; two texts and
two ACLs of a document let a drain hold a row that has changed since it was read;
two days let a payment land after midnight. Two changes of a password let a change
run into another, and give sessions of an old, a replaced and a new one; two threads of a limiter give every overlap of two calls, and a
clock of six seconds lets a bucket fill, be evicted and be seen again. (Burst 2,
45 a minute, an eviction after 5 seconds and a clock of 7, with 4,034,979
states, was checked too.) Three files let one process stop between two and
another start with one; three starts let two processes migrate at once and a third
serve, or one die, migrate again and a server follow. Five letters hold each pattern with a letter or an
invisible one before, inside or after it, and a text of six makes two chunks.
The other bounds are `AttemptCap` (a drain that holds a job in its n-th attempt
no longer dies, so that a job ends; liveness needs it, the proofs do not assume
it), `MaxGeneration`, `MaxRevision`, `MaxJobs`, `MaxTick`, `MaxQuestions`,
`MaxChanges`, `MaxClock`, `MaxStarts` and `MaxParts`, each named in the guard it
limits.

Assumptions on the settings. `LimitAssumption` wants
`60 * Burst <= (EvictAfter - 2 * MaxStall) * PerMin`: a bucket is full again
before it is forgotten, with twice the time a thread may be held up inside
`check` to spare, since a write may carry a clock read that long ago. The settings
shipped (5 at 30 a minute, 10 at 10, eviction after an hour) are far from it.
`ChunkAssumption` is what `chunk_text` raises for, and an overlap that is not
negative.

Switches. `SlowHandlers` lets a handler outlive `job_stale_after_seconds`;
`config.py:49-52` argues it does not, and the runs take it at its word
(`FALSE`). `Raises` lets a database call of a drain, or the start of its thread,
raise; `Stops` lets the process stop. There is no other: uploads may go back to bytes
that had a job, ACLs may be edited while a drain embeds, and processes may die between
an upload's commit and its enqueues, in every run. What the code does not keep then
(the next section) the properties except by name, through a history variable:
`PendingNotSucceeded` excepts a document that was edited back (`reused`),
`SettledIndexIsCurrent` and `GoneHoldsNothing` one that another drain had in hand as it
was before, when or after its own job read it (`crossed`), `EveryJobEnds` and
`PendingEnds` a queue that nobody has kicked since a drain died (`unkicked`),
`OthersAreOut` a login that raced the change (`late`).

`OrgSpendIsCapped` sums the answers that are in the table, as the code does: removing a
user takes their answers out of it, and lowers it. `PlatformSpendIsCapped` has no such
way down, and `LedgersAgree` counts the erased.

`CHECK_DEADLOCK FALSE`: a queue with nothing to do, an org that is deleted,
streams and answers that are over, and processes that are not started again may
stop. `worker`, `access` and `limiter` check deadlock: in the first, two parties
wait for one lock.

Type invariants are proved (below) rather than run, where there is a proof.

## Where the code and its documents disagree

One is a run of its own, `members_lastowner`, listed as a finding: two owners
who demote or remove each other at the same time both count two owners, and none
is left ("the org must always keep at least one owner", `tenancy.py:186-187`).

The others are stated in the modules, under *What the documentation says and the
code does not keep* or as documented, with no run of their own. To reproduce one,
take the run's cfg, make the property its only INVARIANT or PROPERTY, and change
the constants; TLC refutes each within seconds:

| Property | From | Changes | What TLC finds |
|---|---|---|---|
| `JobQueue!AttemptsWithinBudget` | `queue` | `Spec`, `Key = {k1, k2}` | `claim_one` (`jobs.py:65-72`) never compares attempts with the budget: a job whose process dies is claimed for ever ("after three attempts dead-letters … A poison file cannot wedge the queue", WALKTHROUGH.md:107-109) |
| `Ingestion!EditBackIsServed` | `ingestion_drains` | `Drain = {d1}` | text A, then B, then A again reuses the key of A's finished job (`ingest.py:111`), and the document stays pending, which `0014_document_revision.sql:13-16` set out to end; the same bytes again after a failure meet the dead job the same way |
| `Ingestion!TombstonesStayDead` | `ingestion_drains` | `MaxRevision = 1` | the handler's second transaction sets `ingested` on whatever the row has become (`ingest.py:185`): a tombstone lives again ("marked deleted and its chunks are removed", WALKTHROUGH.md:65-66) |
| `Ingestion!AclIsWhole` | `ingestion_drains` | none | chunks get the ACL read before the embedding (`ingest.py:171`), after an edit had changed document and chunks ("can never be half applied", `tenancy.py:352-354`) |
| `Ingestion!IndexIsCurrent` | `ingestion_drains` | none | a drain that embeds an older text writes it after the job of the present one ("Safe to run alongside another drain", `worker.py:17`) |
| `Ingestion!DeadLetterShows` | `ingestion` | `Spec`, `MaxAttempts = 1` | the process dies between burying a job and failing its document, which stays pending |
| `Ingestion!LiveWithinCap` | `ingestion_caps` | `Path = {p}`, `Request = {r}`, `DocCap = 1`, `MaxAttempts = 2`, `MaxRevision = 1` | a tombstone revived by a late handler counts again after its place was taken |
| `Worker!KickLeavesALiveDrain` | `worker` | `Spec`, `Stops = FALSE` | a kick between an exception and the `except` clause finds a thread that will not look again |
| `Worker!KickStartsAgain` | `worker` | `Spec`, `Stops = FALSE` | `_thread` is set before `start()`, which may raise (`worker.py:90-91`): the name stays, and no later kick of this process starts a drain ("a dead drain must not stop the next kick") |
| `Answers!OneLastFrame` | `answers` | none | a refusal reports usage first, so `error` follows `done` (`providers.py:446-453`; "can replace `done`", WALKTHROUGH.md:118-127) |
| `Members!NoStrandedUser` | `members` | none | a member added while `delete_org` waits leaves a user nobody can reach |
| `Members!OwnersManageOwnership` | `members` | none | an admin demotes or removes an owner (`tenancy.py:58-59`) |
| `Sessions!OldPasswordIsOut` | `access` | none | a login that verified the old password before a change creates its session after it ("Every other session for the user is revoked", `accounts.py:186-187`) |
| `Sessions!CallerStaysIn` | `access` | none | two changes at once: each keeps its own session and revokes the other's ("The caller's own session survives", `accounts.py:187-188`) |
| `Access!NoStaleness` | `access` | none | the principals are read in one transaction and used in the next ("There is no cache and no staleness window", WALKTHROUGH.md:158-159) |
| `Access!AclIsObeyed` | `access` | none | search filters by the copy on the chunks, which a handler that had read the old ACL writes back ("can never be half applied") |
| `Access!AllowedAreOfTheOrg` | `access` | none | `retrieval_stats` counts the org and the allowed in two transactions: more may be allowed than there are |
| `RateLimit!SweepNeverFails` | `limiter` | none | two sweeps delete one key, or a call inserts one while another lists them: the request fails |
| `RateLimit!AlwaysABucket` | `limiter` | none | two calls read one bucket and each take the same token ("Consume one token", `ratelimit.py:40`) |
| `Migrations!EachInItsOwn` | `boot` | `Spec` | all pending files commit together ("each in its own transaction", `migrate.py:2`), since a `select` opened the transaction they are savepoints of |
| `Pool!WithinPoolMax` | `boot` | `Spec` | two threads that find no pool open two, and one is never closed ("Connection pool bounds", `config.py:21-24`) |
| `Reply!HonestAnswersPass` | `reply` | none | the model quotes a passage as it was shown, without its footnote marks, and is told the quote is unsupported (`outputchecks.py:59-63`); `HonestUnlessDefused` proves that nothing else faults it |
| `Reply!UnquotedHasNoQuote` | `reply` | none | in `[1] [2] "…"` the quote is taken for that of `[1]`, and `[2]` is reported as unquoted (`outputchecks.py:129`) |
| `Tracing!EverythingSentIsScrubbed` | `reply` | none | the error of a failed answer goes to the service as it was raised ("Everything that leaves for Langfuse is redacted first", `tracing.py:15`) |

## Fairness

- `JobQueue`, `Ingestion`: weak fairness of the steps of a drain whose thread is
  alive, and of time (a retry delay or a stale limit runs out); strong fairness of its
  claims, because of two drains each passes over the row the other has just locked, and
  finds it free again and again. Nothing restarts a drain: `Kick` has no fairness, as
  "jobs left queued here wait for the next kick" (`worker.py:76`) says, and a kick of a
  process whose thread could not be started is no `Kick` here. So liveness starts at a
  kick and ends at a death that no kick follows. An upload that is alive goes on to
  enqueue. Crashes, errors and requests are never forced.
- `Worker`: weak fairness of a thread's steps and of `FallsDue`; strong fairness
  of taking `_lock`, because Python's lock is free again and again and its
  waiters are woken.
- `Deployment`: weak fairness of a migrating process' next step. What it can wait
  for is another's lock on the same row or name, which Postgres releases when its
  holder commits or dies; connections and threads are never forced.
- `Answers`, `Members`, `Access`, `RateLimit` and `Reply` have no fairness and no
  liveness property: a request may be abandoned at any point and nothing is
  promised about it.

## Proofs

`tlapm M_proofs.tla` checks them. TLC has the theorems' formulas as invariants
or properties of the runs; the proofs hold for every value of the constants
under each module's named `ASSUME`s (sorts apart, bounds natural numbers, budget
at least one; in `Answers`, finitely many users and streams, since a sum over
infinitely many has no value; in `Chunking`, that a text is a sequence). `Ask_proofs`
covers what stands between a client and an answer: `RateLimit`, whose specification is
`LimitSpec`, and `Reply` with its `Chunking`, `Prompt` and `Tracing`.

| Module | Theorem | Extra assumption | Argument |
|---|---|---|---|
| `JobQueue_proofs` | `TypeCorrect`, `DeletedOrgStaysEmpty` | – | inductive with `TypeOK` |
| | `ClaimsAreExclusive` | `~SlowHandlers`, inside the property | a job that a drain works on is `running` and not due, so nobody else can claim it; that is the strengthening |
| | `BudgetIsKept` | `~SlowHandlers` inside the property, for its second half | a drain about to requeue read attempts below the budget, and nobody else can have raised them since |
| | `OverIsOver` | `~SlowHandlers`, inside the property | an action property from exclusive claims: who marks a job holds it, and it is running |
| | `QueueKeepsPromise` | `~SlowHandlers` | refinement: `holders` of a job are the drains at work on it while it is running; each action maps to one abstract action or a stutter |
| `Ingestion_proofs` | `TypeCorrect` | – | inductive |
| | `IngestionUsesQueue` | – | each action of the composition is one of `JobQueue` or leaves its variables alone, so the queue's theorems hold of the composition |
| | `ClaimsAreExclusive` | `~SlowHandlers` | carried over |
| | `CapIsKept` | – | inductive, by cardinality of the documents that hold text |
| | `PendingIsServed` | – | needs `Lineage`: keys are behind the row's revision, claims have rows, a pending row's key is open unless it was reused, and `PendingNotSucceeded` |
| | `GoneIsGone` | – | `TombstonesRest`: of a tombstone that is not crossed no drain with a job of its row has read what it was; it needs `Lineage`, by which nobody can have a job of its present revision |
| | `FailedIsDeadLettered` | `~SlowHandlers` | `Failures`: claims have rows, an org that is gone has no documents, and a drain about to tell a document holds a job that is dead; that a dead job stays dead is the queue's `OverIsOver`, carried over |
| | `SettledIndexIsHeld` | `~SlowHandlers`, inside the property | `IndexFollows`, see below |
| `Answers_proofs` | `TypeCorrect`, `AnswersAreBilledOnce`, `FramesAreOrdered` | – | `Sound`: each position of the generator fixes which of its variables are set and which frame is out |
| | `PlatformSpendIsHeld`, `OrgSpendIsHeld` | – | `PlatformHolds`, `OrgHolds`, see below |
| | `LedgersAgreeAlways` | – | the row's cost is set and the day's total is increased, so the two move alike only because a stream pays once (`FirstBooking`, from `Sound`); a removal takes from the one sum what it adds to `erased`; what one entry adds to a sum is a lemma |
| `Worker_proofs` | `TypeCorrect`, `OneDrainOnly`, `KicksAreKept`, `KicksAreNotSlept` | – | inductive together: whoever is inside `with _lock` holds it; the thread that is named is the one that runs; one that has decided to stop or to stay owes no kick |
| `Access_proofs` | `TypeCorrect`, `RevocationHolds`, `RemovalEndsSessions`, `ReadsJustified` | – | while a change is under way every live session is one its delete saw or one that is late for it (`AllAreSeenOrLate`), whatever other changes commit meanwhile; what a request has read or will filter by is among what its account has held (`HeldIsKept`) |
| `Deployment_proofs` | `FilesTakeEffectInOrder`, `OnlyCurrentIsServed` | – | `MInv`: whoever applies read a prefix of the files and has done what follows it, and only one applies at a time, since the versions are a key; what it does not know by then refuses it. What one run completed stays complete, which is what a container that only serves rests on |
| | `TenantsAreSeparate` | – | `PInv`: a thread inside holds a connection that is set to its org, nobody else holds it, one that is free is set to none, and threads are of a process that serves a database with all its files |
| `Ask_proofs` | `WaitingIsEnough` | – | `LimitOK`: a stored bucket is bounded by its age and by how long a thread may be held up, a thread's copy likewise, and a promise is a time at which the bucket that is stored has a token |
| | `LimiterIsABucket` | – | refinement of `TokenBucket`, step by step: entering, where the clock is read, is the call, handing out the answer its end, a tick refills, and every step between is a stutter; a bucket that is forgotten was full (`LimitAssumption`), so forgetting gives nobody a token |
| | `PhrasesWhole` | – | after each round, every phrase that starts before the window is in a chunk; the next window starts within the overlap of this one's end |
| | `FinishedTracesAreClosed` | – | `TraceOK`: while the trace is on, a span that is open is one the tracer holds and will end |
| | `DefusingSettles` | – | `ChunksOK`: a chunk has positions of the text; of a text, `DefuseCleans`: a pass leaves nothing its pattern matches, and nothing it puts in starts, joins or ends a match of another |
| | `RewritingIsExact` | – | `ReplaceIs`: the fold from right to left is what the cuts and markers make of the text at once |
| | `FindingsAreSound` | – | `AnswerOK`: passages, quotes and parts are of the letters and shapes the checks know, and findings are `check_answer`'s; of those, that the pairs are the citations with what follows them, and what a spelling does to what is compared |
| | `HonestUnlessDefused` | nothing of the passages matches the grammar, inside the theorem | from `FindingsAreSound`, and a text in which nothing is found being shown as it is stored: the doc's promise, refuted under Disagreements, fails by defusing only |
| `Members_proofs` | `TypeCorrect`, `GroupsHoldMembers`, `RemovalErases`, `DeletionIsComplete`, `RanksAreGranted` | – | `Sound`: with `TypeOK`, an org not yet born has nothing, and a request waiting to write a rank was granted it on arrival |

Why these invariants. `PendingNotSucceeded` is not inductive: nothing in it says
why the next upload's key is fresh. `Lineage` does, by relating every key ever
enqueued to the generation and revision of its row. `ExclusiveClaim` likewise
says nothing of the flag that keeps a second drain away.

`SettledIndexIsCurrent` says nothing of how a document gets its chunks, nor of the
moment between the handler's return and the mark. `IndexFollows` begins there: from
the moment the handler of the row's own job is through, the chunks are those of the
row. What could spoil them is a drain with an older job of the row, or an older state
of it, and such a drain makes the document `crossed` by having it in hand after the
own job has read it; an older handler that is through before does no harm, nor does an
ACL edit, which changes document and chunks alike. That an upload of new bytes makes a
key whose job is still to come (`DoneIsPast`), and that the own job is in one drain's
hands, is from `Lineage` and the queue's `ExclusiveClaim`, carried over. Without the
exception TLC refutes it (`IndexIsCurrent`, `AclIsWhole`).

A spending bound is not inductive either: a total at its bound could be paid once
more. `PlatformHolds` and `OrgHolds` leave room for every stream that has passed its
check and not paid, at the cost of the dearest answer, and the check, which is only
passed below the budget, makes that room for all streams at once. A day that begins
and a row that grows old lower the total; that no row is of a later time is the rest
of the invariant. The sums behind this range over sets, and induction over data is
not to be had here; what is needed of them (a sum of zeros, one entry that grows, a
larger entry) follows from a least counterexample in place of an induction.

What `reply` shows of letters rests on functions over a text: the scan for matches, the
replacements from right to left, the pairing of quotes, the folds of the community
modules. Each is recursive, so expanding it shows nothing at every length. A lemma for
each says in closed form what comes out, and in place of an induction the argument is
again a least counterexample: were it wrong for some position, or some finite set of
positions, there would be a least; below it all is right, and one round of the recursion
leads from there to it (`LeastNumber`, `ByRemoval`). That a recursive function of this
kind exists at all, which its `CHOOSE` leaves open, is `ChainExists` and `FoldExists`.
`Lists` says that a sequence has a set of positions in order; there is only one such
sequence (`ListsIsOne`), so what one round builds is what `InOrder` gives. With it,
defusing is followed by where letters come from: `MatchWas` takes a match in the text
that a pass leaves back to one in the text before. No marker can be part of it, since
none is blank, a bracket or a path, and nothing between its ends can have been cut out
without a marker left there, so what it matches was there before the pass. `AlikeCompare`
says that two texts whose letters that count agree are compared alike; each spelling
keeps those, and an excerpt's comparable form stands whole in that of its passage, since
trimmed it begins and ends on letters that count.

Not proved: liveness (`EveryJobEnds`, `PendingEnds`, `KickIsServed`, `DrainEnds`,
`StartEnds`), which is out of the prover's reach. TLC checks it. Every other property of
a passing run is a theorem above.

## What is not modelled

`bodylimit.py` counts bytes of one request that nothing else reads, and
`securityheaders.py` sets constants: no property of them is more than the
assignment. The checks for markers, the canary, images and links, and `pii.py`,
are single regular expressions over one text. Audit entries are only appended;
feedback is one upsert a rating; a container that is neither told to migrate nor
started after a release serves whatever it finds (`entrypoint.sh` asks nothing of the
database); reports and the export only read; the frontend is
a client; seed, benchmark, evals, demo and scripts run by hand or in CI. Hashing,
bcrypt, embeddings, the ranking of vectors, prices and token counts are data to
every property here.

## Plan

Done: `JobQueue` (with `AtLeastOnce`), `Ingestion`, `Worker`, `Answers`, `Members`,
`Sessions` and `Access`, `RateLimit` (with `TokenBucket`), `Migrations` and `Pool`
in `Deployment`, `Chunking`, `Prompt` and `Tracing` in `Reply`, with their runs and
proofs. What could follow:

1. `Locks`: the orders in which handlers, ACL edits and deletions lock rows, and
   which requests a deadlock fails.
2. The export, which pages through tables that change under it.
3. Proofs: `Members`' refinement of a directory.
