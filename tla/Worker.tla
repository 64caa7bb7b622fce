------------------------------- MODULE Worker -------------------------------
(***************************************************************************)
(* worker.py: the drain thread of one API process, the kicks that start or  *)
(* wake it, and the lock, event and thread variable they share.  The jobs   *)
(* table is down to two counters: jobs that are due, and jobs that will be  *)
(* (queued with a retry delay, or running somewhere until they go stale).   *)
(*                                                                          *)
(* A kick follows each commit of new jobs, and each start of the process.   *)
(***************************************************************************)
EXTENDS Naturals

CONSTANTS
    Thread,         \* drain threads; one that has ended may serve again
    NoThread,       \* Python's None
    Request,        \* request threads (the lifespan's kick is one of them)
    Free,           \* nobody holds _lock
    MaxJobs,        \* bound: jobs in the table at a time
    JobsPerPass,    \* run_pending's max_jobs (1000 in the code)
    Raises,         \* may a database call of a drain raise outside a job, or the
                    \* start of its thread?
    Stops           \* may the process stop (fly.toml, auto_stop_machines)?

ASSUME NamesAssumption ==
    /\ NoThread \notin Thread
    /\ Free \notin Thread \cup Request
    /\ Thread \cap Request = {}
ASSUME MaxJobsAssumption == MaxJobs \in Nat \ {0}
ASSUME JobsPerPassAssumption == JobsPerPass \in Nat \ {0}
ASSUME SwitchesAssumption == {Raises, Stops} \subseteq BOOLEAN

VARIABLES
    due, later,     \* the jobs table
    up,             \* is the process running?
    lock,           \* who holds _lock
    wake,           \* the event _wake
    thread,         \* _thread
    drain,          \* where each drain thread stands
    ran,            \* jobs the pass of each thread has run
    timer,          \* has the time each waiting thread was given run out?
    request,        \* where each request stands
    owed            \* history: nobody has looked for jobs since the last kick,
                    \* and no drain has ended in an exception

shared == <<lock, wake, thread>>
vars == <<due, later, up, shared, drain, ran, timer, request, owed>>

Init ==
    /\ due = 0 /\ later = 0
    /\ up = FALSE
    /\ lock = Free /\ wake = FALSE /\ thread = NoThread
    /\ drain = [t \in Thread |-> "none"]
    /\ ran = [t \in Thread |-> 0]
    /\ timer = [t \in Thread |-> FALSE]
    /\ request = [r \in Request |-> "idle"]
    /\ owed = FALSE

-----------------------------------------------------------------------------
(* Requests.                                                                *)

\* main.lifespan: the process starts, and a request thread is about to kick.
Start(r) ==
    /\ ~up
    /\ up' = TRUE
    /\ request' = [request EXCEPT ![r] = "kicking"]
    /\ UNCHANGED <<due, later, shared, drain, timer, owed, ran>>

\* An upload commits its jobs; main.upload_folder kicks next.
Enqueue(r) ==
    /\ up
    /\ request[r] = "idle"
    /\ due + later < MaxJobs
    /\ due' = due + 1
    /\ request' = [request EXCEPT ![r] = "kicking"]
    /\ UNCHANGED <<later, up, shared, drain, timer, owed, ran>>

\* kick: with _lock.
KickLocks(r) ==
    /\ request[r] = "kicking"
    /\ lock = Free
    /\ lock' = r
    /\ request' = [request EXCEPT ![r] = "locked"]
    /\ UNCHANGED <<due, later, up, wake, thread, drain, timer, owed, ran>>

\* Mutant: every kick starts a thread.
KickStartsAnother(r) ==
    /\ request[r] = "locked"
    /\ wake' = TRUE
    /\ \E t \in Thread : /\ drain[t] = "none"
                         /\ thread' = t
                         /\ drain' = [drain EXCEPT ![t] = "purging"]
    /\ lock' = Free
    /\ request' = [request EXCEPT ![r] = "idle"]
    /\ owed' = TRUE
    /\ UNCHANGED <<due, later, up, timer, ran>>

\* Mutant: a kick does nothing while there is a thread.
KickWithoutWake(r) ==
    /\ request[r] = "locked"
    /\ IF thread = NoThread
         THEN \E t \in Thread : /\ drain[t] = "none"
                                /\ thread' = t
                                /\ drain' = [drain EXCEPT ![t] = "purging"]
         ELSE UNCHANGED <<thread, drain>>
    /\ lock' = Free
    /\ request' = [request EXCEPT ![r] = "idle"]
    /\ owed' = TRUE
    /\ UNCHANGED <<due, later, up, wake, timer, ran>>

\* The rest of kick: set the event, start a thread if there is none, unlock.
Kick(r) ==
    /\ request[r] = "locked"
    /\ wake' = TRUE
    /\ IF thread = NoThread
         THEN \E t \in Thread : /\ drain[t] = "none"
                                /\ thread' = t
                                /\ drain' = [drain EXCEPT ![t] = "purging"]
         ELSE UNCHANGED <<thread, drain>>
    /\ lock' = Free
    /\ request' = [request EXCEPT ![r] = "idle"]
    /\ owed' = TRUE
    /\ UNCHANGED <<due, later, up, timer, ran>>

\* _thread.start() raises, and so does kick: the thread that is named never runs.
\* (When it is the kick of the process's start, the process stops next.)
KickFails(r) ==
    /\ Raises
    /\ request[r] = "locked"
    /\ thread = NoThread
    /\ wake' = TRUE
    /\ \E t \in Thread : /\ drain[t] = "none"
                         /\ thread' = t
                         /\ drain' = [drain EXCEPT ![t] = "unstarted"]
    /\ lock' = Free
    /\ request' = [request EXCEPT ![r] = "idle"]
    /\ owed' = TRUE
    /\ UNCHANGED <<due, later, up, timer, ran>>

-----------------------------------------------------------------------------
(* Drain threads.                                                           *)

\* purge_expired_sessions, once per drain.
Purge(t) ==
    /\ drain[t] = "purging"
    /\ drain' = [drain EXCEPT ![t] = "looping"]
    /\ UNCHANGED <<due, later, up, shared, request, timer, owed, ran>>

\* _wake.clear, and a new pass over the jobs.
BeginPass(t) ==
    /\ drain[t] = "looping"
    /\ wake' = FALSE
    /\ ran' = [ran EXCEPT ![t] = 0]
    /\ drain' = [drain EXCEPT ![t] = "passing"]
    /\ UNCHANGED <<due, later, up, lock, thread, timer, request, owed>>

\* run_pending's next turn claims a job.
Claims(t) == drain[t] = "passing" /\ ran[t] < JobsPerPass /\ due > 0

\* One turn of run_pending: a due job ends, or goes back with a delay.
RunJob(t) ==
    /\ Claims(t)
    /\ ran' = [ran EXCEPT ![t] = ran[t] + 1]
    /\ due' = due - 1
    /\ later' \in {later, later + 1}
    /\ owed' = FALSE
    /\ UNCHANGED <<up, shared, drain, timer, request>>

\* run_pending finds nothing due, or returns at its limit without looking again.
EndPass(t) ==
    /\ drain[t] = "passing"
    /\ ~Claims(t)
    /\ drain' = [drain EXCEPT ![t] = "passed"]
    /\ owed' = (owed /\ ran[t] = JobsPerPass)
    /\ UNCHANGED <<due, later, up, shared, timer, request, ran>>

DrainLocks(t) ==
    /\ drain[t] = "passed"
    /\ lock = Free
    /\ lock' = t
    /\ drain' = [drain EXCEPT ![t] = "asking"]
    /\ UNCHANGED <<due, later, up, wake, thread, request, timer, owed, ran>>

\* Mutant: the lock guards the decision, not the look it rests on.
AskBeforeLock(t) ==
    /\ drain[t] = "asking"
    /\ timer' = [timer EXCEPT ![t] = FALSE]
    /\ drain' = [drain EXCEPT ![t] = IF later = 0 THEN "stopping" ELSE "staying"]
    /\ UNCHANGED <<due, later, up, shared, request, owed, ran>>

\* Mutant: a drain always stays.
AskNever(t) ==
    /\ drain[t] = "asking"
    /\ timer' = [timer EXCEPT ![t] = due > 0]
    /\ drain' = [drain EXCEPT ![t] = "staying"]
    /\ owed' = FALSE
    /\ UNCHANGED <<due, later, up, shared, request, ran>>

\* seconds_until_due, under the lock: no time at all if a job is due, never if
\* no job will be.
Ask(t) ==
    /\ drain[t] = "asking"
    /\ timer' = [timer EXCEPT ![t] = due > 0]
    /\ drain' = [drain EXCEPT ![t] = IF due + later = 0 THEN "stopping" ELSE "staying"]
    /\ owed' = FALSE
    /\ UNCHANGED <<due, later, up, shared, request, ran>>

\* Mutant: the thread is not forgotten.
StopUnforgotten(t) ==
    /\ drain[t] = "stopping"
    /\ lock' = Free
    /\ drain' = [drain EXCEPT ![t] = "none"]
    /\ UNCHANGED <<due, later, up, wake, thread, request, timer, owed, ran>>

\* No job will fall due: forget the thread, unlock, return.
Stop(t) ==
    /\ drain[t] = "stopping"
    /\ thread' = IF thread = t THEN NoThread ELSE thread
    /\ lock' = Free
    /\ drain' = [drain EXCEPT ![t] = "none"]
    /\ UNCHANGED <<due, later, up, wake, request, timer, owed, ran>>

\* Unlock and wait for the next job to fall due.
Stay(t) ==
    /\ drain[t] = "staying"
    /\ lock' = Free
    /\ drain' = [drain EXCEPT ![t] = "waiting"]
    /\ UNCHANGED <<due, later, up, wake, thread, request, timer, owed, ran>>

\* _wake.wait(wait) returns: woken, or the time is over.
WaitEnds(t) ==
    /\ drain[t] = "waiting"
    /\ wake \/ timer[t]
    /\ drain' = [drain EXCEPT ![t] = "looping"]
    /\ UNCHANGED <<due, later, up, shared, request, timer, owed, ran>>

\* A database call raises: in purge, in a claim or a mark, or under the lock,
\* which the with statement lets go.  A claimed job stays in the table.
RaiseError(t) ==
    /\ Raises
    /\ drain[t] \in {"purging", "passing", "asking"}
    /\ drain[t] = "passing" => ran[t] < JobsPerPass
    /\ IF Claims(t)
         THEN \/ due' = due - 1 /\ later' = later + 1
              \/ UNCHANGED <<due, later>>
         ELSE UNCHANGED <<due, later>>
    /\ lock' = IF lock = t THEN Free ELSE lock
    /\ drain' = [drain EXCEPT ![t] = "raised"]
    /\ owed' = FALSE
    /\ UNCHANGED <<up, wake, thread, request, timer, ran>>

\* _run's except clause: with _lock ...
RecoverLocks(t) ==
    /\ drain[t] = "raised"
    /\ lock = Free
    /\ lock' = t
    /\ drain' = [drain EXCEPT ![t] = "forgetting"]
    /\ UNCHANGED <<due, later, up, wake, thread, request, timer, owed, ran>>

\* ... _thread = None, whatever it was.
Forget(t) ==
    /\ drain[t] = "forgetting"
    /\ thread' = NoThread
    /\ lock' = Free
    /\ drain' = [drain EXCEPT ![t] = "none"]
    /\ owed' = FALSE
    /\ UNCHANGED <<due, later, up, wake, request, timer, ran>>

-----------------------------------------------------------------------------
(* Everything else.                                                         *)

\* The first retry delay or stale claim runs out, and with it every wait that
\* was measured by it.
FallsDue ==
    /\ later > 0
    /\ later' = later - 1 /\ due' = due + 1
    /\ timer' = [t \in Thread |-> drain[t] \in {"staying", "waiting"} \/ timer[t]]
    /\ UNCHANGED <<up, shared, drain, request, owed, ran>>

\* A drain of another machine, or one run by hand, settles a job.
OtherDrainRuns ==
    /\ due > 0
    /\ due' = due - 1
    /\ UNCHANGED <<later, up, shared, drain, request, timer, owed, ran>>

\* The process stops with everything in it; jobs it was running go stale.
ProcessStops ==
    /\ Stops /\ up
    /\ up' = FALSE
    /\ IF \E t \in Thread : Claims(t)
         THEN \/ due' = due - 1 /\ later' = later + 1
              \/ UNCHANGED <<due, later>>
         ELSE UNCHANGED <<due, later>>
    /\ lock' = Free /\ wake' = FALSE /\ thread' = NoThread
    /\ drain' = [t \in Thread |-> "none"]
    /\ ran' = [t \in Thread |-> 0]
    /\ timer' = [t \in Thread |-> FALSE]
    /\ request' = [r \in Request |-> "idle"]
    /\ owed' = FALSE

-----------------------------------------------------------------------------
RequestStep(r) == KickLocks(r) \/ Kick(r)

DrainStep(t) ==
    \/ Purge(t) \/ BeginPass(t) \/ RunJob(t) \/ EndPass(t) \/ DrainLocks(t)
    \/ Ask(t) \/ Stop(t) \/ Stay(t) \/ WaitEnds(t)
    \/ RecoverLocks(t) \/ Forget(t)

Next ==
    \/ \E r \in Request : Start(r) \/ Enqueue(r) \/ RequestStep(r) \/ KickFails(r)
    \/ \E t \in Thread : DrainStep(t) \/ RaiseError(t)
    \/ FallsDue \/ OtherDrainRuns \/ ProcessStops

\* Threads are scheduled, a lock that is free time and again is obtained, and
\* time passes.
Fairness ==
    /\ \A r \in Request : SF_vars(KickLocks(r)) /\ WF_vars(Kick(r))
    /\ \A t \in Thread : /\ WF_vars(DrainStep(t))
                          /\ SF_vars(DrainLocks(t)) /\ SF_vars(RecoverLocks(t))
    /\ WF_vars(FallsDue)

Spec == Init /\ [][Next]_vars
FairSpec == Spec /\ Fairness

-----------------------------------------------------------------------------
(* Properties.                                                              *)

Holding == {"asking", "stopping", "staying", "forgetting"}

\* The state is well formed, and _lock is held exactly by the thread that is
\* between its acquisition and its release.
TypeOK ==
    /\ {due, later} \subseteq Nat
    /\ {up, wake, owed} \subseteq BOOLEAN
    /\ lock \in Thread \cup Request \cup {Free}
    /\ thread \in Thread \cup {NoThread}
    /\ drain \in [Thread -> Holding
                     \cup {"none", "unstarted", "purging", "looping", "passing", "passed",
                           "waiting", "raised"}]
    /\ ran \in [Thread -> 0..JobsPerPass]
    /\ timer \in [Thread -> BOOLEAN]
    /\ request \in [Request -> {"idle", "kicking", "locked"}]
    /\ \A t \in Thread : lock = t <=> drain[t] \in Holding
    /\ \A r \in Request : lock = r <=> request[r] = "locked"

\* "One drain thread per process": _thread names the only thread that is
\* anywhere in drain or _run, whatever raises, stops or is kicked.
OneDrain == \A t \in Thread : drain[t] # "none" => thread = t

\* "A kick cannot land between them and be lost": as long as nobody has looked
\* for jobs since a kick, a thread that still will is there, however the kick
\* fell between the drain's last look and its decision to stop.  Only a thread
\* that an exception is ending, or that could not be started, is taken for one
\* (KickLeavesALiveDrain, KickStartsAgain).
KickIsNotLost ==
    owed => thread # NoThread /\ drain[thread] \notin {"none", "stopping"}

\* "`_wake` cuts a retry wait short when new work arrives": a drain never waits
\* for an old retry delay while a kick's job has not been looked for.
NoWaitOnNewWork ==
    \A t \in Thread : drain[t] = "waiting" /\ owed => wake \/ timer[t]

NeverRan(t) == drain[t] = "unstarted"

\* Every kick leads to a look at the jobs table, or its drain raises or is a thread
\* that could not be started, or the process stops.
KickIsServed == owed ~> (~owed \/ \E t \in Thread : NeverRan(t))

\* "An idle deployment sends no queries at all": a drain with nothing left to
\* wait for ends.
DrainEnds ==
    (due + later = 0) ~>
        ((\A t \in Thread : drain[t] = "none" \/ NeverRan(t)) \/ due + later > 0)

\* worker._run: "a dead drain must not stop the next kick".  When a kick is
\* through, the drain thread it leaves is not one that an exception is ending.
KickLeavesALiveDrain ==
    [][\A r \in Request :
          request[r] = "locked" /\ request'[r] = "idle" /\ up'
            => drain'[thread'] \notin {"none", "raised", "forgetting"}]_vars

\* The same of a drain that could not be started: the next kick starts one.
KickStartsAgain ==
    [][\A t \in Thread : drain[t] = "unstarted" /\ up' /\ \E r \in Request : Kick(r)
          => \E u \in Thread : drain'[u] = "purging"]_vars
=============================================================================
