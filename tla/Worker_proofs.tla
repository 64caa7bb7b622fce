--------------------------- MODULE Worker_proofs ----------------------------
(***************************************************************************)
(* The drain thread, for any number of threads, requests and jobs: there is *)
(* one, a kick finds it or starts it, and it does not sleep over a kick.    *)
(*                                                                          *)
(* What the three properties need beyond themselves is what the lock gives: *)
(* between the drain's look at the jobs and what it does about it, no kick  *)
(* comes, so that a drain which has decided owes nothing.                   *)
(***************************************************************************)
EXTENDS Worker, TLAPS

\* _thread names a thread that has not returned.
NamedRuns == thread # NoThread => drain[thread] # "none"

\* Since a drain's last look, under the lock, nobody has kicked.
DecidedOwesNothing == \A t \in Thread : drain[t] \in {"stopping", "staying"} => ~owed

\* No request outlives its process, so that no start finds one holding the lock.
DownIsIdle == ~up => \A r \in Request : request[r] = "idle"

Inv ==
    /\ TypeOK
    /\ DownIsIdle
    /\ OneDrain
    /\ NamedRuns
    /\ DecidedOwesNothing
    /\ KickIsNotLost
    /\ NoWaitOnNewWork

-----------------------------------------------------------------------------
(* TypeOK in parts: the counters, the flags, the places, and the lock that   *)
(* is held by whoever is between its acquisition and its release.            *)

Counters == due \in Nat /\ later \in Nat /\ ran \in [Thread -> 0..JobsPerPass]

Flags == up \in BOOLEAN /\ wake \in BOOLEAN /\ owed \in BOOLEAN /\ timer \in [Thread -> BOOLEAN]

Places ==
    /\ lock \in Thread \cup Request \cup {Free}
    /\ thread \in Thread \cup {NoThread}
    /\ drain \in [Thread -> Holding
                     \cup {"none", "unstarted", "purging", "looping", "passing", "passed",
                           "waiting", "raised"}]
    /\ request \in [Request -> {"idle", "kicking", "locked"}]

LockIsHeld ==
    /\ \A t \in Thread : lock = t <=> drain[t] \in Holding
    /\ \A r \in Request : lock = r <=> request[r] = "locked"

LEMMA Parts == TypeOK <=> Counters /\ Flags /\ Places /\ LockIsHeld
<1>1. {due, later} \subseteq Nat <=> due \in Nat /\ later \in Nat
  OBVIOUS
<1>2. {up, wake, owed} \subseteq BOOLEAN <=> up \in BOOLEAN /\ wake \in BOOLEAN /\ owed \in BOOLEAN
  BY Zenon
<1> QED
  BY <1>1, <1>2, Zenon DEF TypeOK, Counters, Flags, Places, LockIsHeld

LEMMA CountersStep == ASSUME Counters, [Next]_vars PROVE Counters'
<1> USE JobsPerPassAssumption
<1>1. ASSUME NEW r \in Request, Start(r) \/ Enqueue(r) \/ RequestStep(r) \/ KickFails(r)
      PROVE  Counters'
  BY <1>1 DEF Counters, Start, Enqueue, RequestStep, KickLocks, Kick, KickFails
<1>2. ASSUME NEW t \in Thread, RunJob(t) PROVE Counters'
  <2>1. ran[t] \in 0..JobsPerPass /\ ran[t] < JobsPerPass /\ due > 0
    BY <1>2 DEF RunJob, Claims, Counters
  <2>2. ran[t] + 1 \in 0..JobsPerPass
    BY <2>1
  <2> QED
    BY <1>2, <2>1, <2>2 DEF Counters, RunJob
<1>3. ASSUME NEW t \in Thread, DrainStep(t), ~RunJob(t) PROVE Counters'
  BY <1>3 DEF Counters, DrainStep, Purge, BeginPass, EndPass, DrainLocks, Ask, Stop, Stay, WaitEnds,
              RecoverLocks, Forget
<1>4. ASSUME NEW t \in Thread, RaiseError(t) PROVE Counters'
  BY <1>4 DEF Counters, RaiseError, Claims
<1>5. CASE FallsDue \/ OtherDrainRuns
  BY <1>5 DEF Counters, FallsDue, OtherDrainRuns
<1>6. CASE ProcessStops
  BY <1>6 DEF Counters, ProcessStops, Claims
<1>7. CASE UNCHANGED vars
  BY <1>7 DEF Counters, vars
<1> QED
  BY <1>1, <1>2, <1>3, <1>4, <1>5, <1>6, <1>7 DEF Next

LEMMA FlagsStep == ASSUME Flags, [Next]_vars PROVE Flags'
<1>1. ASSUME NEW r \in Request, Start(r) \/ Enqueue(r) \/ RequestStep(r) \/ KickFails(r)
      PROVE  Flags'
  BY <1>1, Zenon DEF Flags, Start, Enqueue, RequestStep, KickLocks, Kick, KickFails, shared
<1>9. ASSUME NEW t \in Thread, EndPass(t) PROVE Flags'
  <2>1. (owed /\ ran[t] = JobsPerPass) \in BOOLEAN
    OBVIOUS
  <2> QED
    BY <1>9, <2>1, Zenon DEF Flags, EndPass, shared
<1>2. ASSUME NEW t \in Thread, DrainStep(t), ~Ask(t), ~EndPass(t) PROVE Flags'
  BY <1>2, Zenon DEF Flags, DrainStep, Purge, BeginPass, RunJob, DrainLocks, Stop, Stay,
              WaitEnds, RecoverLocks, Forget, shared
<1>3. ASSUME NEW t \in Thread, Ask(t) PROVE Flags'
  <2>1. (due > 0) \in BOOLEAN
    OBVIOUS
  <2>2. timer' \in [Thread -> BOOLEAN]
    BY <1>3, <2>1 DEF Flags, Ask
  <2> QED
    BY <1>3, <2>2, Zenon DEF Flags, Ask, shared
<1>4. ASSUME NEW t \in Thread, RaiseError(t) PROVE Flags'
  BY <1>4, Zenon DEF Flags, RaiseError
<1>5. CASE FallsDue
  <2>1. timer' \in [Thread -> BOOLEAN]
    BY <1>5 DEF Flags, FallsDue
  <2> QED
    BY <1>5, <2>1, Zenon DEF Flags, FallsDue, shared
<1>6. CASE OtherDrainRuns
  BY <1>6, Zenon DEF Flags, OtherDrainRuns, shared
<1>7. CASE ProcessStops
  <2>1. timer' \in [Thread -> BOOLEAN]
    BY <1>7 DEF ProcessStops
  <2> QED
    BY <1>7, <2>1, Zenon DEF Flags, ProcessStops
<1>8. CASE UNCHANGED vars
  BY <1>8, Zenon DEF Flags, vars, shared
<1> QED
  BY <1>1, <1>2, <1>3, <1>4, <1>5, <1>6, <1>7, <1>8, <1>9 DEF Next

LEMMA PlacesStep == ASSUME Places, [Next]_vars PROVE Places'
<1>1. ASSUME NEW r \in Request, Start(r) \/ Enqueue(r) \/ RequestStep(r) \/ KickFails(r)
      PROVE  Places'
  BY <1>1 DEF Places, Holding, Start, Enqueue, RequestStep, KickLocks, Kick, KickFails, shared
<1>2. ASSUME NEW t \in Thread, DrainStep(t) PROVE Places'
  BY <1>2 DEF Places, Holding, DrainStep, Purge, BeginPass, RunJob, EndPass, DrainLocks, Ask, Stop,
              Stay, WaitEnds, RecoverLocks, Forget, shared
<1>3. ASSUME NEW t \in Thread, RaiseError(t) PROVE Places'
  BY <1>3 DEF Places, Holding, RaiseError
<1>4. CASE FallsDue \/ OtherDrainRuns
  BY <1>4 DEF Places, FallsDue, OtherDrainRuns, shared
<1>5. CASE ProcessStops
  BY <1>5 DEF Places, ProcessStops
<1>6. CASE UNCHANGED vars
  BY <1>6 DEF Places, vars, shared
<1> QED
  BY <1>1, <1>2, <1>3, <1>4, <1>5, <1>6 DEF Next

\* Only who finds the lock free takes it, and only its holder lets it go.
LEMMA LockStep == ASSUME Places, LockIsHeld, DownIsIdle, [Next]_vars PROVE LockIsHeld'
<1> USE NamesAssumption
<1>1. ASSUME NEW r \in Request, Start(r) \/ Enqueue(r) PROVE LockIsHeld'
  <2>1. request[r] = "idle" /\ lock' = lock /\ drain' = drain
    BY <1>1 DEF DownIsIdle, Start, Enqueue, shared
  <2>2. \A q \in Request : request'[q] = IF q = r THEN "kicking" ELSE request[q]
    BY <1>1 DEF Start, Enqueue, Places
  <2> QED
    BY <2>1, <2>2 DEF LockIsHeld
<1>2. ASSUME NEW r \in Request, KickLocks(r) PROVE LockIsHeld'
  <2>1. lock = Free /\ lock' = r /\ drain' = drain
    BY <1>2 DEF KickLocks
  <2>2. \A q \in Request : request'[q] = IF q = r THEN "locked" ELSE request[q]
    BY <1>2 DEF KickLocks, Places
  <2> QED
    BY <2>1, <2>2 DEF LockIsHeld
<1>3. ASSUME NEW r \in Request, Kick(r) \/ KickFails(r) PROVE LockIsHeld'
  <2>1. lock = r
    BY <1>3 DEF LockIsHeld, Kick, KickFails
  <2>2. \A t \in Thread : drain[t] \notin Holding
    BY <2>1 DEF LockIsHeld
  <2>3. \A t \in Thread : drain'[t] \in {drain[t], "purging", "unstarted"}
    BY <1>3 DEF Kick, KickFails, Places
  <2>4. \A q \in Request : request'[q] # "locked"
    BY <1>3, <2>1 DEF LockIsHeld, Places, Kick, KickFails
  <2> QED
    BY <1>3, <2>2, <2>3, <2>4 DEF LockIsHeld, Kick, KickFails, Holding
<1>4. ASSUME NEW t \in Thread, Purge(t) \/ BeginPass(t) \/ RunJob(t) \/ EndPass(t) \/ WaitEnds(t)
      PROVE  LockIsHeld'
  BY <1>4 DEF LockIsHeld, Places, Holding, Purge, BeginPass, RunJob, EndPass, WaitEnds, shared
<1>5. ASSUME NEW t \in Thread, DrainLocks(t) \/ RecoverLocks(t) PROVE LockIsHeld'
  BY <1>5 DEF LockIsHeld, Places, Holding, DrainLocks, RecoverLocks
<1>6. ASSUME NEW t \in Thread, Ask(t) PROVE LockIsHeld'
  BY <1>6 DEF LockIsHeld, Places, Holding, Ask, shared
<1>7. ASSUME NEW t \in Thread, Stop(t) \/ Stay(t) \/ Forget(t) PROVE LockIsHeld'
  <2>1. lock = t /\ drain[t] \in Holding
    BY <1>7 DEF LockIsHeld, Holding, Stop, Stay, Forget
  <2>2. lock' = Free /\ request' = request
    BY <1>7 DEF Stop, Stay, Forget
  <2>3. \A u \in Thread : drain'[u] \notin Holding
    BY <1>7, <2>1 DEF LockIsHeld, Places, Holding, Stop, Stay, Forget
  <2> QED
    BY <2>1, <2>2, <2>3 DEF LockIsHeld
<1>8. ASSUME NEW t \in Thread, RaiseError(t) PROVE LockIsHeld'
  <2>1. \A u \in Thread : drain'[u] = IF u = t THEN "raised" ELSE drain[u]
    BY <1>8 DEF RaiseError, Places
  <2>2. lock' = (IF lock = t THEN Free ELSE lock) /\ request' = request
    BY <1>8 DEF RaiseError
  <2> QED
    BY <2>1, <2>2 DEF LockIsHeld, Holding
<1>9. CASE FallsDue \/ OtherDrainRuns
  BY <1>9 DEF LockIsHeld, FallsDue, OtherDrainRuns, shared
<1>10. CASE ProcessStops
  BY <1>10 DEF LockIsHeld, ProcessStops, Holding
<1>11. CASE UNCHANGED vars
  BY <1>11 DEF LockIsHeld, vars, shared
<1> QED
  BY <1>1, <1>2, <1>3, <1>4, <1>5, <1>6, <1>7, <1>8, <1>9, <1>10, <1>11
     DEF Next, RequestStep, DrainStep

LEMMA DownStep == ASSUME Places, DownIsIdle, [Next]_vars PROVE DownIsIdle'
<1>1. ASSUME NEW r \in Request, Start(r) \/ Enqueue(r) PROVE DownIsIdle'
  <2>1. CASE Start(r)
    BY <2>1, Zenon DEF Start, DownIsIdle
  <2>2. CASE Enqueue(r)
    <3>1. up /\ up' = up
      BY <2>2, Zenon DEF Enqueue, shared
    <3> QED
      BY <3>1, Zenon DEF DownIsIdle
  <2> QED
    BY <1>1, <2>1, <2>2
<1>2. ASSUME NEW r \in Request, RequestStep(r) \/ KickFails(r) PROVE DownIsIdle'
  <2>1. request[r] # "idle" /\ up' = up
    BY <1>2 DEF RequestStep, KickLocks, Kick, KickFails
  <2> QED
    BY <2>1, Zenon DEF DownIsIdle
<1>3. CASE UNCHANGED <<up, request>>
  BY <1>3 DEF DownIsIdle
<1>4. CASE ProcessStops
  <2>1. \A r \in Request : request'[r] = "idle"
    BY <1>4 DEF ProcessStops
  <2> QED
    BY <2>1 DEF DownIsIdle
<1> QED
  BY <1>1, <1>2, <1>3, <1>4
     DEF Next, DrainStep, Purge, BeginPass, RunJob, EndPass, DrainLocks, Ask, Stop, Stay, WaitEnds,
         RecoverLocks, Forget, RaiseError, FallsDue, OtherDrainRuns, vars

LEMMA TypeSteps == ASSUME TypeOK, DownIsIdle, [Next]_vars PROVE TypeOK' /\ DownIsIdle'
<1>1. Counters' /\ Flags' /\ Places' /\ LockIsHeld'
  BY Parts, CountersStep, FlagsStep, PlacesStep, LockStep
<1>2. (Counters /\ Flags /\ Places /\ LockIsHeld => TypeOK)'
  BY Parts, PTL
<1>3. DownIsIdle'
  BY Parts, DownStep
<1> QED
  BY <1>1, <1>2, <1>3

-----------------------------------------------------------------------------

LEMMA Starts == Init => Inv
<1> SUFFICES ASSUME Init PROVE Inv
  OBVIOUS
<1>0. Counters
  <2>1. 0 \in 0..JobsPerPass
    BY JobsPerPassAssumption
  <2> QED
    BY <2>1 DEF Init, Counters
<1>1. Flags /\ Places /\ LockIsHeld
  BY NamesAssumption DEF Init, Flags, Places, LockIsHeld, Holding
<1>2. DownIsIdle /\ OneDrain /\ NamedRuns /\ DecidedOwesNothing /\ KickIsNotLost /\ NoWaitOnNewWork
  BY DEF Init, DownIsIdle, OneDrain, NamedRuns, DecidedOwesNothing, KickIsNotLost, NoWaitOnNewWork
<1> QED
  BY <1>0, <1>1, <1>2, Parts DEF Inv

\* A step that changes nothing of the drains, the thread, the flags and the timers
\* but for a timer that runs out.
LEMMA Aside ==
    ASSUME Inv, TypeOK', DownIsIdle', UNCHANGED <<drain, thread, wake, owed>>,
           \A t \in Thread : drain[t] = "waiting" /\ timer[t] => timer'[t]
    PROVE  Inv'
BY DEF Inv, OneDrain, NamedRuns, DecidedOwesNothing, KickIsNotLost, NoWaitOnNewWork

\* The one thread there is moves on, and the kick that is owed, if any, stays so only
\* if it has not decided.
LEMMA MovesOn ==
    ASSUME Inv, TypeOK', DownIsIdle', NEW t \in Thread, drain[t] # "none", NEW to,
           to # "none", to \in {"stopping", "staying"} => ~owed',
           to = "waiting" => ~owed' \/ wake' \/ timer'[t],
           drain' = [drain EXCEPT ![t] = to], thread' = thread,
           owed' => owed
    PROVE  Inv'
<1>1. \A u \in Thread : drain'[u] = IF u = t THEN to ELSE drain[u]
  BY DEF Inv, TypeOK
<1>2. thread = t /\ \A u \in Thread : u # t => drain[u] = "none"
  BY DEF Inv, OneDrain
<1> QED
  BY <1>1, <1>2 DEF Inv, OneDrain, NamedRuns, DecidedOwesNothing, KickIsNotLost, NoWaitOnNewWork

\* The one thread there is returns, and owes nothing.
LEMMA Returns ==
    ASSUME Inv, TypeOK', DownIsIdle', NEW t \in Thread, drain[t] # "none",
           drain' = [drain EXCEPT ![t] = "none"], thread' = NoThread, ~owed'
    PROVE  Inv'
<1>1. \A u \in Thread : drain'[u] = "none"
  BY DEF Inv, TypeOK, OneDrain
<1> QED
  BY <1>1 DEF Inv, OneDrain, NamedRuns, DecidedOwesNothing, KickIsNotLost, NoWaitOnNewWork

\* A kick holds the lock, so no drain is between its look and its decision.
LEMMA KickKeeps ==
    ASSUME Inv, TypeOK', DownIsIdle', NEW r \in Request, Kick(r) \/ KickFails(r) PROVE Inv'
<1>1. lock = r /\ \A t \in Thread : drain[t] \notin Holding
  BY NamesAssumption DEF Inv, TypeOK, Kick, KickFails
<1>2. wake' = TRUE
  BY DEF Kick, KickFails
<1>3. CASE thread = NoThread
  <2>1. PICK t \in Thread, to \in {"purging", "unstarted"} :
          thread' = t /\ drain' = [drain EXCEPT ![t] = to]
    BY <1>3 DEF Kick, KickFails
  <2>2. \A u \in Thread : drain[u] = "none"
    BY <1>3, NamesAssumption DEF Inv, OneDrain
  <2>3. \A u \in Thread : drain'[u] = IF u = t THEN to ELSE "none"
    BY <2>1, <2>2 DEF Inv, TypeOK
  <2> QED
    BY <2>1, <2>3, <1>2, NamesAssumption
       DEF Inv, OneDrain, NamedRuns, DecidedOwesNothing, KickIsNotLost, NoWaitOnNewWork
<1>4. CASE thread # NoThread
  <2>1. UNCHANGED <<thread, drain>>
    BY <1>4 DEF Kick, KickFails
  <2>2. thread \in Thread /\ drain[thread] \notin {"none", "stopping"}
    BY <1>1, <1>4 DEF Inv, TypeOK, NamedRuns, Holding
  <2> QED
    BY <2>1, <2>2, <1>1, <1>2, <1>4
       DEF Inv, OneDrain, NamedRuns, DecidedOwesNothing, KickIsNotLost, NoWaitOnNewWork, Holding
<1> QED
  BY <1>3, <1>4

LEMMA Steps == ASSUME Inv, [Next]_vars PROVE Inv'
<1>0. TypeOK' /\ DownIsIdle'
  BY TypeSteps DEF Inv
<1>1. ASSUME NEW r \in Request, Start(r) \/ Enqueue(r) \/ KickLocks(r) PROVE Inv'
  BY <1>0, <1>1, Aside DEF Start, Enqueue, KickLocks, shared
<1>2. ASSUME NEW r \in Request, Kick(r) \/ KickFails(r) PROVE Inv'
  BY <1>0, <1>2, KickKeeps
<1>3. ASSUME NEW t \in Thread, Purge(t) \/ EndPass(t) \/ DrainLocks(t) \/ WaitEnds(t) \/ RecoverLocks(t)
      PROVE  Inv'
  <2>1. PICK to \in {"looping", "passed", "asking", "forgetting"} : drain' = [drain EXCEPT ![t] = to]
    BY <1>3 DEF Purge, EndPass, DrainLocks, WaitEnds, RecoverLocks
  <2>2. drain[t] # "none" /\ thread' = thread
    BY <1>3 DEF Purge, EndPass, DrainLocks, WaitEnds, RecoverLocks, shared
  <2>3. owed' => owed
    BY <1>3, Zenon DEF Purge, EndPass, DrainLocks, WaitEnds, RecoverLocks
  <2> QED
    BY <1>0, <2>1, <2>2, <2>3, MovesOn
<1>4. ASSUME NEW t \in Thread, BeginPass(t) PROVE Inv'
  BY <1>0, <1>4, MovesOn DEF BeginPass
<1>5. ASSUME NEW t \in Thread, RunJob(t) PROVE Inv'
  BY <1>0, <1>5 DEF RunJob, Claims, shared, Inv, OneDrain, NamedRuns, DecidedOwesNothing, KickIsNotLost,
                    NoWaitOnNewWork
<1>6. ASSUME NEW t \in Thread, Ask(t) PROVE Inv'
  <2>1. PICK to \in {"stopping", "staying"} : drain' = [drain EXCEPT ![t] = to]
    BY <1>6 DEF Ask
  <2>2. drain[t] # "none" /\ thread' = thread /\ ~owed'
    BY <1>6 DEF Ask, shared
  <2> QED
    BY <1>0, <2>1, <2>2, MovesOn
<1>7. ASSUME NEW t \in Thread, Stop(t) PROVE Inv'
  <2>1. thread = t /\ ~owed
    BY <1>7 DEF Stop, Inv, OneDrain, DecidedOwesNothing
  <2>2. drain[t] # "none" /\ drain' = [drain EXCEPT ![t] = "none"] /\ thread' = NoThread /\ ~owed'
    BY <1>7, <2>1 DEF Stop
  <2> QED
    BY <1>0, <2>2, Returns
<1>8. ASSUME NEW t \in Thread, Stay(t) PROVE Inv'
  <2>1. ~owed
    BY <1>8 DEF Stay, Inv, DecidedOwesNothing
  <2>2. /\ drain[t] # "none" /\ drain' = [drain EXCEPT ![t] = "waiting"]
        /\ thread' = thread /\ ~owed'
    BY <1>8, <2>1 DEF Stay
  <2> QED
    BY <1>0, <2>2, MovesOn
<1>9. ASSUME NEW t \in Thread, Forget(t) PROVE Inv'
  <2>1. drain[t] # "none" /\ drain' = [drain EXCEPT ![t] = "none"] /\ thread' = NoThread /\ ~owed'
    BY <1>9 DEF Forget
  <2> QED
    BY <1>0, <2>1, Returns
<1>10. ASSUME NEW t \in Thread, RaiseError(t) PROVE Inv'
  <2>1. drain[t] # "none" /\ drain' = [drain EXCEPT ![t] = "raised"] /\ thread' = thread /\ ~owed'
    BY <1>10 DEF RaiseError
  <2> QED
    BY <1>0, <2>1, MovesOn
<1>11. CASE FallsDue
  <2>1. \A t \in Thread : drain[t] = "waiting" => timer'[t]
    BY <1>11 DEF FallsDue
  <2> QED
    BY <1>0, <1>11, <2>1, Aside DEF FallsDue, shared
<1>12. CASE OtherDrainRuns
  BY <1>0, <1>12, Aside DEF OtherDrainRuns, shared
<1>13. CASE ProcessStops
  <2>1. \A t \in Thread : drain'[t] = "none"
    BY <1>13 DEF ProcessStops
  <2>2. thread' = NoThread /\ owed' = FALSE
    BY <1>13 DEF ProcessStops
  <2> QED
    BY <1>0, <2>1, <2>2 DEF Inv, OneDrain, NamedRuns, DecidedOwesNothing, KickIsNotLost, NoWaitOnNewWork
<1>14. CASE UNCHANGED vars
  BY <1>0, <1>14, Aside DEF vars, shared
<1> QED
  BY <1>1, <1>2, <1>3, <1>4, <1>5, <1>6, <1>7, <1>8, <1>9, <1>10, <1>11, <1>12, <1>13, <1>14
     DEF Next, RequestStep, DrainStep

LEMMA Invariant == Spec => []Inv
<1>1. Init => Inv
  BY Starts
<1>2. Inv /\ [Next]_vars => Inv'
  BY Steps
<1> QED
  BY <1>1, <1>2, PTL DEF Spec

\* The state is well formed, and _lock is held by whoever is in its with block.
THEOREM TypeCorrect == Spec => []TypeOK
<1>1. Inv => TypeOK
  BY DEF Inv
<1> QED
  BY <1>1, Invariant, PTL

\* One drain thread per process, whatever raises, stops or is kicked.
THEOREM OneDrainOnly == Spec => []OneDrain
<1>1. Inv => OneDrain
  BY DEF Inv
<1> QED
  BY <1>1, Invariant, PTL

\* A kick that nobody has answered has a thread that will look, or is just ending in
\* an exception.
THEOREM KicksAreKept == Spec => []KickIsNotLost
<1>1. Inv => KickIsNotLost
  BY DEF Inv
<1> QED
  BY <1>1, Invariant, PTL

\* No drain sleeps for an old retry delay over a kick.
THEOREM KicksAreNotSlept == Spec => []NoWaitOnNewWork
<1>1. Inv => NoWaitOnNewWork
  BY DEF Inv
<1> QED
  BY <1>1, Invariant, PTL
=============================================================================
