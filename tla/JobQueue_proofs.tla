--------------------------- MODULE JobQueue_proofs --------------------------
(***************************************************************************)
(* Proofs about JobQueue, for any keys, any drains and any budget.          *)
(***************************************************************************)
EXTENDS JobQueue, SequenceTheorems, TLAPS

\* What a drain does without touching the jobs table, a claim apart.
Quiet(d) ==
    \/ HandlerReturns(d) \/ Raise(d) \/ ReadAttempts(d) \/ BuriedAway(d)
    \/ Kick(d) \/ Stop(d) \/ Crash(d)

-----------------------------------------------------------------------------
(* Type correctness.                                                        *)

\* What a claim writes: some due row is now the drain's, with one more attempt.
LEMMA ClaimTakes ==
    ASSUME TypeOK, NEW d \in Drain, Claim(d)
    PROVE  \E k \in Key :
             /\ Due(k)
             /\ jobs' = [jobs EXCEPT ![k] = [status   |-> "running",
                                             attempts |-> jobs[k].attempts + 1,
                                             due      |-> FALSE]]
             /\ claim' = [claim EXCEPT ![d] = k]
<1>1. PICK i \in DOMAIN order :
        /\ Due(order[i])
        /\ jobs' = [jobs EXCEPT ![order[i]] = [status   |-> "running",
                                               attempts |-> jobs[order[i]].attempts + 1,
                                               due      |-> FALSE]]
        /\ claim' = [claim EXCEPT ![d] = order[i]]
  BY DEF Claim
<1>2. order[i] \in Key
  BY DEF TypeOK
<1> QED
  BY <1>1, <1>2

\* Every operation of jobs.py and run_pending keeps the tables well formed, and
\* a drain holds a job exactly inside the loop's body.
LEMMA TypeStep == TypeOK /\ [Next]_queueVars => TypeOK'
<1> SUFFICES ASSUME TypeOK, [Next]_queueVars PROVE TypeOK'
  OBVIOUS
<1> USE DEF TypeOK, JobRow, Status
<1>1. ASSUME NEW k \in Key, Enqueue(k) PROVE TypeOK'
  <2>1. CASE jobs[k].status = "none"
    <3>1. jobs' = [jobs EXCEPT ![k] = [status |-> "queued", attempts |-> 0, due |-> TRUE]]
      BY <1>1, <2>1 DEF Enqueue
    <3>2. jobs' \in [Key -> JobRow]
      BY <3>1
    <3>3. order' = Append(order, k)
      BY <1>1, <2>1 DEF Enqueue
    <3>4. order' \in Seq(Key)
      BY <3>3, AppendProperties
    <3> QED
      BY <1>1, <3>2, <3>4 DEF Enqueue
  <2>2. CASE jobs[k].status # "none"
    BY <1>1, <2>2 DEF Enqueue
  <2> QED
    BY <2>1, <2>2
<1>2. ASSUME NEW k \in Key, BackoffElapses(k) PROVE TypeOK'
  BY <1>2 DEF BackoffElapses
<1>3. ASSUME NEW k \in Key, GoesStale(k) PROVE TypeOK'
  BY <1>3 DEF GoesStale
<1>4. ASSUME NEW d \in Drain, Claim(d) PROVE TypeOK'
  <2>1. PICK k \in Key :
          /\ jobs' = [jobs EXCEPT ![k] = [status   |-> "running",
                                          attempts |-> jobs[k].attempts + 1,
                                          due      |-> FALSE]]
          /\ claim' = [claim EXCEPT ![d] = k]
    BY <1>4, ClaimTakes
  <2>2. k # NoJob
    BY NoJobAssumption
  <2>3. jobs' \in [Key -> JobRow]
    BY <2>1
  <2> QED
    BY <1>4, <2>1, <2>2, <2>3 DEF Claim
<1>5. ASSUME NEW d \in Drain, HandlerReturns(d) PROVE TypeOK'
  BY <1>5 DEF HandlerReturns
<1>6. ASSUME NEW d \in Drain, Raise(d) PROVE TypeOK'
  BY <1>6 DEF Raise
<1>7. ASSUME NEW d \in Drain, MarkSucceeded(d) \/ Requeue(d) \/ Bury(d)
      PROVE  TypeOK'
  <2>1. claim[d] \in Key
    BY <1>7 DEF MarkSucceeded, Requeue, Bury
  <2>2. jobs' \in [Key -> JobRow]
    <3>1. PICK st \in {"succeeded", "queued", "dead"} : jobs' = Marked(claim[d], st)
      BY <1>7 DEF MarkSucceeded, Requeue, Bury
    <3> QED
      BY <2>1, <3>1 DEF Marked
  <2> QED
    BY <1>7, <2>1, <2>2 DEF MarkSucceeded, Requeue, Bury, PutDown
<1>8. ASSUME NEW d \in Drain, ReadAttempts(d) PROVE TypeOK'
  <2>1. PICK v \in {"buried", "requeueing", "burying"} : pc' = [pc EXCEPT ![d] = v]
    BY <1>8 DEF ReadAttempts
  <2> QED
    BY <1>8, <2>1 DEF ReadAttempts
<1>10. ASSUME NEW d \in Drain, BuriedAway(d) PROVE TypeOK'
  BY <1>10 DEF BuriedAway, PutDown
<1>11. ASSUME NEW d \in Drain, Crash(d) PROVE TypeOK'
  BY <1>11 DEF Crash, Die
<1>14. ASSUME NEW d \in Drain, Kick(d) PROVE TypeOK'
  BY <1>14 DEF Kick, Up
<1>15. ASSUME NEW d \in Drain, Stop(d) PROVE TypeOK'
  BY <1>15 DEF Stop
<1>12. CASE DeleteOrg
  <2>1. jobs' \in [Key -> JobRow]
    BY <1>12 DEF DeleteOrg, NoRow
  <2>2. order' \in Seq(Key)
    BY <1>12, EmptySeq DEF DeleteOrg
  <2> QED
    BY <1>12, <2>1, <2>2 DEF DeleteOrg
<1>13. CASE UNCHANGED queueVars
  BY <1>13 DEF queueVars
<1> QED
  BY <1>1, <1>2, <1>3, <1>4, <1>5, <1>6, <1>7, <1>8, <1>10, <1>11, <1>12,
     <1>13, <1>14, <1>15 DEF Next, DrainStep

LEMMA TypeInit == Init => TypeOK
<1> SUFFICES ASSUME Init PROVE TypeOK
  OBVIOUS
<1>1. jobs \in [Key -> JobRow] /\ order \in Seq(Key)
  BY DEF Init, JobRow, Status, NoRow
<1>2. orgLive \in BOOLEAN /\ unkicked \in BOOLEAN
  BY DEF Init
<1>3. \A d \in Drain : pc[d] = "off" /\ claim[d] = NoJob
  BY DEF Init
<1> QED
  BY <1>1, <1>2, <1>3 DEF Init, TypeOK

\* The type invariant holds in every reachable state.
THEOREM TypeCorrect == Spec => []TypeOK
  BY TypeInit, TypeStep, PTL DEF Spec

-----------------------------------------------------------------------------
(* Rows go with their org.                                                  *)

\* No operation writes a row that the cascade has removed.
LEMMA DeletedStep ==
    TypeOK /\ DeletedOrgHasNoJobs /\ [Next]_queueVars => DeletedOrgHasNoJobs'
<1> SUFFICES ASSUME TypeOK, DeletedOrgHasNoJobs, [Next]_queueVars,
                    ~orgLive', NEW x \in Key
             PROVE  jobs'[x].status = "none"
  BY DEF DeletedOrgHasNoJobs
<1> USE DEF DeletedOrgHasNoJobs
<1>1. ASSUME NEW k \in Key, Enqueue(k) PROVE jobs'[x].status = "none"
  BY <1>1 DEF Enqueue
<1>2. ASSUME NEW k \in Key, BackoffElapses(k) \/ GoesStale(k)
      PROVE  jobs'[x].status = "none"
  BY <1>2 DEF BackoffElapses, GoesStale
<1>3. ASSUME NEW d \in Drain, Claim(d) PROVE jobs'[x].status = "none"
  BY <1>3 DEF Claim, Due, Waiting, TypeOK
<1>4. ASSUME NEW d \in Drain, MarkSucceeded(d) \/ Requeue(d) \/ Bury(d)
      PROVE  jobs'[x].status = "none"
  <2>1. claim[d] \in Key
    BY <1>4 DEF MarkSucceeded, Requeue, Bury, TypeOK
  <2>2. ~orgLive
    BY <1>4 DEF MarkSucceeded, Requeue, Bury
  <2>3. jobs[claim[d]].status = "none" /\ jobs[x].status = "none"
    BY <2>1, <2>2
  <2>4. jobs' = jobs
    BY <1>4, <2>3 DEF MarkSucceeded, Requeue, Bury, Marked
  <2> QED
    BY <2>3, <2>4
<1>5. ASSUME NEW d \in Drain, Quiet(d) PROVE jobs'[x].status = "none"
  BY <1>5 DEF Quiet, HandlerReturns, Raise, ReadAttempts, BuriedAway, Kick, Stop, Crash, Die
<1>6. CASE DeleteOrg
  BY <1>6 DEF DeleteOrg, NoRow
<1>7. CASE UNCHANGED queueVars
  BY <1>7 DEF queueVars
<1> QED
  BY <1>1, <1>2, <1>3, <1>4, <1>5, <1>6, <1>7 DEF Next, DrainStep, Quiet

\* Once the org is deleted no row of it is ever left, in any state.
THEOREM DeletedOrgStaysEmpty == Spec => []DeletedOrgHasNoJobs
<1>1. Init => DeletedOrgHasNoJobs
  BY DEF Init, DeletedOrgHasNoJobs
<1> QED
  BY <1>1, DeletedStep, TypeCorrect, PTL DEF Spec

-----------------------------------------------------------------------------
(* One holder at a time.                                                    *)

\* What makes a claim exclusive: the row of a job in hand is running and not
\* due, so no claim can take it; a row that is due again has lost its drain.
\* After the org is deleted there is no row, and nothing to take either.
HeldIsRunning ==
    ~SlowHandlers /\ orgLive =>
        \A d \in Drain : Working(d) =>
            jobs[claim[d]].status = "running" /\ ~jobs[claim[d]].due

Exclusion == DeletedOrgHasNoJobs /\ HeldIsRunning /\ ExclusiveClaim

LEMMA HeldStep ==
    TypeOK /\ Exclusion /\ [Next]_queueVars => HeldIsRunning'
<1> SUFFICES ASSUME TypeOK, Exclusion, [Next]_queueVars, ~SlowHandlers, orgLive',
                    NEW w \in Drain, Working(w)'
             PROVE  jobs'[claim'[w]].status = "running" /\ ~jobs'[claim'[w]].due
  BY SlowHandlersAssumption DEF HeldIsRunning
<1> DEFINE Held(x) == jobs[claim[x]].status = "running" /\ ~jobs[claim[x]].due
<1>1. orgLive
  BY DEF Next, DrainStep, Enqueue, Claim, HandlerReturns, Raise, ReadAttempts,
         MarkSucceeded, Requeue, Bury, BuriedAway, Kick, Stop, Crash, Die, BackoffElapses, GoesStale, DeleteOrg,
         queueVars
<1>2. \A x \in Drain : Working(x) => Held(x) /\ claim[x] \in Key
  BY <1>1 DEF Exclusion, HeldIsRunning, TypeOK, Working
<1>3. \A x, y \in Drain : Working(x) /\ Working(y) /\ claim[x] = claim[y] => x = y
  BY DEF Exclusion, ExclusiveClaim
<1>4. ASSUME NEW k \in Key, Enqueue(k)
      PROVE  jobs'[claim'[w]].status = "running" /\ ~jobs'[claim'[w]].due
  BY <1>2, <1>4 DEF Enqueue, Working, TypeOK
<1>5. ASSUME NEW k \in Key, BackoffElapses(k)
      PROVE  jobs'[claim'[w]].status = "running" /\ ~jobs'[claim'[w]].due
  <2>1. claim[w] # k
    BY <1>2, <1>5 DEF BackoffElapses, Working
  <2> QED
    BY <1>2, <1>5, <2>1 DEF BackoffElapses, Working, TypeOK
<1>6. ASSUME NEW k \in Key, GoesStale(k)
      PROVE  jobs'[claim'[w]].status = "running" /\ ~jobs'[claim'[w]].due
  <2>1. claim[w] # k
    BY <1>6 DEF GoesStale, Working
  <2> QED
    BY <1>2, <1>6, <2>1 DEF GoesStale, Working, TypeOK
<1>7. ASSUME NEW d \in Drain, Claim(d)
      PROVE  jobs'[claim'[w]].status = "running" /\ ~jobs'[claim'[w]].due
  <2>1. PICK k \in Key :
          /\ Due(k)
          /\ jobs' = [jobs EXCEPT ![k] = [status   |-> "running",
                                          attempts |-> jobs[k].attempts + 1,
                                          due      |-> FALSE]]
          /\ claim' = [claim EXCEPT ![d] = k]
    BY <1>7, ClaimTakes
  <2>2. CASE w = d
    BY <2>1, <2>2 DEF TypeOK
  <2>3. CASE w # d
    <3>1. Working(w) /\ claim'[w] = claim[w]
      BY <1>7, <2>1, <2>3 DEF Claim, Working, TypeOK
    <3>2. claim[w] # k
      BY <1>2, <2>1, <3>1 DEF Due
    <3> QED
      BY <1>2, <2>1, <3>1, <3>2 DEF TypeOK
  <2> QED
    BY <2>2, <2>3
<1>8. ASSUME NEW d \in Drain, MarkSucceeded(d) \/ Requeue(d) \/ Bury(d)
      PROVE  jobs'[claim'[w]].status = "running" /\ ~jobs'[claim'[w]].due
  <2>1. Working(d) /\ w # d /\ Working(w) /\ claim'[w] = claim[w]
    BY <1>8 DEF MarkSucceeded, Requeue, Bury, PutDown, Working, TypeOK
  <2>2. claim[w] # claim[d]
    BY <1>3, <2>1
  <2>3. jobs'[claim[w]] = jobs[claim[w]]
    BY <1>2, <1>8, <2>1, <2>2 DEF MarkSucceeded, Requeue, Bury, Marked, TypeOK
  <2> QED
    BY <1>2, <2>1, <2>3
<1>9. ASSUME NEW d \in Drain, Quiet(d) PROVE jobs'[claim'[w]].status = "running" /\ ~jobs'[claim'[w]].due
  <2>1. Working(w) /\ claim'[w] = claim[w] /\ jobs' = jobs
    BY <1>9 DEF Quiet, HandlerReturns, Raise, ReadAttempts, BuriedAway, Kick, Stop, Crash, Die, PutDown, Working, TypeOK
  <2> QED
    BY <1>2, <2>1
<1>10. CASE UNCHANGED queueVars
  BY <1>2, <1>10 DEF queueVars, Working
<1> QED
  BY <1>4, <1>5, <1>6, <1>7, <1>8, <1>9, <1>10 DEF Next, DrainStep, DeleteOrg, Quiet

LEMMA ExclusiveStep ==
    TypeOK /\ Exclusion /\ [Next]_queueVars => ExclusiveClaim'
<1> SUFFICES ASSUME TypeOK, Exclusion, [Next]_queueVars, ~SlowHandlers,
                    NEW v \in Drain, NEW w \in Drain,
                    Working(v)', Working(w)', claim'[v] = claim'[w]
             PROVE  v = w
  BY DEF ExclusiveClaim
<1>1. \A x, y \in Drain : Working(x) /\ Working(y) /\ claim[x] = claim[y] => x = y
  BY DEF Exclusion, ExclusiveClaim
<1>2. ASSUME NEW d \in Drain, Claim(d) PROVE v = w
  <2>1. PICK k \in Key : Due(k) /\ claim' = [claim EXCEPT ![d] = k]
    BY <1>2, ClaimTakes
  <2>2. orgLive
    BY <2>1 DEF Exclusion, DeletedOrgHasNoJobs, Due, Waiting
  <2>3. \A x \in Drain : Working(x) => claim[x] # k
    BY <2>1, <2>2 DEF Exclusion, HeldIsRunning, Due
  <2>4. \A x \in Drain : Working(x)' /\ x # d => Working(x) /\ claim'[x] = claim[x]
    BY <1>2, <2>1 DEF Claim, Working, TypeOK
  <2>5. claim'[d] = k
    BY <2>1 DEF TypeOK
  <2> QED
    BY <1>1, <2>3, <2>4, <2>5
<1>3. ASSUME \A x \in Drain : Working(x)' => Working(x) /\ claim'[x] = claim[x]
      PROVE  v = w
  BY <1>1, <1>3
<1>4. ASSUME NEW k \in Key, Enqueue(k) \/ BackoffElapses(k) \/ GoesStale(k)
      PROVE  v = w
  BY <1>1, <1>4 DEF Enqueue, BackoffElapses, GoesStale, Working
<1>5. ASSUME NEW d \in Drain,
             Quiet(d) \/ MarkSucceeded(d) \/ Requeue(d) \/ Bury(d)
      PROVE  v = w
  <2>1. \A x \in Drain : Working(x)' => Working(x) /\ claim'[x] = claim[x]
    BY <1>5 DEF Quiet, HandlerReturns, Raise, ReadAttempts, MarkSucceeded, Requeue,
                Bury, BuriedAway, Kick, Stop, Crash, Die, PutDown, Working, TypeOK
  <2> QED
    BY <1>3, <2>1
<1>6. CASE DeleteOrg
  BY <1>1, <1>6 DEF DeleteOrg, Working
<1>7. CASE UNCHANGED queueVars
  BY <1>1, <1>7 DEF queueVars, Working
<1> QED
  BY <1>2, <1>4, <1>5, <1>6, <1>7 DEF Next, DrainStep, Quiet

LEMMA ExclusionHolds == Spec => []Exclusion
<1>1. Init => Exclusion
  BY DEF Init, Exclusion, DeletedOrgHasNoJobs, HeldIsRunning, ExclusiveClaim, Working
<1>2. TypeOK /\ Exclusion /\ [Next]_queueVars => Exclusion'
  BY DeletedStep, HeldStep, ExclusiveStep DEF Exclusion
<1> QED
  BY <1>1, <1>2, TypeCorrect, PTL DEF Spec

\* No job is ever in the hands of two drains, if handlers end before their
\* claim goes stale.
THEOREM ClaimsAreExclusive == Spec => []ExclusiveClaim
<1>1. Exclusion => ExclusiveClaim
  BY DEF Exclusion
<1> QED
  BY <1>1, ExclusionHolds, PTL

\* Under the same condition a job that is over never changes again: neither a
\* late mark nor a late claim can reach it.
THEOREM OverIsOver == Spec => TerminalIsFinal
<1>1. TypeOK /\ Exclusion /\ [Next]_queueVars =>
        [~SlowHandlers => \A k \in Key :
            Terminal(k) /\ orgLive' => jobs'[k] = jobs[k]]_queueVars
  <2> SUFFICES ASSUME TypeOK, Exclusion, Next, ~SlowHandlers,
                      NEW x \in Key, Terminal(x), orgLive'
               PROVE  jobs'[x] = jobs[x]
    OBVIOUS
  <2>1. ASSUME NEW k \in Key, Enqueue(k) \/ BackoffElapses(k) \/ GoesStale(k)
        PROVE  jobs'[x] = jobs[x]
    BY <2>1 DEF Enqueue, BackoffElapses, GoesStale, Terminal, TypeOK
  <2>2. ASSUME NEW d \in Drain, Claim(d) PROVE jobs'[x] = jobs[x]
    <3>1. PICK k \in Key :
            /\ Due(k)
            /\ jobs' = [jobs EXCEPT ![k] = [status   |-> "running",
                                            attempts |-> jobs[k].attempts + 1,
                                            due      |-> FALSE]]
      BY <2>2, ClaimTakes
    <3>2. k # x
      BY <3>1 DEF Due, Waiting, Terminal
    <3> QED
      BY <3>1, <3>2 DEF TypeOK
  <2>3. ASSUME NEW d \in Drain, MarkSucceeded(d) \/ Requeue(d) \/ Bury(d)
        PROVE  jobs'[x] = jobs[x]
    <3>1. Working(d) /\ orgLive /\ claim[d] \in Key
      BY <2>3 DEF MarkSucceeded, Requeue, Bury, Working, TypeOK
    <3>2. jobs[claim[d]].status = "running"
      BY <3>1 DEF Exclusion, HeldIsRunning
    <3>3. claim[d] # x
      BY <3>2 DEF Terminal
    <3> QED
      BY <2>3, <3>1, <3>3 DEF MarkSucceeded, Requeue, Bury, Marked, TypeOK
  <2>4. ASSUME NEW d \in Drain, Quiet(d) PROVE jobs'[x] = jobs[x]
    BY <2>4 DEF Quiet, HandlerReturns, Raise, ReadAttempts, BuriedAway, Kick, Stop, Crash, Die
  <2> QED
    BY <2>1, <2>2, <2>3, <2>4 DEF Next, DrainStep, DeleteOrg, Quiet
<1> QED
  BY <1>1, TypeCorrect, ExclusionHolds, PTL DEF Spec, TerminalIsFinal

-----------------------------------------------------------------------------
(* The retry budget.                                                        *)

\* What mark_failed has read is still so when it writes: the row of a drain that
\* is burying has spent its attempts, and nobody else claims the row of one that
\* is requeueing.
Verdicts ==
    /\ \A k \in Key : jobs[k].status = "none" => jobs[k].attempts = 0
    /\ orgLive => \A d \in Drain :
         /\ pc[d] = "burying" => jobs[claim[d]].attempts >= MaxAttempts
         /\ pc[d] = "requeueing" /\ ~SlowHandlers => jobs[claim[d]].attempts < MaxAttempts

Budget == Verdicts /\ RetryBudget

LEMMA BudgetStep ==
    TypeOK /\ Exclusion /\ Budget /\ [Next]_queueVars => Budget'
<1> SUFFICES ASSUME TypeOK, Exclusion, Budget, [Next]_queueVars PROVE Budget'
  OBVIOUS
<1> USE DEF Budget, Verdicts, RetryBudget
<1>1. ASSUME NEW k \in Key, Enqueue(k) PROVE Budget'
  <2>1. ASSUME NEW d \in Drain,
               pc[d] = "burying" \/ (pc[d] = "requeueing" /\ ~SlowHandlers)
        PROVE  claim[d] \in Key /\ jobs[claim[d]].status # "none"
    <3>1. claim[d] \in Key /\ jobs[claim[d]].attempts \in Nat
      BY <2>1 DEF TypeOK, JobRow
    <3>2. CASE pc[d] = "burying"
      BY <1>1, <3>1, <3>2, MaxAttemptsAssumption DEF Enqueue
    <3>3. CASE pc[d] = "requeueing" /\ ~SlowHandlers
      BY <1>1, <3>1, <3>3 DEF Enqueue, Exclusion, HeldIsRunning, Working
    <3> QED
      BY <2>1, <3>2, <3>3
  <2>2. \A j \in Key : jobs[j].status # "none" => jobs'[j] = jobs[j]
    BY <1>1 DEF Enqueue, TypeOK
  <2>3. \A j \in Key : jobs'[j] = jobs[j] \/ (jobs'[j].status = "queued" /\ jobs'[j].attempts = 0)
    BY <1>1 DEF Enqueue, TypeOK
  <2>4. Verdicts'
    BY <1>1, <2>1, <2>2, <2>3 DEF Enqueue
  <2>5. RetryBudget'
    BY <2>3, MaxAttemptsAssumption
  <2> QED
    BY <2>4, <2>5
<1>2. ASSUME UNCHANGED <<pc, claim, orgLive>>,
             \A k \in Key : /\ jobs'[k].status = jobs[k].status
                            /\ jobs'[k].attempts = jobs[k].attempts
      PROVE  Budget'
  BY <1>2 DEF TypeOK
<1>3. ASSUME NEW k \in Key, BackoffElapses(k) \/ GoesStale(k) PROVE Budget'
  <2>1. \A j \in Key : /\ jobs'[j].status = jobs[j].status
                       /\ jobs'[j].attempts = jobs[j].attempts
    <3>1. jobs' = [jobs EXCEPT ![k].due = TRUE]
      BY <1>3 DEF BackoffElapses, GoesStale
    <3> QED
      BY <3>1 DEF TypeOK, JobRow
  <2> QED
    BY <1>2, <1>3, <2>1 DEF BackoffElapses, GoesStale
<1>4. ASSUME NEW d \in Drain, Claim(d) PROVE Budget'
  <2>1. PICK k \in Key :
          /\ Due(k)
          /\ jobs' = [jobs EXCEPT ![k] = [status   |-> "running",
                                          attempts |-> jobs[k].attempts + 1,
                                          due      |-> FALSE]]
          /\ claim' = [claim EXCEPT ![d] = k]
    BY <1>4, ClaimTakes
  <2>2. /\ jobs'[k].status = "running" /\ jobs'[k].attempts = jobs[k].attempts + 1
        /\ \A j \in Key \ {k} : jobs'[j] = jobs[j]
        /\ jobs[k].attempts \in Nat
    BY <2>1 DEF TypeOK, JobRow
  <2>3. RetryBudget' /\ \A j \in Key : jobs'[j].status = "none" => jobs'[j].attempts = 0
    BY <2>2
  <2>4. ASSUME NEW e \in Drain, orgLive, pc'[e] \in {"burying", "requeueing"}
        PROVE  /\ pc[e] = pc'[e] /\ claim'[e] = claim[e] /\ claim[e] \in Key
               /\ pc[e] = "requeueing" /\ ~SlowHandlers => claim[e] # k
    <3>1. e # d
      BY <1>4, <2>4 DEF Claim, TypeOK
    <3>2. pc[e] = pc'[e] /\ claim'[e] = claim[e] /\ claim[e] \in Key
      BY <1>4, <2>1, <2>4, <3>1 DEF Claim, TypeOK
    <3>3. ASSUME pc[e] = "requeueing", ~SlowHandlers PROVE claim[e] # k
      BY <2>1, <2>4, <3>3 DEF Exclusion, HeldIsRunning, Working, Due
    <3> QED
      BY <3>2, <3>3
  <2>5. orgLive' = orgLive
    BY <1>4 DEF Claim
  <2>6. ASSUME NEW e \in Drain, orgLive, pc'[e] = "burying"
        PROVE  jobs'[claim'[e]].attempts >= MaxAttempts
    <3>1. claim'[e] = claim[e] /\ claim[e] \in Key /\ jobs[claim[e]].attempts >= MaxAttempts
      BY <2>4, <2>6
    <3> QED
      BY <2>2, <3>1, MaxAttemptsAssumption
  <2>7. ASSUME NEW e \in Drain, orgLive, pc'[e] = "requeueing", ~SlowHandlers
        PROVE  jobs'[claim'[e]].attempts < MaxAttempts
    BY <2>2, <2>4, <2>7
  <2> QED
    BY <2>3, <2>5, <2>6, <2>7
<1>5. ASSUME NEW d \in Drain, MarkSucceeded(d) \/ Requeue(d) \/ Bury(d) PROVE Budget'
  <2>1. claim[d] \in Key
    BY <1>5 DEF MarkSucceeded, Requeue, Bury, TypeOK
  <2>2. PICK s \in {"succeeded", "queued", "dead"} :
          /\ jobs' = Marked(claim[d], s)
          /\ s = "queued" => pc[d] = "requeueing"
          /\ s = "dead" => pc[d] = "burying"
    BY <1>5 DEF MarkSucceeded, Requeue, Bury
  <2>3. jobs[claim[d]].status # "none" => orgLive
    BY <2>1 DEF Exclusion, DeletedOrgHasNoJobs
  <2>4. /\ \A j \in Key : jobs'[j].attempts = jobs[j].attempts
        /\ \A j \in Key \ {claim[d]} : jobs'[j] = jobs[j]
        /\ jobs'[claim[d]].status = IF jobs[claim[d]].status = "none" THEN "none" ELSE s
    BY <2>1, <2>2 DEF Marked, TypeOK, JobRow
  <2>5. RetryBudget'
    BY <2>1, <2>2, <2>3, <2>4
  <2>6. /\ orgLive' = orgLive
        /\ \A e \in Drain : pc'[e] \in {"burying", "requeueing"} =>
             pc'[e] = pc[e] /\ claim'[e] = claim[e] /\ claim[e] \in Key
    BY <1>5 DEF MarkSucceeded, Requeue, Bury, PutDown, TypeOK
  <2>7. Verdicts'
    BY <2>1, <2>2, <2>4, <2>6
  <2> QED
    BY <2>5, <2>7
<1>6. ASSUME NEW d \in Drain, ReadAttempts(d) PROVE Budget'
  <2>1. claim[d] \in Key /\ jobs[claim[d]].attempts \in Nat
    BY <1>6 DEF ReadAttempts, TypeOK, JobRow
  <2>2. /\ pc'[d] = "burying" => jobs[claim[d]].attempts >= MaxAttempts
        /\ pc'[d] = "requeueing" => jobs[claim[d]].attempts < MaxAttempts
    BY <1>6, <2>1, MaxAttemptsAssumption DEF ReadAttempts, TypeOK
  <2> QED
    BY <1>6, <2>2 DEF ReadAttempts, TypeOK
<1>7. ASSUME NEW d \in Drain, HandlerReturns(d) \/ Raise(d) \/ BuriedAway(d)
               \/ Kick(d) \/ Stop(d) \/ Crash(d)
      PROVE  Budget'
  <2>1. /\ UNCHANGED <<jobs, orgLive>>
        /\ \A e \in Drain : pc'[e] \in {"burying", "requeueing"} =>
             pc'[e] = pc[e] /\ claim'[e] = claim[e]
    BY <1>7 DEF HandlerReturns, Raise, BuriedAway, Kick, Stop, Crash, Die, PutDown, TypeOK
  <2> QED
    BY <2>1
<1>8. CASE DeleteOrg
  BY <1>8 DEF DeleteOrg, NoRow
<1>9. CASE UNCHANGED queueVars
  BY <1>9 DEF queueVars
<1> QED
  BY <1>1, <1>3, <1>4, <1>5, <1>6, <1>7, <1>8, <1>9 DEF Next, DrainStep

\* A dead job has used all its attempts, and a queued one has some left, for any
\* number of drains that crash, reclaim and mark in any order.
THEOREM BudgetIsKept == Spec => []RetryBudget
<1>1. Init => Budget
  <2> SUFFICES ASSUME Init PROVE Budget
    OBVIOUS
  <2>1. \A k \in Key : jobs[k].status = "none" /\ jobs[k].attempts = 0
    BY DEF Init, NoRow
  <2>2. \A d \in Drain : pc[d] = "off"
    BY DEF Init
  <2> QED
    BY <2>1, <2>2 DEF Budget, Verdicts, RetryBudget
<1>2. Budget => RetryBudget
  BY DEF Budget
<1> QED
  BY <1>1, <1>2, BudgetStep, TypeCorrect, ExclusionHolds, PTL DEF Spec

-----------------------------------------------------------------------------
(* The queue keeps its promise.                                             *)

\* While the org lives, a drain with a job in hand is its only holder.
LEMMA OneHolder ==
    ASSUME ~SlowHandlers, TypeOK, Exclusion, orgLive, NEW d \in Drain, Working(d)
    PROVE  /\ claim[d] \in Key
           /\ jobs[claim[d]].status = "running"
           /\ HeldBy(claim[d]) = {d}
<1>1. claim[d] \in Key
  BY DEF TypeOK, Working
<1>2. jobs[claim[d]].status = "running"
  BY DEF Exclusion, HeldIsRunning
<1>3. \A e \in Drain : Working(e) /\ claim[e] = claim[d] => e = d
  BY DEF Exclusion, ExclusiveClaim
<1> QED
  BY <1>1, <1>2, <1>3 DEF HeldBy

LEMMA InitKeepsPromise == Init => Promise!Init
  BY DEF Init, Promise!Init, NoRow, HeldBy, Working

\* A step that moves neither a status nor a job in hand stutters.
LEMMA Stutter ==
    ASSUME orgLive' = orgLive,
           \A k \in Key : jobs'[k].status = jobs[k].status /\ HeldBy(k)' = HeldBy(k)
    PROVE  UNCHANGED Promise!vars
  BY DEF Promise!vars

\* mark_succeeded and mark_failed on a row that is there: its one holder
\* settles the job.
LEMMA MarkSettles ==
    ASSUME ~SlowHandlers, TypeOK, Exclusion, orgLive, UNCHANGED orgLive,
           NEW d \in Drain, Working(d), NEW s \in {"succeeded", "queued", "dead"},
           jobs' = [jobs EXCEPT ![claim[d]].status = s, ![claim[d]].due = FALSE],
           ~Working(d)',
           \A e \in Drain \ {d} : pc'[e] = pc[e] /\ claim'[e] = claim[e]
    PROVE  \E k \in Key, w \in Drain : Promise!Settle(k, w)
<1> PICK k \in Key : k = claim[d]
  BY OneHolder
<1>1. jobs[k].status = "running" /\ HeldBy(k) = {d}
  BY OneHolder
<1>2. \A j \in Key : jobs'[j].status = IF j = k THEN s ELSE jobs[j].status
  BY <1>1 DEF TypeOK, JobRow
<1>3. HeldBy(k)' = {}
  BY <1>1, <1>2 DEF HeldBy
<1>4. ASSUME NEW j \in Key, j # k PROVE HeldBy(j)' = HeldBy(j)
  BY <1>1, <1>2, <1>4 DEF HeldBy, Working
<1>5. [j \in Key |-> jobs[j].status]' = [[j \in Key |-> jobs[j].status] EXCEPT ![k] = s]
  BY <1>2
<1>6. [j \in Key |-> HeldBy(j)]' = [[j \in Key |-> HeldBy(j)] EXCEPT ![k] = {}]
  BY <1>3, <1>4
<1>7. Promise!Settle(k, d)
  BY <1>1, <1>5, <1>6 DEF Promise!Settle
<1> QED
  BY <1>7

LEMMA StepKeepsPromise ==
    ASSUME ~SlowHandlers, TypeOK, TypeOK', Exclusion, Exclusion', [Next]_queueVars
    PROVE  [Promise!Next]_(Promise!vars)
<1> USE DEF Promise!Next
<1>1. ASSUME NEW k \in Key, Enqueue(k) PROVE [Promise!Next]_(Promise!vars)
  <2>1. \A j \in Key : HeldBy(j)' = HeldBy(j)
    BY <1>1 DEF Enqueue, HeldBy, Working, TypeOK
  <2>2. CASE jobs[k].status = "none"
    <3>1. \A j \in Key : jobs'[j].status = IF j = k THEN "queued" ELSE jobs[j].status
      BY <1>1, <2>2 DEF Enqueue, TypeOK
    <3>2. Promise!Submit(k)
      BY <1>1, <2>1, <2>2, <3>1 DEF Promise!Submit, Enqueue
    <3> QED
      BY <3>2
  <2>3. CASE jobs[k].status # "none"
    BY <1>1, <2>1, <2>3, Stutter DEF Enqueue
  <2> QED
    BY <2>2, <2>3
<1>2. ASSUME NEW k \in Key, BackoffElapses(k) \/ GoesStale(k)
      PROVE  [Promise!Next]_(Promise!vars)
  <2>1. \A j \in Key : jobs'[j].status = jobs[j].status
    BY <1>2 DEF BackoffElapses, GoesStale, TypeOK, JobRow
  <2>2. \A j \in Key : HeldBy(j)' = HeldBy(j)
    BY <1>2, <2>1 DEF BackoffElapses, GoesStale, HeldBy, Working
  <2> QED
    BY <1>2, <2>1, <2>2, Stutter DEF BackoffElapses, GoesStale
<1>3. ASSUME NEW d \in Drain, Claim(d) PROVE [Promise!Next]_(Promise!vars)
  <2>1. PICK k \in Key :
          /\ Due(k)
          /\ jobs' = [jobs EXCEPT ![k] = [status   |-> "running",
                                          attempts |-> jobs[k].attempts + 1,
                                          due      |-> FALSE]]
          /\ claim' = [claim EXCEPT ![d] = k]
    BY <1>3, ClaimTakes
  <2>2. orgLive
    BY <2>1 DEF Exclusion, DeletedOrgHasNoJobs, Due, Waiting
  <2>3. HeldBy(k) = {}
    BY <2>1, <2>2 DEF Exclusion, HeldIsRunning, HeldBy, Due
  <2>4. \A j \in Key : jobs'[j].status = IF j = k THEN "running" ELSE jobs[j].status
    BY <2>1 DEF TypeOK
  <2>5. HeldBy(k)' = {d}
    <3>1. \A e \in Drain \ {d} : pc'[e] = pc[e] /\ claim'[e] = claim[e]
      BY <1>3, <2>1 DEF Claim, TypeOK
    <3>2. \A e \in Drain \ {d} : Working(e) => claim[e] # k
      BY <2>1, <2>2 DEF Exclusion, HeldIsRunning, Due
    <3>3. pc'[d] = "running" /\ claim'[d] = k
      BY <1>3, <2>1 DEF Claim, TypeOK
    <3> QED
      BY <2>4, <3>1, <3>2, <3>3 DEF HeldBy, Working
  <2>6. ASSUME NEW j \in Key, j # k PROVE HeldBy(j)' = HeldBy(j)
    BY <1>3, <2>1, <2>4, <2>6 DEF Claim, HeldBy, Working, TypeOK
  <2>7. [j \in Key |-> jobs[j].status]'
          = [[j \in Key |-> jobs[j].status] EXCEPT ![k] = "running"]
    BY <2>4
  <2>8. [j \in Key |-> HeldBy(j)]' = [[j \in Key |-> HeldBy(j)] EXCEPT ![k] = {d}]
    BY <2>5, <2>6
  <2>9. jobs[k].status \in {"queued", "running"} /\ UNCHANGED orgLive
    BY <1>3, <2>1 DEF Claim, Due, Waiting
  <2>10. Promise!HandOut(k, d)
    BY <2>3, <2>7, <2>8, <2>9 DEF Promise!HandOut
  <2> QED
    BY <2>10
<1>4. ASSUME NEW d \in Drain, HandlerReturns(d) \/ Raise(d)
      PROVE  [Promise!Next]_(Promise!vars)
  <2>1. \A j \in Key : HeldBy(j)' = HeldBy(j)
    BY <1>4 DEF HandlerReturns, Raise, HeldBy, Working, TypeOK
  <2> QED
    BY <1>4, <2>1, Stutter DEF HandlerReturns, Raise
<1>11. ASSUME NEW d \in Drain, ReadAttempts(d) PROVE [Promise!Next]_(Promise!vars)
  <2>1. \A j \in Key : HeldBy(j)' = HeldBy(j)
    <3>1. CASE jobs[claim[d]].status = "none"
      BY <1>11, <3>1 DEF ReadAttempts, HeldBy, Working, TypeOK
    <3>2. CASE jobs[claim[d]].status # "none"
      <4>1. pc'[d] \in {"requeueing", "burying"} /\ pc[d] = "failing"
        BY <1>11, <3>2 DEF ReadAttempts, TypeOK
      <4> QED
        BY <1>11, <4>1 DEF ReadAttempts, HeldBy, Working, TypeOK
    <3> QED
      BY <3>1, <3>2
  <2> QED
    BY <1>11, <2>1, Stutter DEF ReadAttempts
<1>5. ASSUME NEW d \in Drain, MarkSucceeded(d) \/ Requeue(d) \/ Bury(d), orgLive
      PROVE  [Promise!Next]_(Promise!vars)
  <2>1. Working(d) /\ claim[d] \in Key /\ jobs[claim[d]].status = "running"
    BY <1>5, OneHolder DEF MarkSucceeded, Requeue, Bury, Working
  <2>2. PICK s \in {"succeeded", "queued", "dead"} :
          jobs' = [jobs EXCEPT ![claim[d]].status = s, ![claim[d]].due = FALSE]
    BY <1>5, <2>1 DEF MarkSucceeded, Requeue, Bury, Marked
  <2>3. /\ ~Working(d)'
        /\ \A e \in Drain \ {d} : pc'[e] = pc[e] /\ claim'[e] = claim[e]
    BY <1>5 DEF MarkSucceeded, Requeue, Bury, PutDown, Working, TypeOK
  <2>4. UNCHANGED orgLive
    BY <1>5 DEF MarkSucceeded, Requeue, Bury
  <2>5. \E k \in Key, w \in Drain : Promise!Settle(k, w)
    BY <1>5, <2>1, <2>2, <2>3, <2>4, MarkSettles
  <2> QED
    BY <2>5
<1>6. ASSUME NEW d \in Drain, MarkSucceeded(d) \/ Requeue(d) \/ Bury(d), ~orgLive
      PROVE  [Promise!Next]_(Promise!vars)
  <2>1. claim[d] \in Key
    BY <1>6 DEF MarkSucceeded, Requeue, Bury, TypeOK
  <2>2. \A k \in Key : jobs[k].status = "none"
    BY <1>6 DEF Exclusion, DeletedOrgHasNoJobs
  <2>3. jobs' = jobs /\ orgLive' = orgLive
    BY <1>6, <2>1, <2>2 DEF MarkSucceeded, Requeue, Bury, Marked
  <2>4. \A j \in Key : HeldBy(j)' = HeldBy(j)
    BY <2>2, <2>3 DEF HeldBy
  <2> QED
    BY <2>3, <2>4, Stutter
<1>7. ASSUME NEW d \in Drain, BuriedAway(d) PROVE [Promise!Next]_(Promise!vars)
  <2>1. \A j \in Key : HeldBy(j)' = HeldBy(j)
    BY <1>7 DEF BuriedAway, PutDown, HeldBy, Working, TypeOK
  <2> QED
    BY <1>7, <2>1, Stutter DEF BuriedAway
<1>8. ASSUME NEW d \in Drain, Crash(d) PROVE [Promise!Next]_(Promise!vars)
  <2>1. /\ ~Working(d)' /\ UNCHANGED <<jobs, orgLive>>
        /\ \A e \in Drain \ {d} : Working(e)' = Working(e) /\ claim'[e] = claim[e]
    BY <1>8 DEF Crash, Die, Working, TypeOK
  <2>2. CASE Working(d) /\ orgLive
    <3> PICK k \in Key : k = claim[d]
      BY <2>2, OneHolder
    <3>1. HeldBy(k) = {d}
      BY <2>2, OneHolder
    <3>2. HeldBy(k)' = {}
      BY <2>1, <3>1 DEF HeldBy
    <3>3. ASSUME NEW j \in Key, j # k PROVE HeldBy(j)' = HeldBy(j)
      BY <2>1, <3>3 DEF HeldBy
    <3>4. Promise!Lose(k, d)
      BY <2>1, <3>1, <3>2, <3>3 DEF Promise!Lose
    <3> QED
      BY <3>4
  <2>3. CASE ~(Working(d) /\ orgLive)
    <3>1. \A j \in Key : HeldBy(j)' = HeldBy(j)
      BY <2>1, <2>3 DEF HeldBy, Exclusion, DeletedOrgHasNoJobs
    <3> QED
      BY <2>1, <3>1, Stutter
  <2> QED
    BY <2>2, <2>3
<1>12. ASSUME NEW d \in Drain, Kick(d) \/ Stop(d) PROVE [Promise!Next]_(Promise!vars)
  <2>1. \A j \in Key : HeldBy(j)' = HeldBy(j)
    BY <1>12 DEF Kick, Stop, Up, HeldBy, Working, TypeOK
  <2> QED
    BY <1>12, <2>1, Stutter DEF Kick, Stop
<1>9. CASE DeleteOrg
  <2>1. \A k \in Key : jobs'[k].status = "none" /\ HeldBy(k)' = {}
    BY <1>9 DEF DeleteOrg, NoRow, HeldBy
  <2>2. Promise!Close
    BY <1>9, <2>1 DEF Promise!Close, DeleteOrg
  <2> QED
    BY <2>2
<1>10. CASE UNCHANGED queueVars
  BY <1>10 DEF queueVars, Promise!vars, HeldBy, Working
<1> QED
  BY <1>1, <1>2, <1>3, <1>4, <1>5, <1>6, <1>7, <1>8, <1>9, <1>10, <1>11, <1>12
     DEF Next, DrainStep

\* For any keys and drains: a job is handed to one drain at a time and settled
\* only by it, through crashes, reclaims and retries, if handlers end before
\* their claim goes stale.
THEOREM QueueKeepsPromise == ASSUME ~SlowHandlers PROVE Spec => KeepsPromise
<1>1. TypeOK /\ TypeOK' /\ Exclusion /\ Exclusion' /\ [Next]_queueVars
        => [Promise!Next]_(Promise!vars)
  BY StepKeepsPromise
<1> QED
  BY <1>1, InitKeepsPromise, TypeCorrect, ExclusionHolds, PTL
     DEF Spec, KeepsPromise, Promise!Spec
=============================================================================
