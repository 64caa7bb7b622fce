---------------------------- MODULE AtLeastOnce -----------------------------
(***************************************************************************)
(* What a job queue promises, without a table, a clock or a lock: a job is  *)
(* handed to one worker at a time, again and again if need be, until the    *)
(* worker that holds it settles it for good.                                *)
(***************************************************************************)
CONSTANTS Job, Worker

VARIABLES
    open,       \* does the queue still take jobs?
    stage,      \* where each job stands
    holders     \* the workers that have each job in hand

vars == <<open, stage, holders>>

Init ==
    /\ open = TRUE
    /\ stage = [j \in Job |-> "none"]
    /\ holders = [j \in Job |-> {}]

Submit(j) ==
    /\ open
    /\ stage[j] = "none"
    /\ stage' = [stage EXCEPT ![j] = "queued"]
    /\ UNCHANGED <<open, holders>>

\* A job nobody holds is handed out, for the first time or once more.
HandOut(j, w) ==
    /\ stage[j] \in {"queued", "running"}
    /\ holders[j] = {}
    /\ stage' = [stage EXCEPT ![j] = "running"]
    /\ holders' = [holders EXCEPT ![j] = {w}]
    /\ UNCHANGED open

\* Its holder says it is done, wants another attempt, or gives up.
Settle(j, w) ==
    /\ stage[j] = "running"
    /\ holders[j] = {w}
    /\ \E s \in {"succeeded", "queued", "dead"} : stage' = [stage EXCEPT ![j] = s]
    /\ holders' = [holders EXCEPT ![j] = {}]
    /\ UNCHANGED open

\* Its holder is gone and the job is nobody's.
Lose(j, w) ==
    /\ holders[j] = {w}
    /\ holders' = [holders EXCEPT ![j] = {}]
    /\ UNCHANGED <<open, stage>>

\* The queue is closed and everything in it dropped.
Close ==
    /\ open
    /\ open' = FALSE
    /\ stage' = [j \in Job |-> "none"]
    /\ holders' = [j \in Job |-> {}]

Next ==
    \/ \E j \in Job : Submit(j)
    \/ \E j \in Job, w \in Worker : HandOut(j, w) \/ Settle(j, w) \/ Lose(j, w)
    \/ Close

Spec == Init /\ [][Next]_vars
=============================================================================
