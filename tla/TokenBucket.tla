---------------------------- MODULE TokenBucket ----------------------------
(***************************************************************************)
(* What a rate limiter promises: every key has a bucket of Burst tokens, a  *)
(* call takes a whole token in one step or is refused because there is     *)
(* none, and time puts tokens back.  No bucket is ever forgotten.  Tokens   *)
(* are counted in sixtieths, so a second is worth PerMin of them.           *)
(***************************************************************************)
EXTENDS Integers

CONSTANTS Key, Call, Burst, PerMin

VARIABLES
    level,      \* sixtieths of a token in each bucket
    verdict     \* what each call has been told

Full == 60 * Burst
Lesser(a, b) == IF a <= b THEN a ELSE b

Init ==
    /\ level = [k \in Key |-> Full]
    /\ verdict = [c \in Call |-> "none"]

Ask(c, k) ==
    /\ verdict[c] = "none"
    /\ IF level[k] >= 60
       THEN /\ level' = [level EXCEPT ![k] = @ - 60]
            /\ verdict' = [verdict EXCEPT ![c] = "allowed"]
       ELSE /\ verdict' = [verdict EXCEPT ![c] = "refused"]
            /\ UNCHANGED level

Done(c) ==
    /\ verdict[c] # "none"
    /\ verdict' = [verdict EXCEPT ![c] = "none"]
    /\ UNCHANGED level

Refill ==
    /\ level' = [k \in Key |-> Lesser(Full, level[k] + PerMin)]
    /\ UNCHANGED verdict

Next ==
    \/ \E c \in Call, k \in Key : Ask(c, k)
    \/ \E c \in Call : Done(c)
    \/ Refill
=============================================================================
