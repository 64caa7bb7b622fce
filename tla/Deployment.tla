----------------------------- MODULE Deployment -----------------------------
(***************************************************************************)
(* A deployment: processes that migrate and that serve (Migrations), and    *)
(* the threads and connections of one that serves (Pool).  What joins them  *)
(* is that the policies which separate the tenants come with a migration.   *)
(***************************************************************************)
EXTENDS Migrations, Pool

CONSTANTS
    Server,     \* the process whose threads are followed
    RlsFile     \* 0007_rls.sql

vars == <<migrationVars, poolVars>>

ASSUME DeploymentAssumption == Server \in Boot /\ RlsFile \in 1..Files

Enforced == RlsFile \in Range(schema)
Serving == boot[Server].at = "serving"

Init == MigrationsInit /\ PoolInit

Starts(b) == (Start(b) \/ Serve(b)) /\ UNCHANGED poolVars
Migrate(b) == Runs(b) /\ UNCHANGED poolVars

\* The process takes its threads and its pool with it; the database rolls back.
Dies(b) ==
    /\ Fails(b)
    /\ IF b = Server
       THEN /\ pools' = 0
            /\ conn' = [k \in Conn |-> Closed]
            /\ caller' = [c \in Caller |-> Idle]
       ELSE UNCHANGED poolVars

\* A thread of the server.
Request(c) ==
    /\ Serving
    /\ CallerStep(c) \/ Query(c, Enforced)
    /\ UNCHANGED migrationVars

Connections == Serving /\ PoolStep /\ UNCHANGED migrationVars

Next ==
    \/ \E b \in Boot : Starts(b) \/ Migrate(b) \/ Dies(b)
    \/ \E c \in Caller : Request(c)
    \/ Connections

Spec == Init /\ [][Next]_vars

\* A process that runs takes its next step: what it waits for is another's lock, and
\* that is released when its holder commits or dies.
FairSpec == Spec /\ \A b \in Boot : WF_vars(Migrate(b))
=============================================================================
