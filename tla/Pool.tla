-------------------------------- MODULE Pool --------------------------------
(***************************************************************************)
(* db.py: the pool that the threads of one serving process borrow from, and *)
(* the tenant setting that rides on a connection for one transaction.       *)
(* psycopg_pool and Postgres are modelled from how db.py uses them: a pool  *)
(* lends what is free, opens up to its maximum, and throws away what is     *)
(* broken when it is next looked at.                                        *)
(***************************************************************************)
EXTENDS Integers, FiniteSets

CONSTANTS
    Caller,     \* threads
    Org,        \* tenants
    NoOrg,      \* connect() without an org
    Conn,       \* physical connections
    PoolMax     \* db_pool_max

VARIABLES
    pools,      \* how many pools have been made; _pool is the last of them
    conn,       \* the connections that are open
    caller      \* where each thread is

poolVars == <<pools, conn, caller>>

ASSUME PoolAssumption == PoolMax \in Nat \ {0} /\ NoOrg \notin Org

Idle == [at |-> "idle"]
Stands(c, to) == caller' = [caller EXCEPT ![c] = to]
Closed == [pool |-> 0]
Lent(k) == \E c \in Caller : caller[c].at = "inside" /\ caller[c].with = k

PoolInit ==
    /\ pools = 0
    /\ conn = [k \in Conn |-> Closed]
    /\ caller = [c \in Caller |-> Idle]

\* connect(org), get_pool: the test of `_pool is None`.
Enter(c, org) ==
    /\ caller[c].at = "idle"
    /\ Stands(c, [at |-> IF pools = 0 THEN "making" ELSE "waiting",
                  pool |-> pools, org |-> org])
    /\ UNCHANGED <<pools, conn>>

\* The assignment; the pool that another thread has just made is forgotten.
MakePool(c) ==
    /\ caller[c].at = "making"
    /\ pools' = pools + 1
    /\ Stands(c, [caller[c] EXCEPT !.at = "waiting", !.pool = pools + 1])
    /\ UNCHANGED conn

\* A connection of pool p, set up once by _configure.
Open(p, k) ==
    /\ conn[k] = Closed
    /\ Cardinality({j \in Conn : conn[j].pool = p}) < PoolMax
    /\ conn' = [conn EXCEPT ![k] = [pool |-> p, guc |-> NoOrg, broken |-> FALSE]]
    /\ UNCHANGED <<pools, caller>>

\* The server ends it: a restart, a suspended database.
Break(k) ==
    /\ conn[k] # Closed
    /\ conn' = [conn EXCEPT ![k].broken = TRUE]
    /\ UNCHANGED <<pools, caller>>

\* check_connection finds it broken.
Discard(k) ==
    /\ conn[k] # Closed /\ ~Lent(k)
    /\ conn[k].broken
    /\ conn' = [conn EXCEPT ![k] = Closed]
    /\ UNCHANGED <<pools, caller>>

\* The loan of a connection that passes the check, and set_config.
Borrow(c, k) ==
    /\ caller[c].at = "waiting"
    /\ conn[k] # Closed /\ ~Lent(k)
    /\ conn[k].pool = caller[c].pool /\ ~conn[k].broken
    /\ conn' = [conn EXCEPT ![k].guc = IF caller[c].org = NoOrg THEN @ ELSE caller[c].org]
    /\ Stands(c, [at |-> "inside", org |-> caller[c].org, with |-> k, saw |-> {}])
    /\ UNCHANGED pools

\* No connection in time.
TimeOut(c) ==
    /\ caller[c].at = "waiting"
    /\ Stands(c, Idle)
    /\ UNCHANGED <<pools, conn>>

\* Of a protected table, the rows that the policies let a statement of c see.
Query(c, enforced) ==
    /\ caller[c].at = "inside"
    /\ ~conn[caller[c].with].broken
    /\ Stands(c, [caller[c] EXCEPT !.saw =
                    @ \cup IF enforced THEN {conn[caller[c].with].guc} \ {NoOrg} ELSE Org])
    /\ UNCHANGED <<pools, conn>>

\* Mutant: set_config(..., false), which outlives the transaction.
ExitAndKeep(c) ==
    /\ caller[c].at = "inside"
    /\ Stands(c, Idle)
    /\ UNCHANGED <<pools, conn>>

\* The commit or the rollback at the end of the block takes the setting back.
Exit(c) ==
    /\ caller[c].at = "inside"
    /\ conn' = [conn EXCEPT ![caller[c].with].guc = NoOrg]
    /\ Stands(c, Idle)
    /\ UNCHANGED pools

CallerStep(c) ==
    \/ \E org \in Org \cup {NoOrg} : Enter(c, org)
    \/ MakePool(c)
    \/ \E k \in Conn : Borrow(c, k)
    \/ TimeOut(c)
    \/ Exit(c)

PoolStep ==
    \E k \in Conn : Break(k) \/ Discard(k) \/ \E p \in 1..pools : Open(p, k)

\* A query that forgets its tenant filter "yields nothing rather than leaking across
\* tenants" (db.py:93): inside connect(org) it sees the rows of that org, inside
\* connect() none, whoever had the connection before.
RowsAreOwn ==
    \A c \in Caller : caller[c].at = "inside" => caller[c].saw \subseteq {caller[c].org} \ {NoOrg}

\* "Connection pool bounds" (config.py:21): no more connections than db_pool_max.
\* Two threads that find no pool make two.
WithinPoolMax == Cardinality({k \in Conn : conn[k] # Closed}) <= PoolMax
=============================================================================
