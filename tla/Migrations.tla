---------------------------- MODULE Migrations ----------------------------
(***************************************************************************)
(* migrate.py, run by whoever starts with it: a container whose entrypoint  *)
(* migrates and then execs the server, the release command, a developer's   *)
(* shell.  A container without RUN_MIGRATIONS execs the server at once; it   *)
(* is started after a release command that succeeded (fly.toml).            *)
(*                                                                          *)
(* _applied's SELECT opens a transaction on the connection that applies, so *)
(* the `conn.transaction()` around each file is a savepoint in it and every *)
(* pending file commits at the end of the `with psycopg.connect` block.     *)
(* Two runs meet in the database: creating what another run creates waits   *)
(* for it to commit and then fails.                                         *)
(***************************************************************************)
EXTENDS Integers, Sequences, Functions

CONSTANTS
    Boot,       \* processes that start
    Migrating,  \* those that migrate first
    Files,      \* how many migration files there are, 1 the first by name
    MaxStarts   \* bound: starts in all

VARIABLES
    made,       \* the app role and the table of versions, once they exist
    schema,     \* the files whose SQL has taken effect, in order
    rows,       \* schema_migrations.version
    released,   \* has a run of these files ended well?
    boot,       \* where each process is
    starts      \* how many there have been

migrationVars == <<made, schema, rows, released, boot, starts>>

ASSUME MigrationAssumption == {Files, MaxStarts} \subseteq Nat /\ Migrating \subseteq Boot

Moves(b, to) == boot' = [boot EXCEPT ![b] = to]
Down == [at |-> "down"]

\* A database that earlier versions of the program left at any of their files.
MigrationsInit ==
    /\ \E n \in 0..Files :
         /\ schema = [i \in 1..n |-> i]
         /\ rows = 1..n
         /\ released \in {FALSE, n = Files}
         /\ made \in IF n = 0 THEN SUBSET {"role", "table"} ELSE {{"role", "table"}}
    /\ boot = [b \in Boot |-> Down]
    /\ starts = 0

\* The entrypoint with RUN_MIGRATIONS, or main.
Start(b) ==
    /\ b \in Migrating
    /\ boot[b].at = "down"
    /\ starts < MaxStarts
    /\ starts' = starts + 1
    /\ Moves(b, [at |-> "looking", for |-> "role"])
    /\ UNCHANGED <<made, schema, rows, released>>

\* The entrypoint without: nothing is asked of the database.
Serve(b) ==
    /\ b \notin Migrating
    /\ released
    /\ boot[b].at = "down"
    /\ starts < MaxStarts
    /\ starts' = starts + 1
    /\ Moves(b, [at |-> "serving"])
    /\ UNCHANGED <<made, schema, rows, released>>

\* What comes after the role, and after the table, is there.
Provided(b, x) ==
    Moves(b, IF x = "role" THEN [at |-> "looking", for |-> "table"] ELSE [at |-> "reading"])

\* ensure_app_role's select, and the test inside `create table if not exists`.
Look(b) ==
    /\ boot[b].at = "looking"
    /\ LET x == boot[b].for
       IN  IF x \in made THEN Provided(b, x) ELSE Moves(b, [at |-> "making", for |-> x])
    /\ UNCHANGED <<made, schema, rows, released, starts>>

\* The creation and its commit.  Another process may have been quicker (Refused).
Make(b) ==
    /\ boot[b].at = "making"
    /\ boot[b].for \notin made
    /\ made' = made \cup {boot[b].for}
    /\ Provided(b, boot[b].for)
    /\ UNCHANGED <<schema, rows, released, starts>>

\* _applied.
ReadApplied(b) ==
    /\ boot[b].at = "reading"
    /\ Moves(b, [at |-> "applying", done |-> rows, mine |-> << >>])
    /\ UNCHANGED <<made, schema, rows, released, starts>>

\* What the loop over _files() has left to do.
Pending(b) == {f \in 1..Files : f \notin boot[b].done /\ f \notin Range(boot[b].mine)}
\* The order of the names.
Turn(b) == {f \in Pending(b) : \A g \in Pending(b) : f <= g}
\* A file that another transaction is applying is waited for.
Contended(b, f) ==
    \E o \in Boot \ {b} : boot[o].at = "applying" /\ f \in Range(boot[o].mine)

\* Mutant: on a connection in autocommit, where SQL takes effect as it runs.
ApplyAutocommit(b, f) ==
    /\ boot[b].at = "applying"
    /\ f \in Turn(b)
    /\ ~Contended(b, f)
    /\ f \notin rows
    /\ Moves(b, [boot[b] EXCEPT !.mine = Append(@, f)])
    /\ schema' = Append(schema, f)
    /\ UNCHANGED <<made, rows, released, starts>>

\* The SQL of a file and the row that records it, in the transaction.
Apply(b, f) ==
    /\ boot[b].at = "applying"
    /\ f \in Turn(b)
    /\ ~Contended(b, f)
    /\ f \notin rows
    /\ Moves(b, [boot[b] EXCEPT !.mine = Append(@, f)])
    /\ UNCHANGED <<made, schema, rows, released, starts>>

\* The end of the `with` block; the entrypoint goes on to exec the server, and a
\* release command has ended well.
Commit(b) ==
    /\ boot[b].at = "applying"
    /\ Pending(b) = {}
    /\ schema' = schema \o boot[b].mine
    /\ rows' = rows \cup Range(boot[b].mine)
    /\ released' = TRUE
    /\ Moves(b, [at |-> "serving"])
    /\ UNCHANGED <<made, starts>>

\* Mutant: an entrypoint without `set -e`.
RefusedAndServes(b) ==
    /\ \/ boot[b].at = "making" /\ boot[b].for \in made
       \/ boot[b].at = "applying" /\ Turn(b) \cap rows # {}
    /\ Moves(b, [at |-> "serving"])
    /\ UNCHANGED <<made, schema, rows, released, starts>>

\* Mutant: the error is caught and the file tried again, by what was read before.
RefusedAndRetries(b) ==
    /\ \/ boot[b].at = "making" /\ boot[b].for \in made
       \/ boot[b].at = "applying" /\ Turn(b) \cap rows # {}
    /\ Moves(b, IF boot[b].at = "making" THEN Down ELSE [boot[b] EXCEPT !.mine = << >>])
    /\ UNCHANGED <<made, schema, rows, released, starts>>

\* What is to be created exists by now, or the version is recorded by now: an error,
\* the transaction is rolled back and, by `set -e`, nothing is served.
Refused(b) ==
    /\ \/ boot[b].at = "making" /\ boot[b].for \in made
       \/ boot[b].at = "applying" /\ Turn(b) \cap rows # {}
    /\ Moves(b, Down)
    /\ UNCHANGED <<made, schema, rows, released, starts>>

\* A kill, or any other error.
Fails(b) ==
    /\ boot[b].at # "down"
    /\ Moves(b, Down)
    /\ UNCHANGED <<made, schema, rows, released, starts>>

\* A process that has started goes on.
Runs(b) ==
    \/ Look(b) \/ Make(b) \/ ReadApplied(b)
    \/ \E f \in 1..Files : Apply(b, f)
    \/ Commit(b) \/ Refused(b)

\* The files took effect once each, in order, and the table says which: after any
\* deaths, and with any number of processes migrating at once.
SchemaIsWhole ==
    /\ schema = [i \in 1..Len(schema) |-> i]
    /\ rows = 1..Len(schema)

\* A process serves only on a database that is at its own version: it has migrated, or
\* it was started after a release command that has, whatever died in between.  (An
\* entrypoint without RUN_MIGRATIONS that nobody releases for serves what it finds.)
ServesMigrated == \A b \in Boot : boot[b].at = "serving" => rows = 1..Files

\* However many migrate at once, none waits for another for good: each start ends in
\* a server or an exit.
StartEnds == \A b \in Boot : boot[b].at = "looking" ~> boot[b].at \in {"serving", "down"}

\* "each in its own transaction" (migrate.py:2): a run that is interrupted keeps the
\* files it has done.
EachInItsOwn == [][Len(schema') <= Len(schema) + 1]_schema
=============================================================================
